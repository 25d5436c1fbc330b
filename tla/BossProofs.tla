----------------------------- MODULE BossProofs -----------------------------
(***************************************************************************)
(* Safety of Boss for every set of queues, sessions, uuids and options.    *)
(***************************************************************************)
EXTENDS Boss, FiniteSetTheorems, TLAPS

(***************************************************************************)
(* What the row operators return.                                          *)
(***************************************************************************)

\* boss.send inserts a well-formed row, whichever options are given.
LEMMA NewJobSound ==
  ASSUME NEW q \in Queues, NEW d \in QueueRow, NEW o \in SendOption,
         NEW now \in Int, NEW t \in Int
  PROVE  /\ NewJob(q, d, o, now) \in JobRow
         /\ NewJob(q, d, o, now).name = q
         /\ NewJob(q, d, o, now).state = "created"
         /\ RowSound(NewJob(q, d, o, now), 0, t)
<1>1. /\ Coalesce(o.priority, 0) \in Int
      /\ Coalesce(o.retryLimit, d.retry_limit) \in Int
      /\ Coalesce(o.retryDelay, d.retry_delay) \in Int
      /\ Coalesce(o.expireInSeconds, d.expire_seconds) \in Int
  BY DEF Coalesce, SendOption, QueueRow
<1>2. StartAfter(o.startAfter, now) \in Int
  BY DEF StartAfter, SendOption
<1>3. now + d.retention_seconds \in Int
  BY DEF QueueRow
<1>4. NewJob(q, d, o, now) \in JobRow
  BY <1>1, <1>2, <1>3 DEF NewJob, JobRow, JobState, Waiting
<1>5. RowSound(NewJob(q, d, o, now), 0, t)
  BY DEF NewJob, RowSound, Waiting, Terminal
<1>. QED BY <1>4, <1>5 DEF NewJob

\* boss.fetch hands out a waiting row that is due: one more delivery.
LEMMA StartedSound ==
  ASSUME NEW r \in JobRow, NEW d \in Nat, NEW t \in Int, NEW now \in Int,
         RowSound(r, d, t), r.state \in Waiting, r.start_after <= now, now <= t
  PROVE  /\ Started(r, now) \in JobRow
         /\ Started(r, now).name = r.name
         /\ RowSound(Started(r, now), d + 1, t)
<1>. DEFINE a == Started(r, now)
<1>1. /\ a.state = "active" /\ a.started_on = now /\ a.name = r.name
      /\ a.retry_count = r.retry_count /\ a.retry_limit = r.retry_limit
      /\ a.start_after = r.start_after /\ a.completed_on = r.completed_on
  BY DEF Started, JobRow
<1>2. a \in JobRow
  BY DEF Started, JobRow, JobState
<1>3. d + 1 = a.retry_count + 1 /\ (a.retry_count = 0 \/ a.retry_count <= a.retry_limit)
  BY <1>1 DEF RowSound, JobRow
<1>4. a.completed_on = NULL
  BY <1>1 DEF RowSound, Waiting, Terminal
<1>5. now # NULL
  BY NullAssumption
<1>6. RowSound(a, d + 1, t)
  BY <1>1, <1>3, <1>4, <1>5 DEF RowSound, Waiting, Terminal
<1>. QED BY <1>1, <1>2, <1>6

\* boss.complete
LEMMA CompletedSound ==
  ASSUME NEW r \in JobRow, NEW d \in Nat, NEW t \in Int, NEW now \in Int,
         RowSound(r, d, t), r.state = "active"
  PROVE  /\ Completed(r, now) \in JobRow
         /\ Completed(r, now).name = r.name
         /\ RowSound(Completed(r, now), d, t)
BY NullAssumption DEF Completed, JobRow, JobState, RowSound, Waiting, Terminal

\* A retry makes the row wait again without a new delivery.
LEMMA RetriedSound ==
  ASSUME NEW r \in JobRow, NEW d \in Nat, NEW t \in Int, NEW now \in Int,
         RowSound(r, d, t), r.state = "active", r.retry_count < r.retry_limit
  PROVE  /\ Retried(r, now) \in JobRow
         /\ Retried(r, now).name = r.name
         /\ Retried(r, now).completed_on = NULL
         /\ RowSound(Retried(r, now), d, t)
<1>. DEFINE w == Retried(r, now)
<1>1. /\ w.state = "retry" /\ w.started_on = NULL /\ w.name = r.name
      /\ w.retry_count = r.retry_count + 1 /\ w.retry_limit = r.retry_limit
      /\ w.completed_on = r.completed_on
  BY DEF Retried, JobRow
<1>2. now + r.retry_delay \in Int /\ r.retry_count + 1 \in Nat
  BY DEF JobRow
<1>3. w \in JobRow
  BY <1>2 DEF Retried, JobRow, JobState, Waiting
<1>4. d = w.retry_count /\ w.retry_count <= w.retry_limit
  BY <1>1 DEF RowSound, JobRow, Waiting
<1>5. w.completed_on = NULL
  BY <1>1 DEF RowSound, Waiting, Terminal
<1>6. RowSound(w, d, t)
  BY <1>1, <1>3, <1>4, <1>5 DEF RowSound, Waiting, Terminal, JobRow
<1>. QED BY <1>1, <1>3, <1>5, <1>6

LEMMA GivenUpSound ==
  ASSUME NEW r \in JobRow, NEW d \in Nat, NEW t \in Int, NEW now \in Int,
         RowSound(r, d, t), r.state = "active"
  PROVE  /\ GivenUp(r, now) \in JobRow
         /\ GivenUp(r, now).name = r.name
         /\ RowSound(GivenUp(r, now), d, t)
BY NullAssumption DEF GivenUp, JobRow, JobState, RowSound, Waiting, Terminal

\* boss.fail
LEMMA UnfinishedSound ==
  ASSUME NEW r \in JobRow, NEW d \in Nat, NEW t \in Int, NEW now \in Int,
         RowSound(r, d, t), r.state = "active"
  PROVE  /\ Unfinished(r, now) \in JobRow
         /\ Unfinished(r, now).name = r.name
         /\ RowSound(Unfinished(r, now), d, t)
BY RetriedSound, GivenUpSound DEF Unfinished

\* The UPDATE of boss.maintain, row by row.
LEMMA ExpiredSound ==
  ASSUME IInv, NEW j \in Rows, NEW now \in Int
  PROVE  /\ ExpiredAt(j, now) \in JobRow
         /\ ExpiredAt(j, now).name = job[j].name
         /\ RowSound(ExpiredAt(j, now), deliveries[j], clock)
         /\ job[j].state # "active" => ExpiredAt(j, now) = job[j]
<1>1. /\ job[j] \in JobRow /\ deliveries[j] \in Nat /\ clock \in Int
      /\ RowSound(job[j], deliveries[j], clock)
  BY DEF IInv, TypeOK, Rows
<1>2. CASE j \notin OverdueAt(now)
  BY <1>1, <1>2 DEF ExpiredAt, Expired
<1>3. CASE j \in OverdueAt(now) /\ job[j].retry_count < job[j].retry_limit
  <2>1. job[j].state = "active"
    BY <1>3 DEF OverdueAt, Overdue, IsIn
  <2>2. /\ Retried(job[j], now) \in JobRow
        /\ Retried(job[j], now).name = job[j].name
        /\ Retried(job[j], now).completed_on = NULL
        /\ RowSound(Retried(job[j], now), deliveries[j], clock)
    BY <1>1, <1>3, <2>1, RetriedSound
  <2>3. [Retried(job[j], now) EXCEPT !.completed_on = NULL] = Retried(job[j], now)
    BY <2>2 DEF JobRow
  <2>. QED BY <1>3, <2>1, <2>2, <2>3 DEF ExpiredAt, Expired
<1>4. CASE j \in OverdueAt(now) /\ ~(job[j].retry_count < job[j].retry_limit)
  <2>1. job[j].state = "active"
    BY <1>4 DEF OverdueAt, Overdue, IsIn
  <2>. QED BY <1>1, <1>4, <2>1, GivenUpSound DEF ExpiredAt, Expired
<1>. QED BY <1>2, <1>3, <1>4

-----------------------------------------------------------------------------
(***************************************************************************)
(* The inductive invariant.                                                *)
(***************************************************************************)

LEMMA InitInv == Init => IInv
BY NullAssumption
   DEF Init, IInv, TypeOK, SessionInv, IssuedInv, RowLocksExclusive, NoOrphans, Rows

LEMMA StutterInv == IInv /\ UNCHANGED vars => IInv'
BY DEF vars, IInv, TypeOK, SessionInv, IssuedInv, RowLocksExclusive, NoOrphans,
       Rows, IsIn, Hidden

LEMMA BeginInv ==
  ASSUME IInv, NEW s \in Sessions, Begin(s)
  PROVE  IInv'
<1>. USE DEF Begin, tables
<1>1. TypeOK'
  BY DEF IInv, TypeOK
<1>2. SessionInv'
  BY DEF IInv, SessionInv, TypeOK, IsIn, Rows
<1>3. RowLocksExclusive'
  BY DEF IInv, RowLocksExclusive, TypeOK, IsIn, Rows, Hidden
<1>. QED BY <1>1, <1>2, <1>3 DEF IInv, IssuedInv, NoOrphans, Rows

LEMMA TickInv ==
  ASSUME IInv, Tick
  PROVE  IInv'
<1>. USE DEF Tick, tables
<1>1. TypeOK'
  BY DEF IInv, TypeOK
<1>2. SessionInv'
  BY DEF IInv, SessionInv, TypeOK, IsIn, Rows
<1>3. ASSUME NEW j \in Rows
      PROVE  RowSound(job[j], deliveries[j], clock + 1)
  <2>1. job[j] \in JobRow /\ clock \in Int /\ RowSound(job[j], deliveries[j], clock)
    BY DEF IInv, TypeOK, Rows
  <2>. QED BY <2>1 DEF RowSound, JobRow
<1>. QED
  BY <1>1, <1>2, <1>3 DEF IInv, IssuedInv, NoOrphans, Rows, RowLocksExclusive, IsIn, Hidden

LEMMA CreateQueueInv ==
  ASSUME IInv, NEW q \in Queues, NEW o \in QueueOptions, CreateQueue(q, o)
  PROVE  IInv'
<1>. USE DEF CreateQueue
<1>1. TypeOK'
  BY OptionAssumption DEF IInv, TypeOK
<1>2. NoOrphans'
  BY <1>1, OptionAssumption, NullAssumption DEF IInv, NoOrphans, TypeOK, Rows
<1>. QED
  BY <1>1, <1>2 DEF IInv, SessionInv, IssuedInv, Rows, RowLocksExclusive, IsIn, Hidden

\* The cascade removes rows of the queue only, and none that is locked or
\* uncommitted.
LEMMA DeleteQueueInv ==
  ASSUME IInv, NEW q \in Queues, DeleteQueue(q)
  PROVE  IInv'
<1>. USE DEF DeleteQueue
<1>1. TypeOK'
  BY DEF IInv, TypeOK
<1>2. \A j \in JobIds : job'[j] \in {job[j], NULL}
  BY DEF IInv, TypeOK
<1>3. \A j \in Hidden \cup Locked : job'[j] = job[j]
  BY DEF IInv, TypeOK, Hidden, Locked
<1>4. SessionInv'
  <2>1. ASSUME NEW s \in Sessions, NEW j \in hidden[s]
        PROVE  j \in JobIds /\ job'[j] = job[j]
    BY <2>1, <1>3 DEF IInv, TypeOK, Hidden
  <2>. QED BY <2>1 DEF IInv, SessionInv, IsIn, Rows
<1>5. RowLocksExclusive'
  <2>1. ASSUME NEW s \in Sessions, NEW j \in claim[s]
        PROVE  j \in JobIds /\ job'[j] = job[j]
    BY <2>1, <1>3 DEF IInv, TypeOK, Locked
  <2>. QED BY <2>1 DEF IInv, RowLocksExclusive, IsIn, Rows, Hidden
<1>6. NoOrphans'
  BY <1>1 DEF IInv, NoOrphans, TypeOK, Rows
<1>7. IssuedInv' /\ (\A j \in Rows : RowSound(job[j], deliveries[j], clock))'
  BY <1>2 DEF IInv, IssuedInv, Rows
<1>. QED BY <1>1, <1>4, <1>5, <1>6, <1>7 DEF IInv

LEMMA SendReadInv ==
  ASSUME IInv, NEW s \in Sessions, NEW q \in Queues, SendRead(s, q)
  PROVE  IInv'
<1>. USE DEF SendRead, tables
<1>1. TypeOK'
  <2>1. [name |-> q, defaults |-> queue[q]] \in Draft
    BY DEF IInv, TypeOK, Draft
  <2>. QED BY <2>1 DEF IInv, TypeOK
<1>2. SessionInv'
  BY DEF IInv, TypeOK, SessionInv, IsIn, Rows
<1>. QED
  BY <1>1, <1>2 DEF IInv, IssuedInv, Rows, NoOrphans, RowLocksExclusive, IsIn, Hidden

\* The new row cannot be one that another session holds: its uuid is fresh.
LEMMA SendInsertInv ==
  ASSUME IInv, NEW s \in Sessions, NEW o \in SendOptions, SendInsert(s, o)
  PROVE  IInv'
<1>1. PICK j \in JobIds \ issued :
        /\ issued' = issued \cup {j}
        /\ job' = [job EXCEPT ![j] = NewJob(draft[s].name, draft[s].defaults, o, began[s])]
        /\ hidden' = [hidden EXCEPT ![s] = @ \cup {j}]
  BY DEF SendInsert
<1>. DEFINE q == draft[s].name
            d == draft[s].defaults
            r == NewJob(q, d, o, began[s])
<1>2. /\ draft[s] \in Draft /\ queue[draft[s].name] # NULL /\ began[s] \in Int
      /\ draft' = [draft EXCEPT ![s] = NULL]
      /\ UNCHANGED <<clock, queue, notes, began, claim, deliveries>>
  BY DEF SendInsert, ForeignKeyHolds, IInv, TypeOK, SessionInv
<1>3. /\ q \in Queues /\ d \in QueueRow /\ o \in SendOption
      /\ began[s] \in Int /\ clock \in Int
  BY <1>2, OptionAssumption DEF Draft, IInv, TypeOK
<1>. HIDE DEF q, d
<1>4. r \in JobRow /\ r.name = q /\ r.state = "created" /\ RowSound(r, 0, clock)
  BY <1>3, NewJobSound
<1>. HIDE DEF r
<1>. USE DEF q, d
<1>5. r # NULL
  BY <1>4, NullAssumption
<1>6. job[j] = NULL /\ deliveries[j] = 0
  BY DEF IInv, IssuedInv
<1>7. \A i \in JobIds : job'[i] = IF i = j THEN r ELSE job[i]
  BY <1>1 DEF IInv, TypeOK, r
<1>8. Rows' = Rows \cup {j} /\ j \notin Rows
  BY <1>5, <1>6, <1>7 DEF Rows
<1>9. \A t \in Sessions : j \notin hidden[t] /\ j \notin claim[t]
  BY <1>6 DEF IInv, SessionInv, RowLocksExclusive, IsIn, Rows
<1>10. TypeOK'
  <2>1. job' \in [JobIds -> JobRow \cup {NULL}]
    BY <1>1, <1>4 DEF IInv, TypeOK, r
  <2>2. hidden' \in [Sessions -> SUBSET JobIds] /\ issued' \subseteq JobIds
    BY <1>1 DEF IInv, TypeOK
  <2>. QED BY <1>2, <2>1, <2>2 DEF IInv, TypeOK
<1>11. \A t \in Sessions : hidden'[t] = IF t = s THEN hidden[t] \cup {j} ELSE hidden[t]
  BY <1>1 DEF IInv, TypeOK
<1>12. SessionInv'
  <2>1. ASSUME NEW t \in Sessions
        PROVE  /\ began[t] # NULL => began[t] <= clock
               /\ draft'[t] # NULL => began[t] # NULL
    BY <1>2 DEF IInv, TypeOK, SessionInv
  <2>2. ASSUME NEW t \in Sessions, NEW i \in hidden'[t]
        PROVE  /\ began[t] # NULL
               /\ i \in IsIn({"created"})'
               /\ \A u \in Sessions \ {t} : i \notin hidden'[u]
    <3>1. CASE i = j
      BY <3>1, <1>2, <1>4, <1>7, <1>8, <1>9, <1>11, NullAssumption DEF IsIn
    <3>2. CASE i # j
      <4>1. i \in hidden[t]
        BY <3>2, <1>11
      <4>2. /\ began[t] # NULL
            /\ i \in Rows /\ job[i].state \in {"created"}
            /\ \A u \in Sessions \ {t} : i \notin hidden[u]
        BY <4>1 DEF IInv, SessionInv, IsIn
      <4>3. i \in Rows' /\ job'[i] = job[i]
        BY <4>2, <3>2, <1>7, <1>8 DEF Rows
      <4>. QED BY <4>2, <4>3, <3>2, <1>11 DEF IsIn
    <3>. QED BY <3>1, <3>2
  <2>. QED BY <2>1, <2>2, <1>2 DEF SessionInv
<1>13. RowLocksExclusive'
  <2>1. ASSUME NEW t \in Sessions, NEW i \in claim[t]
        PROVE  /\ i \in IsIn(Waiting)' \ Hidden'
               /\ job'[i] = job[i]
    <3>1. i # j /\ i \in Rows /\ job[i].state \in Waiting /\ i \notin Hidden
      BY <1>9 DEF IInv, RowLocksExclusive, IsIn
    <3>2. job'[i] = job[i] /\ i \in Rows'
      BY <3>1, <1>7, <1>8 DEF Rows
    <3>3. i \notin Hidden'
      BY <3>1, <1>11 DEF Hidden
    <3>. QED BY <3>1, <3>2, <3>3 DEF IsIn
  <2>. QED BY <2>1, <1>2 DEF IInv, RowLocksExclusive
<1>14. NoOrphans'
  BY <1>2, <1>4, <1>7, <1>8 DEF IInv, NoOrphans, Rows
<1>15. IssuedInv'
  BY <1>1, <1>2, <1>7 DEF IInv, IssuedInv
<1>16. (\A i \in Rows : RowSound(job[i], deliveries[i], clock))'
  BY <1>2, <1>4, <1>6, <1>7, <1>8 DEF IInv, Rows
<1>. QED BY <1>10, <1>12, <1>13, <1>14, <1>15, <1>16 DEF IInv

\* SKIP LOCKED: what a fetch locks is waiting, due, visible and nobody else's, and
\* joins rows of the same queue.
LEMMA FetchTakes ==
  ASSUME NEW s \in Sessions, NEW q \in Queues, NEW n, FetchLock(s, q, n)
  PROVE  \E j \in JobIds :
           /\ claim' = [claim EXCEPT ![s] = @ \cup {j}]
           /\ j \in IsIn(Waiting) \ Hidden /\ job[j].start_after <= began[s]
           /\ \A t \in Sessions : j \notin claim[t]
           /\ \A i \in claim[s] \cup {j} : job[i].name = q
<1>1. PICK j \in Claimable(q, began[s]) : claim' = [claim EXCEPT ![s] = @ \cup {j}]
  BY DEF FetchLock
<1>2. j \in Ready(q, began[s]) /\ \A t \in Sessions : j \notin claim[t]
  BY <1>1 DEF Claimable, Locked
<1>3. /\ j \in IsIn(Waiting) \ Hidden /\ job[j].start_after <= began[s] /\ job[j].name = q
      /\ j \in JobIds
  BY <1>2 DEF Ready, IsIn, Rows
<1>. QED BY <1>1, <1>2, <1>3 DEF FetchLock

\* A fetch of a single job locks it while it holds no other.
LEMMA FetchOfOne ==
  ASSUME TypeOK, NEW s \in Sessions, NEW q, FetchLock(s, q, 1)
  PROVE  claim[s] = {}
<1>1. IsFiniteSet(claim[s])
  BY BoundAssumption, FS_Subset DEF TypeOK
<1>2. Cardinality(claim[s]) \in Nat /\ Cardinality(claim[s]) < 1
  BY <1>1, FS_CardinalityType DEF FetchLock
<1>3. Cardinality(claim[s]) = 0
  BY <1>2
<1>. QED BY <1>1, <1>3, FS_EmptySet

LEMMA FetchLockInv ==
  ASSUME IInv, NEW s \in Sessions, NEW q \in Queues, NEW n \in BatchSizes,
         FetchLock(s, q, n)
  PROVE  IInv'
<1>1. /\ began[s] # NULL
      /\ UNCHANGED <<clock, tables, began, draft, hidden>>
  BY DEF FetchLock
<1>2. PICK k \in JobIds :
        /\ claim' = [claim EXCEPT ![s] = @ \cup {k}]
        /\ k \in IsIn(Waiting) \ Hidden /\ job[k].start_after <= began[s]
        /\ \A t \in Sessions : k \notin claim[t]
  BY FetchTakes
<1>. DEFINE C == claim[s] \cup {k}
<1>3. \A j \in C : /\ j \in IsIn(Waiting) \ Hidden
                   /\ job[j].start_after <= began[s]
                   /\ \A t \in Sessions \ {s} : j \notin claim[t]
  BY <1>2 DEF IInv, RowLocksExclusive
<1>4. TypeOK'
  BY <1>1, <1>2 DEF IInv, TypeOK, tables
<1>5. \A t \in Sessions : claim'[t] = IF t = s THEN C ELSE claim[t]
  BY <1>2 DEF IInv, TypeOK
<1>. HIDE DEF C
<1>6. RowLocksExclusive'
  <2>1. ASSUME NEW t \in Sessions, NEW j \in claim'[t]
        PROVE  /\ began[t] # NULL
               /\ j \in IsIn(Waiting) \ Hidden
               /\ job[j].start_after <= began[t]
               /\ \A u \in Sessions \ {t} : j \notin claim'[u]
    <3>1. CASE t = s
      BY <3>1, <1>1, <1>3, <1>5
    <3>2. CASE t # s
      BY <3>2, <1>3, <1>5 DEF IInv, RowLocksExclusive
    <3>. QED BY <3>1, <3>2
  <2>. QED BY <2>1, <1>1 DEF RowLocksExclusive, IsIn, Rows, Hidden, tables
<1>. QED
  BY <1>1, <1>4, <1>6 DEF IInv, SessionInv, IssuedInv, Rows, NoOrphans, IsIn, tables

\* The end of a transaction takes everything from session s and nothing from
\* the others.
LEMMA EndEffect ==
  ASSUME TypeOK, NEW s \in Sessions, End(s)
  PROVE  /\ began' \in [Sessions -> Int \cup {NULL}]
         /\ draft' \in [Sessions -> Draft \cup {NULL}]
         /\ hidden' \in [Sessions -> SUBSET JobIds]
         /\ claim' \in [Sessions -> SUBSET JobIds]
         /\ began'[s] = NULL /\ draft'[s] = NULL /\ hidden'[s] = {} /\ claim'[s] = {}
         /\ \A t \in Sessions \ {s} :
              /\ began'[t] = began[t] /\ draft'[t] = draft[t]
              /\ hidden'[t] = hidden[t] /\ claim'[t] = claim[t]
         /\ Hidden' \subseteq Hidden
<1>1. /\ began' \in [Sessions -> Int \cup {NULL}]
      /\ draft' \in [Sessions -> Draft \cup {NULL}]
      /\ hidden' \in [Sessions -> SUBSET JobIds]
      /\ claim' \in [Sessions -> SUBSET JobIds]
  BY DEF TypeOK, End
<1>2. /\ began'[s] = NULL /\ draft'[s] = NULL /\ hidden'[s] = {} /\ claim'[s] = {}
      /\ \A t \in Sessions \ {s} :
           /\ began'[t] = began[t] /\ draft'[t] = draft[t]
           /\ hidden'[t] = hidden[t] /\ claim'[t] = claim[t]
  BY DEF TypeOK, End
<1>3. Hidden' \subseteq Hidden
  BY <1>2 DEF Hidden
<1>. QED BY <1>1, <1>2, <1>3

\* A transaction of session s that ends keeps what the others rely on, if it
\* leaves the rows they have locked or inserted as they are.
LEMMA OthersUndisturbed ==
  ASSUME IInv, NEW s \in Sessions, End(s), UNCHANGED clock,
         \A t \in Sessions \ {s} : \A j \in hidden[t] \cup claim[t] : job'[j] = job[j]
  PROVE  SessionInv' /\ RowLocksExclusive'
<1>1. TypeOK
  BY DEF IInv
<1>2. /\ began'[s] = NULL /\ draft'[s] = NULL /\ hidden'[s] = {} /\ claim'[s] = {}
      /\ \A t \in Sessions \ {s} :
           /\ began'[t] = began[t] /\ draft'[t] = draft[t]
           /\ hidden'[t] = hidden[t] /\ claim'[t] = claim[t]
      /\ Hidden' \subseteq Hidden
  BY <1>1, EndEffect
<1>3. ASSUME NEW t \in Sessions
      PROVE  /\ began'[t] # NULL => began'[t] <= clock
             /\ draft'[t] # NULL => began'[t] # NULL
  BY <1>2 DEF IInv, SessionInv
<1>4. ASSUME NEW t \in Sessions, NEW j \in hidden'[t]
      PROVE  /\ began'[t] # NULL
             /\ j \in IsIn({"created"})'
             /\ \A u \in Sessions \ {t} : j \notin hidden'[u]
  <2>1. t # s /\ j \in hidden[t] /\ job'[j] = job[j] /\ began'[t] = began[t]
    BY <1>2
  <2>2. /\ began[t] # NULL /\ j \in Rows /\ job[j].state \in {"created"}
        /\ \A u \in Sessions \ {t} : j \notin hidden[u]
    BY <2>1 DEF IInv, SessionInv, IsIn
  <2>3. j \in IsIn({"created"})'
    BY <2>1, <2>2 DEF IsIn, Rows
  <2>4. \A u \in Sessions \ {t} : j \notin hidden'[u]
    BY <2>2, <1>2
  <2>. QED BY <2>1, <2>2, <2>3, <2>4
<1>5. ASSUME NEW t \in Sessions, NEW j \in claim'[t]
      PROVE  /\ began'[t] # NULL
             /\ j \in IsIn(Waiting)' \ Hidden'
             /\ job'[j].start_after <= began'[t]
             /\ \A u \in Sessions \ {t} : j \notin claim'[u]
  <2>1. t # s /\ j \in claim[t] /\ job'[j] = job[j] /\ began'[t] = began[t]
    BY <1>2
  <2>2. /\ began[t] # NULL /\ j \in Rows /\ job[j].state \in Waiting
        /\ j \notin Hidden /\ job[j].start_after <= began[t]
        /\ \A u \in Sessions \ {t} : j \notin claim[u]
    BY <2>1 DEF IInv, RowLocksExclusive, IsIn
  <2>3. j \in IsIn(Waiting)' /\ j \notin Hidden'
    BY <2>1, <2>2, <1>2 DEF IsIn, Rows
  <2>4. \A u \in Sessions \ {t} : j \notin claim'[u]
    BY <2>2, <1>2
  <2>. QED BY <2>1, <2>2, <2>3, <2>4
<1>. QED BY <1>3, <1>4, <1>5 DEF SessionInv, RowLocksExclusive

\* A transaction that ends and writes only rows that are sound afterwards.
LEMMA EndInv ==
  ASSUME IInv, NEW s \in Sessions, End(s), UNCHANGED <<clock, queue, issued>>,
         job' \in [JobIds -> JobRow \cup {NULL}],
         notes' \in [Queues -> Nat], deliveries' \in [JobIds -> Nat],
         \A t \in Sessions \ {s} : \A j \in hidden[t] \cup claim[t] : job'[j] = job[j],
         \A j \in JobIds : job[j] = NULL => job'[j] = NULL /\ deliveries'[j] = deliveries[j],
         \A j \in Rows : job'[j] # NULL =>
           job'[j].name = job[j].name /\ RowSound(job'[j], deliveries'[j], clock)
  PROVE  IInv'
<1>1. TypeOK'
  BY EndEffect DEF IInv, TypeOK
<1>2. SessionInv' /\ RowLocksExclusive'
  BY OthersUndisturbed
<1>3. Rows' \subseteq Rows
  BY DEF Rows
<1>4. NoOrphans'
  BY <1>3 DEF IInv, NoOrphans, Rows
<1>5. IssuedInv'
  BY DEF IInv, IssuedInv
<1>6. (\A j \in Rows : RowSound(job[j], deliveries[j], clock))'
  BY <1>3 DEF Rows
<1>. QED BY <1>1, <1>2, <1>4, <1>5, <1>6 DEF IInv

LEMMA ActiveUnshared ==
  ASSUME IInv, NEW j \in Rows, job[j].state \notin Waiting
  PROVE  \A t \in Sessions : j \notin hidden[t] \cup claim[t]
BY DEF IInv, SessionInv, RowLocksExclusive, IsIn, Waiting

LEMMA RowFacts ==
  ASSUME IInv, NEW j \in Rows
  PROVE  /\ job[j] \in JobRow /\ job[j] # NULL /\ deliveries[j] \in Nat /\ clock \in Int
         /\ RowSound(job[j], deliveries[j], clock)
BY DEF IInv, TypeOK, Rows

\* boss.complete and boss.fail replace one active row by a sound one.
LEMMA ReplaceActiveInv ==
  ASSUME IInv, NEW s \in Sessions, End(s), UNCHANGED <<clock, queue, issued, deliveries>>,
         notes' \in [Queues -> Nat],
         NEW j \in Rows, job[j].state = "active", NEW r \in JobRow,
         job' = [job EXCEPT ![j] = r],
         r.name = job[j].name, RowSound(r, deliveries[j], clock)
  PROVE  IInv'
<1>1. /\ j \in JobIds /\ job[j] # NULL
      /\ job \in [JobIds -> JobRow \cup {NULL}] /\ deliveries \in [JobIds -> Nat]
  BY DEF IInv, TypeOK, Rows
<1>2. \A i \in JobIds : job'[i] = IF i = j THEN r ELSE job[i]
  BY <1>1
<1>3. \A t \in Sessions \ {s} : \A i \in hidden[t] \cup claim[t] : job'[i] = job[i]
  <2>1. \A t \in Sessions : j \notin hidden[t] \cup claim[t]
    BY ActiveUnshared DEF Waiting
  <2>. QED BY <2>1, <1>2 DEF IInv, TypeOK
<1>4. \A i \in Rows : job'[i].name = job[i].name /\ RowSound(job'[i], deliveries[i], clock)
  BY <1>2 DEF IInv, Rows
<1>. QED BY <1>1, <1>2, <1>3, <1>4, EndInv

LEMMA CompleteInv ==
  ASSUME IInv, NEW s \in Sessions, NEW q \in Queues, NEW j \in JobIds, Complete(s, q, j)
  PROVE  IInv'
<1>1. j \in Rows /\ job[j].state = "active" /\ began[s] \in Int
  BY DEF Complete, Matches, Rows, Fresh, IInv, TypeOK
<1>2. /\ job[j] \in JobRow /\ deliveries[j] \in Nat /\ clock \in Int
      /\ RowSound(job[j], deliveries[j], clock)
  BY <1>1, RowFacts
<1>. DEFINE r == Completed(job[j], began[s])
<1>3. r \in JobRow /\ r.name = job[j].name /\ RowSound(r, deliveries[j], clock)
  BY <1>1, <1>2, CompletedSound
<1>4. /\ notes' \in [Queues -> Nat]
      /\ job' = [job EXCEPT ![j] = r] /\ End(s)
      /\ UNCHANGED <<clock, queue, issued, deliveries>>
  BY DEF Complete, IInv, TypeOK
<1>. HIDE DEF r
<1>. QED BY <1>1, <1>3, <1>4, ReplaceActiveInv

LEMMA FailInv ==
  ASSUME IInv, NEW s \in Sessions, NEW q \in Queues, NEW j \in JobIds, Fail(s, q, j)
  PROVE  IInv'
<1>1. j \in Rows /\ job[j].state = "active" /\ began[s] \in Int
  BY DEF Fail, Matches, Rows, Fresh, IInv, TypeOK
<1>2. /\ job[j] \in JobRow /\ deliveries[j] \in Nat /\ clock \in Int
      /\ RowSound(job[j], deliveries[j], clock)
  BY <1>1, RowFacts
<1>. DEFINE r == Unfinished(job[j], began[s])
<1>3. r \in JobRow /\ r.name = job[j].name /\ RowSound(r, deliveries[j], clock)
  BY <1>1, <1>2, UnfinishedSound
<1>4. job' = [job EXCEPT ![j] = r] /\ End(s) /\ UNCHANGED <<clock, queue, issued, deliveries>>
  BY DEF Fail
<1>5. notes' \in [Queues -> Nat]
  BY DEF Fail, IInv, TypeOK
<1>. HIDE DEF r
<1>. QED BY <1>1, <1>3, <1>4, <1>5, ReplaceActiveInv

\* boss.maintain leaves waiting rows alone, so no row that is locked or
\* uncommitted changes under its owner.
LEMMA MaintainInv ==
  ASSUME IInv, NEW s \in Sessions, Maintain(s)
  PROVE  IInv'
<1>1. /\ began[s] \in Int /\ End(s)
      /\ job' = [j \in JobIds |-> Maintained(j, began[s])]
      /\ UNCHANGED <<clock, queue, issued, notes, deliveries>>
      /\ notes \in [Queues -> Nat] /\ deliveries \in [JobIds -> Nat]
  BY DEF Maintain, Fresh, IInv, TypeOK
<1>2. ASSUME NEW j \in JobIds, j \notin Rows
      PROVE  job'[j] = NULL
  BY <1>1, <1>2 DEF Maintained, Expendable, ExpiredAt, Expired, OverdueAt, Overdue, IsIn, Rows
<1>3. ASSUME NEW j \in Rows
      PROVE  /\ ExpiredAt(j, began[s]) \in JobRow
             /\ ExpiredAt(j, began[s]).name = job[j].name
             /\ RowSound(ExpiredAt(j, began[s]), deliveries[j], clock)
             /\ job'[j] \in {ExpiredAt(j, began[s]), NULL}
  BY <1>1, ExpiredSound DEF Maintained, Expendable, Rows
<1>4. job' \in [JobIds -> JobRow \cup {NULL}]
  BY <1>1, <1>2, <1>3
<1>5. ASSUME NEW t \in Sessions, NEW j \in hidden[t] \cup claim[t]
      PROVE  job'[j] = job[j]
  <2>1. j \in Rows /\ job[j].state \in Waiting
    BY DEF IInv, SessionInv, RowLocksExclusive, IsIn, Waiting
  <2>2. ExpiredAt(j, began[s]) = job[j]
    BY <1>1, <2>1, ExpiredSound DEF Waiting
  <2>. QED BY <1>1, <2>1, <2>2 DEF Maintained, Expendable, Rows, Waiting, Terminal
<1>. QED BY <1>1, <1>2, <1>3, <1>4, <1>5, EndInv DEF Rows

LEMMA CommitInv ==
  ASSUME IInv, NEW s \in Sessions, Commit(s)
  PROVE  IInv'
<1>1. /\ began[s] \in Int /\ began[s] <= clock /\ End(s)
      /\ job' = [j \in JobIds |-> IF j \in claim[s] THEN Started(job[j], began[s]) ELSE job[j]]
      /\ deliveries' = [j \in JobIds |->
            IF j \in claim[s] THEN deliveries[j] + 1 ELSE deliveries[j]]
      /\ UNCHANGED <<clock, queue, issued>>
      /\ claim[s] \subseteq JobIds
  BY DEF Commit, IInv, TypeOK, SessionInv
<1>2. notes' \in [Queues -> Nat]
  <2>1. \A q \in Queues : IsFiniteSet(Announced(s, q))
    BY BoundAssumption, FS_Subset DEF Announced, IInv, TypeOK
  <2>2. \A q \in Queues : Cardinality(Announced(s, q)) \in Nat
    BY <2>1, FS_CardinalityType
  <2>. QED BY <2>2 DEF Commit, IInv, TypeOK
<1>3. deliveries' \in [JobIds -> Nat]
  BY <1>1 DEF IInv, TypeOK
<1>4. ASSUME NEW j \in claim[s]
      PROVE  /\ j \in Rows /\ job'[j] \in JobRow /\ job'[j].name = job[j].name
             /\ RowSound(job'[j], deliveries'[j], clock)
  <2>1. j \in Rows /\ job[j].state \in Waiting /\ job[j].start_after <= began[s]
    BY DEF IInv, RowLocksExclusive, IsIn
  <2>2. job'[j] = Started(job[j], began[s]) /\ deliveries'[j] = deliveries[j] + 1
    BY <1>1
  <2>. QED BY <2>1, <2>2, <1>1, RowFacts, StartedSound
<1>5. \A j \in JobIds \ claim[s] : job'[j] = job[j] /\ deliveries'[j] = deliveries[j]
  BY <1>1
<1>6. job' \in [JobIds -> JobRow \cup {NULL}]
  BY <1>1, <1>4, <1>5 DEF IInv, TypeOK
<1>7. ASSUME NEW t \in Sessions \ {s}, NEW j \in hidden[t] \cup claim[t]
      PROVE  job'[j] = job[j]
  <2>1. j \in JobIds /\ j \notin claim[s]
    BY DEF IInv, TypeOK, RowLocksExclusive, Hidden
  <2>. QED BY <2>1, <1>5
<1>8. \A j \in Rows : job'[j].name = job[j].name /\ RowSound(job'[j], deliveries'[j], clock)
  BY <1>4, <1>5 DEF IInv, Rows
<1>9. \A j \in JobIds : job[j] = NULL => job'[j] = NULL /\ deliveries'[j] = deliveries[j]
  BY <1>4, <1>5 DEF Rows
<1>. QED BY <1>1, <1>2, <1>3, <1>6, <1>7, <1>8, <1>9, EndInv

LEMMA RollbackInv ==
  ASSUME IInv, NEW s \in Sessions, Rollback(s)
  PROVE  IInv'
<1>1. /\ End(s)
      /\ job' = [j \in JobIds |-> IF j \in hidden[s] THEN NULL ELSE job[j]]
      /\ UNCHANGED <<clock, queue, issued, notes, deliveries>>
      /\ notes \in [Queues -> Nat] /\ deliveries \in [JobIds -> Nat]
  BY DEF Rollback, IInv, TypeOK
<1>2. job' \in [JobIds -> JobRow \cup {NULL}]
  BY <1>1 DEF IInv, TypeOK
<1>3. ASSUME NEW t \in Sessions \ {s}, NEW j \in hidden[t] \cup claim[t]
      PROVE  job'[j] = job[j]
  <2>1. j \in JobIds /\ j \notin hidden[s]
    BY DEF IInv, TypeOK, SessionInv, RowLocksExclusive, Hidden
  <2>. QED BY <2>1, <1>1
<1>4. \A j \in Rows : job'[j] # NULL =>
        job'[j].name = job[j].name /\ RowSound(job'[j], deliveries[j], clock)
  BY <1>1 DEF IInv, Rows
<1>. QED BY <1>1, <1>2, <1>3, <1>4, EndInv

LEMMA NextInv == IInv /\ [Next]_vars => IInv'
<1>. SUFFICES ASSUME IInv, [Next]_vars PROVE IInv'
  OBVIOUS
<1>1. CASE UNCHANGED vars
  BY <1>1, StutterInv
<1>2. ASSUME NEW s \in Sessions, SessionStep(s)
      PROVE  IInv'
  BY <1>2, BeginInv, CommitInv, RollbackInv, SendReadInv, SendInsertInv, FetchLockInv,
     CompleteInv, FailInv, MaintainInv
     DEF SessionStep
<1>3. CASE \E q \in Queues, o \in QueueOptions : CreateQueue(q, o)
  BY <1>3, CreateQueueInv
<1>4. CASE \E q \in Queues : DeleteQueue(q)
  BY <1>4, DeleteQueueInv
<1>5. CASE Tick
  BY <1>5, TickInv
<1>. QED BY <1>1, <1>2, <1>3, <1>4, <1>5 DEF Next

\* The inductive invariant gives the invariants a reader asks about.
LEMMA InvConsequences ==
  IInv => /\ DeliveryAccounting /\ DeliveriesBounded
          /\ StampsMatchState /\ NotStartedEarly
<1>. SUFFICES ASSUME IInv
              PROVE  /\ DeliveryAccounting /\ DeliveriesBounded
                     /\ StampsMatchState /\ NotStartedEarly
  OBVIOUS
<1>1. \A j \in Rows : RowSound(job[j], deliveries[j], clock) /\ job[j] \in JobRow
  BY RowFacts
<1>2. DeliveryAccounting
  BY <1>1 DEF RowSound, DeliveryAccounting
<1>3. DeliveriesBounded
  <2>1. ASSUME NEW j \in Rows
        PROVE  deliveries[j] <= 1 + (IF job[j].retry_limit > 0 THEN job[j].retry_limit ELSE 0)
    <3>1. /\ deliveries[j] = job[j].retry_count + 1 \/ deliveries[j] = job[j].retry_count
          /\ job[j].retry_count = 0 \/ job[j].retry_count <= job[j].retry_limit
          /\ job[j].retry_count \in Nat /\ job[j].retry_limit \in Int
      BY <1>1, RowFacts DEF RowSound, JobRow
    <3>. QED BY <3>1
  <2>. QED BY <2>1 DEF DeliveriesBounded
<1>4. StampsMatchState /\ NotStartedEarly
  BY <1>1 DEF RowSound, StampsMatchState, NotStartedEarly, IsIn
<1>. QED BY <1>2, <1>3, <1>4

-----------------------------------------------------------------------------
(***************************************************************************)
(* What a step does to a row that is there.                                *)
(***************************************************************************)

\* A row that a step changes was not finished; a row that it removes was in a
\* deleted queue, was not committed, or was due for removal by maintain.
LEMMA RowStep ==
  ASSUME IInv, [Next]_vars, NEW j \in Rows
  PROVE  \/ job'[j] = job[j]
         \/ /\ job'[j] # NULL
            /\ job[j].state \notin Terminal
         \/ /\ job'[j] = NULL
            /\ \/ queue'[job[j].name] = NULL
               \/ j \in Hidden
               \/ /\ job[j].keep_until < clock
                  /\ \/ job[j].state \in Terminal
                     \/ job[j].state = "active" /\ job[j].retry_count >= job[j].retry_limit
<1>. DEFINE Kept == job'[j] = job[j]
            Written == job'[j] # NULL /\ job[j].state \notin Terminal
            Due == /\ job[j].keep_until < clock
                   /\ \/ job[j].state \in Terminal
                      \/ job[j].state = "active" /\ job[j].retry_count >= job[j].retry_limit
            Removed == job'[j] = NULL /\ (queue'[job[j].name] = NULL \/ j \in Hidden \/ Due)
<1>. SUFFICES Kept \/ Written \/ Removed
  OBVIOUS
<1>1. /\ j \in JobIds /\ job[j] \in JobRow /\ job[j] # NULL /\ job[j].name \in Queues
      /\ job \in [JobIds -> JobRow \cup {NULL}] /\ queue \in [Queues -> QueueRow \cup {NULL}]
      /\ RowSound(job[j], deliveries[j], clock) /\ deliveries[j] \in Nat /\ clock \in Int
  BY RowFacts DEF IInv, TypeOK, Rows, JobRow
<1>2. \A s \in Sessions : began[s] # NULL => began[s] \in Int /\ began[s] <= clock
  BY DEF IInv, TypeOK, SessionInv
<1>3. CASE UNCHANGED job
  BY <1>3
<1>4. ASSUME NEW s \in Sessions, Commit(s)
      PROVE  Kept \/ Written
  <2>1. job'[j] = IF j \in claim[s] THEN Started(job[j], began[s]) ELSE job[j]
    BY <1>1, <1>4 DEF Commit
  <2>2. CASE j \in claim[s]
    <3>1. began[s] \in Int /\ began[s] <= clock
      BY <1>2, <1>4 DEF Commit
    <3>2. job[j].state \in Waiting /\ job[j].start_after <= began[s]
      BY <2>2 DEF IInv, RowLocksExclusive, IsIn
    <3>3. Started(job[j], began[s]) \in JobRow
      BY <1>1, <3>1, <3>2, StartedSound
    <3>. QED BY <2>1, <2>2, <3>2, <3>3, NullAssumption DEF Waiting, Terminal
  <2>. QED BY <2>1, <2>2
<1>5. ASSUME NEW s \in Sessions, Rollback(s)
      PROVE  Kept \/ Removed
  BY <1>1, <1>5 DEF Rollback, Hidden
<1>6. ASSUME NEW s \in Sessions, NEW o \in SendOptions, SendInsert(s, o)
      PROVE  Kept
  <2>1. PICK i \in JobIds \ issued :
          job' = [job EXCEPT ![i] = NewJob(draft[s].name, draft[s].defaults, o, began[s])]
    BY <1>6 DEF SendInsert
  <2>2. i # j
    BY <1>1 DEF IInv, IssuedInv
  <2>. QED BY <1>1, <2>1, <2>2
<1>7. ASSUME NEW s \in Sessions, NEW q \in Queues, NEW i \in JobIds, Complete(s, q, i)
      PROVE  Kept \/ Written
  <2>1. job[i].state = "active" /\ job' = [job EXCEPT ![i] = Completed(@, began[s])]
        /\ began[s] \in Int /\ began[s] <= clock
    BY <1>2, <1>7 DEF Complete, Matches, Fresh
  <2>2. CASE i = j
    <3>1. Completed(job[j], began[s]) \in JobRow
      BY <1>1, <2>1, <2>2, CompletedSound
    <3>. QED BY <1>1, <2>1, <2>2, <3>1, NullAssumption DEF Terminal
  <2>. QED BY <1>1, <2>1, <2>2
<1>8. ASSUME NEW s \in Sessions, NEW q \in Queues, NEW i \in JobIds, Fail(s, q, i)
      PROVE  Kept \/ Written
  <2>1. job[i].state = "active" /\ job' = [job EXCEPT ![i] = Unfinished(@, began[s])]
        /\ began[s] \in Int /\ began[s] <= clock
    BY <1>2, <1>8 DEF Fail, Matches, Fresh
  <2>2. CASE i = j
    <3>1. Unfinished(job[j], began[s]) \in JobRow
      BY <1>1, <2>1, <2>2, UnfinishedSound
    <3>. QED BY <1>1, <2>1, <2>2, <3>1, NullAssumption DEF Terminal
  <2>. QED BY <1>1, <2>1, <2>2
<1>9. ASSUME NEW s \in Sessions, Maintain(s)
      PROVE  Kept \/ Written \/ Removed
  <2>1. job'[j] = Maintained(j, began[s]) /\ began[s] \in Int /\ began[s] <= clock
    BY <1>1, <1>2, <1>9 DEF Maintain, Fresh
  <2>. DEFINE e == ExpiredAt(j, began[s])
  <2>2. CASE j \notin OverdueAt(began[s])
    <3>1. e = job[j]
      BY <2>2 DEF ExpiredAt, Expired
    <3>. QED BY <1>1, <2>1, <3>1 DEF Maintained, Expendable, JobRow
  <2>3. CASE j \in OverdueAt(began[s])
    <3>1. job[j].state = "active" /\ e \in JobRow
      BY <2>1, <2>3, ExpiredSound DEF OverdueAt, Overdue, IsIn
    <3>2. CASE job'[j] # NULL
      BY <3>1, <3>2 DEF Terminal
    <3>3. CASE job'[j] = NULL
      <4>1. e.state \in Terminal /\ e.keep_until < began[s]
        BY <2>1, <3>1, <3>3, NullAssumption DEF Maintained, Expendable
      <4>2. ~(job[j].retry_count < job[j].retry_limit)
        BY <1>1, <2>3, <4>1 DEF ExpiredAt, Expired, Retried, Terminal, JobRow
      <4>3. e.keep_until = job[j].keep_until
        BY <1>1, <2>3, <4>2 DEF ExpiredAt, Expired, GivenUp, JobRow
      <4>. QED BY <1>1, <2>1, <3>1, <3>3, <4>1, <4>2, <4>3 DEF JobRow
    <3>. QED BY <3>2, <3>3
  <2>. QED BY <2>2, <2>3
<1>10. ASSUME NEW q \in Queues, DeleteQueue(q)
       PROVE  Kept \/ Removed
  BY <1>1, <1>10 DEF DeleteQueue
<1>11. ASSUME NEW s \in Sessions, SessionStep(s)
       PROVE  Kept \/ Written \/ Removed
  <2>1. CASE \/ Begin(s)
             \/ \E q \in Queues : SendRead(s, q)
             \/ \E q \in Queues, n \in BatchSizes : FetchLock(s, q, n)
    BY <1>3, <2>1 DEF Begin, SendRead, FetchLock, tables
  <2>. QED BY <1>4, <1>5, <1>6, <1>7, <1>8, <1>9, <1>11, <2>1 DEF SessionStep
<1>12. CASE (\E q \in Queues, o \in QueueOptions : CreateQueue(q, o)) \/ Tick \/ UNCHANGED vars
  BY <1>3, <1>12 DEF CreateQueue, Tick, vars, tables
<1>. QED BY <1>10, <1>11, <1>12 DEF Next

-----------------------------------------------------------------------------
(***************************************************************************)
(* Theorems.                                                               *)
(***************************************************************************)

\* Every reachable state satisfies the inductive invariant.
THEOREM Invariance == Spec => []IInv
BY InitInv, NextInv, PTL DEF Spec

\* The tables and the session state always have their types: in particular the
\* stamps and counters that boss.maintain and boss.fail compute.
THEOREM TypeCorrect == Spec => []TypeOK
<1>1. IInv => TypeOK
  BY DEF IInv
<1>. QED BY <1>1, Invariance, PTL

\* Two fetches never hold the same row, and a held row stays what was selected
\* (FOR UPDATE SKIP LOCKED against complete, fail, maintain and delete_queue).
THEOREM ExclusiveClaims == Spec => []RowLocksExclusive
<1>1. IInv => RowLocksExclusive
  BY DEF IInv
<1>. QED BY <1>1, Invariance, PTL

\* The foreign key: no job, committed or not, outlives its queue.
THEOREM EveryJobHasItsQueue == Spec => []NoOrphans
<1>1. IInv => NoOrphans
  BY DEF IInv
<1>. QED BY <1>1, Invariance, PTL

\* retry_count accounts for every delivery.
THEOREM DeliveriesAccounted == Spec => []DeliveryAccounting
BY Invariance, InvConsequences, PTL

\* A job is handed out at most retry_limit + 1 times, however consumers, expiry
\* and late acknowledgements interleave.
THEOREM BoundedDelivery == Spec => []DeliveriesBounded
BY Invariance, InvConsequences, PTL

\* The stamps boss.maintain and clients read agree with the state.
THEOREM StampsCorrect == Spec => []StampsMatchState
BY Invariance, InvConsequences, PTL

\* Delays are kept: a job starts no earlier than its start_after.
THEOREM DelaysKept == Spec => []NotStartedEarly
BY Invariance, InvConsequences, PTL

\* For TerminalIsFinal: what it takes is the invariant and steps of Boss.
LEMMA FinishedStaysFinishedSteps == []IInv /\ [][Next]_vars => TerminalIsFinal
<1>. DEFINE A == \A j \in IsIn(Terminal) : job'[j] \in {job[j], NULL}
<1>1. ASSUME IInv, [Next]_vars
      PROVE  A
  BY <1>1, RowStep DEF IsIn
<1>2. IInv /\ [Next]_vars => [A]_vars
  BY <1>1
<1>. HIDE DEF A
<1>3. []IInv /\ [][Next]_vars => [][A]_vars
  BY <1>2, PTL
<1>. QED BY <1>3 DEF TerminalIsFinal, A

\* A finished job never changes again, whatever late consumers report.
THEOREM FinishedStaysFinished == Spec => TerminalIsFinal
BY FinishedStaysFinishedSteps, Invariance, PTL DEF Spec

\* For RemovedOnlyWhenDue: what it takes is the invariant and steps of Boss.
LEMMA NothingLostSteps == []IInv /\ [][Next]_vars => RemovedOnlyWhenDue
<1>. DEFINE A == \A j \in Rows :
       job'[j] = NULL =>
         \/ queue'[job[j].name] = NULL
         \/ j \in Hidden
         \/ /\ job[j].keep_until < clock
            /\ \/ job[j].state \in Terminal
               \/ job[j].state = "active" /\ job[j].retry_count >= job[j].retry_limit
<1>1. ASSUME IInv, [Next]_vars
      PROVE  A
  BY <1>1, RowStep DEF Rows
<1>2. IInv /\ [Next]_vars => [A]_vars
  BY <1>1
<1>. HIDE DEF A
<1>3. []IInv /\ [][Next]_vars => [][A]_vars
  BY <1>2, PTL
<1>. QED BY <1>3 DEF RemovedOnlyWhenDue, A

\* No row disappears but with its queue, its transaction or its retention.
THEOREM NothingLost == Spec => RemovedOnlyWhenDue
BY NothingLostSteps, Invariance, PTL DEF Spec

-----------------------------------------------------------------------------
(***************************************************************************)
(* NOTIFY.                                                                 *)
(***************************************************************************)

Announces(q) ==
  /\ Cardinality(Arrived(q) \cap Hidden) <= notes'[q] - notes[q]
  /\ notes'[q] - notes[q] <= Cardinality(Arrived(q))

LEMMA ArrivedFinite ==
  ASSUME IInv, NEW q \in Queues
  PROVE  IsFiniteSet(Arrived(q)) /\ Cardinality(Arrived(q)) \in Nat /\ notes[q] \in Int
<1>1. Arrived(q) \subseteq JobIds
  BY DEF Arrived, Offered, IsIn, Rows
<1>. QED BY <1>1, BoundAssumption, FS_Subset, FS_CardinalityType DEF IInv, TypeOK

\* A step that announces nothing and makes nothing available but jobs that were
\* there before.
LEMMA QuietAnnounces ==
  ASSUME IInv, NEW q \in Queues, UNCHANGED notes, Arrived(q) \cap Hidden = {}
  PROVE  Announces(q)
<1>1. Cardinality(Arrived(q) \cap Hidden) = 0
  BY FS_EmptySet
<1>2. notes'[q] - notes[q] = 0 /\ Cardinality(Arrived(q)) >= 0
  BY ArrivedFinite
<1>. QED BY <1>1, <1>2 DEF Announces

\* COMMIT: the rows that appear are those whose NOTIFYs were pending.
LEMMA CommitAnnounces ==
  ASSUME IInv, NEW s \in Sessions, Commit(s), NEW q \in Queues
  PROVE  Announces(q)
<1>1. /\ job' = [j \in JobIds |-> IF j \in claim[s] THEN Started(job[j], began[s]) ELSE job[j]]
      /\ notes'[q] = notes[q] + Cardinality(Announced(s, q))
      /\ End(s) /\ TypeOK
  BY DEF Commit, IInv, TypeOK
<1>2. /\ hidden'[s] = {}
      /\ \A t \in Sessions \ {s} : hidden'[t] = hidden[t]
      /\ Hidden' \subseteq Hidden
  BY <1>1, EndEffect
<1>3. ASSUME NEW j \in JobIds, j \notin claim[s]
      PROVE  job'[j] = job[j] /\ (j \in Rows' <=> j \in Rows)
  BY <1>1, <1>3 DEF Rows
<1>4. ASSUME NEW j \in claim[s]
      PROVE  j \in JobIds /\ j \notin hidden[s] /\ job'[j].state = "active"
  <2>1. j \in Rows /\ j \notin Hidden /\ job[j] \in JobRow
    BY DEF IInv, TypeOK, RowLocksExclusive, IsIn, Rows
  <2>2. job'[j] = Started(job[j], began[s])
    BY <1>1, <2>1 DEF Rows
  <2>3. Started(job[j], began[s]).state = "active"
    BY <2>1 DEF Started, JobRow
  <2>. QED BY <2>1, <2>2, <2>3 DEF Rows, Hidden
<1>5. Arrived(q) = Announced(s, q)
  <2>1. ASSUME NEW j \in Announced(s, q)
        PROVE  j \in Offered(q)' /\ j \notin Offered(q)
    <3>1. /\ j \in hidden[s] /\ j \in Hidden /\ j \in Rows /\ job[j].state = "created"
          /\ job[j].name = q /\ j \in JobIds /\ \A t \in Sessions \ {s} : j \notin hidden[t]
      BY DEF Announced, Hidden, IInv, TypeOK, SessionInv, IsIn
    <3>2. j \notin Hidden' /\ job'[j] = job[j] /\ j \in Rows'
      BY <3>1, <1>2, <1>3, <1>4 DEF Hidden
    <3>. QED BY <3>1, <3>2 DEF Arrived, Offered, IsIn, Waiting
  <2>2. ASSUME NEW j \in Offered(q)', j \notin Offered(q)
        PROVE  j \in Announced(s, q)
    <3>1. j \in Rows' /\ j \in JobIds /\ job'[j].state \in Waiting /\ job'[j].name = q
          /\ j \notin Hidden'
      BY <2>2 DEF Arrived, Offered, IsIn, Rows
    <3>2. j \notin claim[s]
      BY <3>1, <1>4 DEF Waiting
    <3>3. j \in Rows /\ job[j].state \in Waiting /\ job[j].name = q
      BY <3>1, <3>2, <1>3
    <3>4. j \in Hidden
      BY <2>2, <3>3 DEF Arrived, Offered, IsIn
    <3>5. PICK t \in Sessions : j \in hidden[t]
      BY <3>4 DEF Hidden
    <3>6. t = s
      BY <3>1, <3>5, <1>2 DEF Hidden
    <3>7. j \in hidden[s] /\ job[j].name = q
      BY <3>3, <3>5, <3>6
    <3>. QED BY <3>7 DEF Announced
  <2>. QED BY <2>1, <2>2 DEF Arrived
<1>6. Arrived(q) \cap Hidden = Arrived(q)
  BY <1>5 DEF Announced, Hidden
<1>7. Cardinality(Arrived(q)) \in Nat /\ notes[q] \in Int
  BY ArrivedFinite
<1>8. notes'[q] - notes[q] = Cardinality(Arrived(q))
  BY <1>1, <1>5, <1>7
<1>9. Cardinality(Arrived(q) \cap Hidden) = Cardinality(Arrived(q))
  BY <1>6
<1>. QED BY <1>7, <1>8, <1>9 DEF Announces

\* boss.fail announces the job it puts back, on its own queue.
LEMMA FailAnnounces ==
  ASSUME IInv, NEW s \in Sessions, NEW p \in Queues, NEW i \in JobIds, Fail(s, p, i),
         NEW q \in Queues
  PROVE  Announces(q)
<1>1. /\ i \in Rows /\ job[i].state = "active" /\ job[i].name = p
      /\ job' = [job EXCEPT ![i] = Unfinished(job[i], began[s])]
      /\ End(s) /\ TypeOK /\ hidden[s] = {} /\ began[s] \in Int
      /\ notes' = IF job[i].retry_count < job[i].retry_limit
                  THEN [notes EXCEPT ![p] = @ + 1] ELSE notes
  BY DEF Fail, Matches, Rows, Fresh, IInv, TypeOK
<1>2. Hidden' = Hidden
  BY <1>1, EndEffect DEF Hidden
<1>3. job[i] \in JobRow /\ Unfinished(job[i], began[s]) \in JobRow
  BY <1>1, RowFacts, UnfinishedSound
<1>4. \A j \in JobIds \ {i} : job'[j] = job[j]
  BY <1>1 DEF TypeOK
<1>5. i \notin Hidden /\ i \notin Offered(q)
  BY <1>1, ActiveUnshared DEF Hidden, Arrived, Offered, IsIn, Waiting
<1>6. Arrived(q) \subseteq {i}
  BY <1>2, <1>4 DEF Arrived, Offered, IsIn, Rows
<1>7. Cardinality(Arrived(q) \cap Hidden) = 0 /\ Arrived(q) \cap Hidden = {}
  <2>1. Arrived(q) \cap Hidden = {}
    BY <1>5, <1>6
  <2>. QED BY <2>1, FS_EmptySet
<1>8. CASE UNCHANGED notes
  BY <1>7, <1>8, QuietAnnounces
<1>9. CASE job[i].retry_count < job[i].retry_limit
  <2>1. \A x \in Queues \ {p} : notes'[x] = notes[x]
    BY <1>1, <1>9 DEF TypeOK
  <2>2. notes'[p] = notes[p] + 1
    BY <1>1, <1>9 DEF TypeOK
  <2>3. CASE q # p
    <3>1. notes'[q] - notes[q] = 0 /\ Cardinality(Arrived(q)) >= 0
      BY <2>1, <2>3, ArrivedFinite
    <3>. QED BY <1>7, <3>1 DEF Announces
  <2>4. CASE q = p
    <3>1. job'[i] = Retried(job[i], began[s]) /\ job'[i] \in JobRow
      BY <1>1, <1>3, <1>9 DEF Unfinished, TypeOK, Rows
    <3>2. Retried(job[i], began[s]).state = "retry" /\ Retried(job[i], began[s]).name = p
      BY <1>1, <1>3 DEF Retried, JobRow
    <3>3. i \in Rows'
      BY <1>1, <3>1, NullAssumption DEF Rows
    <3>4. i \in Offered(q)'
      BY <1>2, <1>5, <2>4, <3>1, <3>2, <3>3 DEF Offered, IsIn, Waiting
    <3>5. Arrived(q) = {i}
      BY <1>5, <1>6, <3>4 DEF Arrived
    <3>6. Cardinality(Arrived(q)) = 1
      BY <3>5, FS_Singleton
    <3>7. notes'[q] - notes[q] = 1
      BY <2>2, <2>4, ArrivedFinite
    <3>. QED BY <1>7, <3>6, <3>7 DEF Announces
  <2>. QED BY <2>3, <2>4
<1>. QED BY <1>1, <1>8, <1>9

\* A job that was hidden before and is available after a step other than COMMIT
\* does not exist.
LEMMA StaysHidden ==
  ASSUME IInv, NEW q \in Queues, Hidden \cap Offered(q)' = {}, UNCHANGED notes
  PROVE  Announces(q)
BY QuietAnnounces DEF Arrived

LEMMA OtherAnnounces ==
  ASSUME IInv, [Next]_vars, NEW q \in Queues,
         ~(\E s \in Sessions : Commit(s)),
         ~(\E s \in Sessions, p \in Queues, i \in JobIds : Fail(s, p, i))
  PROVE  Announces(q)
<1>1. ASSUME NEW s \in Sessions, Rollback(s)
      PROVE  Announces(q)
  <2>1. /\ job' = [j \in JobIds |-> IF j \in hidden[s] THEN NULL ELSE job[j]]
        /\ UNCHANGED notes /\ End(s) /\ TypeOK
    BY <1>1 DEF Rollback, IInv
  <2>2. \A t \in Sessions \ {s} : hidden'[t] = hidden[t]
    BY <2>1, EndEffect
  <2>3. Hidden \cap Offered(q)' = {}
    BY <2>1, <2>2 DEF Hidden, Arrived, Offered, IsIn, Rows
  <2>. QED BY <2>1, <2>3, StaysHidden
<1>2. ASSUME NEW s \in Sessions, Fresh(s), End(s), UNCHANGED notes
      PROVE  Announces(q)
  <2>1. Hidden' = Hidden
    BY <1>2, EndEffect DEF Fresh, Hidden, IInv
  <2>2. Hidden \cap Offered(q)' = {}
    BY <2>1 DEF Arrived, Offered
  <2>. QED BY <1>2, <2>2, StaysHidden
<1>3. ASSUME Hidden \subseteq Hidden', UNCHANGED notes
      PROVE  Announces(q)
  <2>1. Hidden \cap Offered(q)' = {}
    BY <1>3 DEF Arrived, Offered
  <2>. QED BY <1>3, <2>1, StaysHidden
<1>4. ASSUME NEW s \in Sessions, NEW o \in SendOptions, SendInsert(s, o)
      PROVE  Announces(q)
  <2>1. Hidden \subseteq Hidden' /\ UNCHANGED notes
    BY <1>4 DEF SendInsert, Hidden, IInv, TypeOK
  <2>. QED BY <2>1, <1>3
<1>5. ASSUME UNCHANGED <<hidden, notes>>
      PROVE  Announces(q)
  <2>1. Hidden' = Hidden
    BY <1>5 DEF Hidden
  <2>. QED BY <2>1, <1>3, <1>5
<1>6. ASSUME NEW s \in Sessions, SessionStep(s)
      PROVE  Announces(q)
  <2>1. CASE \/ Begin(s)
             \/ \E p \in Queues : SendRead(s, p)
             \/ \E p \in Queues, n \in BatchSizes : FetchLock(s, p, n)
    BY <1>5, <2>1 DEF Begin, SendRead, FetchLock, tables
  <2>2. CASE Maintain(s) \/ \E p \in Queues, i \in JobIds : Complete(s, p, i)
    BY <1>2, <2>2 DEF Maintain, Complete
  <2>. QED BY <1>1, <1>4, <1>6, <2>1, <2>2 DEF SessionStep
<1>7. CASE \/ \E p \in Queues, o \in QueueOptions : CreateQueue(p, o)
           \/ \E p \in Queues : DeleteQueue(p)
           \/ Tick \/ UNCHANGED vars
  BY <1>5, <1>7 DEF CreateQueue, DeleteQueue, Tick, vars, tables
<1>. QED BY <1>6, <1>7 DEF Next

\* For NotifyOnArrival: what it takes is the invariant and steps of Boss.
LEMMA NotifiedOnArrivalSteps == []IInv /\ [][Next]_vars => NotifyOnArrival
<1>. DEFINE A == \A q \in Queues :
       /\ Cardinality(Arrived(q) \cap Hidden) <= notes'[q] - notes[q]
       /\ notes'[q] - notes[q] <= Cardinality(Arrived(q))
<1>1. ASSUME IInv, [Next]_vars
      PROVE  A
  <2>1. ASSUME NEW q \in Queues
        PROVE  Announces(q)
    BY <1>1, CommitAnnounces, FailAnnounces, OtherAnnounces
  <2>. QED BY <2>1 DEF Announces
<1>2. IInv /\ [Next]_vars => [A]_vars
  BY <1>1
<1>. HIDE DEF A
<1>3. []IInv /\ [][Next]_vars => [][A]_vars
  BY <1>2, PTL
<1>. QED BY <1>3 DEF NotifyOnArrival, A

\* NOTIFY is delivered in the very step that makes a row visible and waiting: one for
\* each job sent, none on rollback, none for a row that did not become so.
THEOREM NotifiedOnArrival == Spec => NotifyOnArrival
BY NotifiedOnArrivalSteps, Invariance, PTL DEF Spec

-----------------------------------------------------------------------------
(***************************************************************************)
(* The programs that use the functions.                                    *)
(***************************************************************************)

SafeStates ==
  /\ RowLocksExclusive /\ NoOrphans
  /\ DeliveryAccounting /\ DeliveriesBounded
  /\ StampsMatchState /\ NotStartedEarly

SafeSteps == TerminalIsFinal /\ RemovedOnlyWhenDue /\ NotifyOnArrival

\* A program whose steps are steps of Boss and that starts from an empty job table
\* has all the guarantees of the functions.
LEMMA UsersAreSafe == []IInv /\ [][Next]_vars => []SafeStates /\ SafeSteps
<1>1. IInv => SafeStates
  BY InvConsequences DEF IInv, SafeStates
<1>2. []IInv => []SafeStates
  BY <1>1, PTL
<1>. QED BY <1>2, FinishedStaysFinishedSteps, NothingLostSteps, NotifiedOnArrivalSteps
         DEF SafeSteps

=============================================================================
