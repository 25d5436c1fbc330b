----------------------------- MODULE WorkProofs -----------------------------
(***************************************************************************)
(* Safety of Work for any number of consumers, producers and background    *)
(* workers that stop and restart as they like, and any options.            *)
(***************************************************************************)
EXTENDS Work, RefinementProofs

\* A consumer with a job in hand; one about to report success.
HandInv ==
  \A w \in Workers :
    /\ pc[w] \in {"handle", "ack", "nack"} => cur[w] \in JobIds
    /\ pc[w] = "ack" => cur[w] \in succeeded

\* The inductive invariant: that of Boss, and what the consumers add.
WInv == IInv /\ WorkTypeOK /\ HandInv /\ CompletedOnlyAfterSuccess

LEMMA WorkInitInv == WorkInit => WInv
<1>. SUFFICES ASSUME WorkInit PROVE WInv
  OBVIOUS
<1>1. IInv
  BY NullAssumption, OptionAssumption
  DEF WorkInit, IInv, TypeOK, SessionInv, IssuedInv, RowLocksExclusive, NoOrphans, Rows
<1>2. WorkTypeOK
  BY <1>1, RoleAssumption DEF WorkInit, WorkTypeOK, Location, IInv
<1>3. HandInv /\ CompletedOnlyAfterSuccess
  BY DEF WorkInit, HandInv, CompletedOnlyAfterSuccess, IsIn, Rows
<1>. QED BY <1>1, <1>2, <1>3 DEF WInv

-----------------------------------------------------------------------------
(***************************************************************************)
(* Every step is a step of Boss.                                           *)
(***************************************************************************)

LEMMA WorkerIsBoss ==
  ASSUME HandInv, NEW w \in Workers, WorkerStep(w) \/ Stop(w) \/ Restart(w)
  PROVE  [Next]_vars
<1>1. w \in Sessions /\ Target \in Queues /\ 1 \in BatchSizes
  BY RoleAssumption
<1>2. CASE Listen(w) \/ (\E ok \in BOOLEAN : HandlerReturns(w, ok)) \/ Wake(w) \/ Restart(w)
  BY <1>2 DEF Listen, HandlerReturns, Wake, Restart
<1>3. CASE Call(w) \/ FetchOne(w) \/ FetchReturns(w) \/ FetchEmpty(w)
  BY <1>1, <1>3 DEF Call, FetchOne, FetchReturns, FetchEmpty, Next, SessionStep
<1>4. CASE Report(w)
  <2>1. cur[w] \in JobIds
    BY <1>4 DEF Report, HandInv
  <2>. QED BY <1>1, <1>4, <2>1 DEF Report, Next, SessionStep
<1>5. CASE Stop(w)
  BY <1>1, <1>5 DEF Stop, Next, SessionStep
<1>. QED BY <1>2, <1>3, <1>4, <1>5 DEF WorkerStep

LEMMA StepIsBoss ==
  ASSUME HandInv, [WorkNext]_wvars
  PROVE  [Next]_vars
<1>1. CASE UNCHANGED wvars
  BY <1>1 DEF wvars
<1>2. ASSUME NEW p \in Producers, ProducerBegins(p) \/ Finish(p)
      PROVE  [Next]_vars
  BY <1>2, RoleAssumption DEF ProducerBegins, Finish, Next, SessionStep
<1>3. ASSUME NEW m \in Janitors, JanitorStep(m)
      PROVE  [Next]_vars
  BY <1>3, RoleAssumption DEF JanitorStep, Next, SessionStep
<1>4. CASE TimePasses
  BY <1>4 DEF TimePasses, Next
<1>. QED BY <1>1, <1>2, <1>3, <1>4, WorkerIsBoss DEF WorkNext

-----------------------------------------------------------------------------
(***************************************************************************)
(* The consumers' own state.                                               *)
(***************************************************************************)

\* One step of a consumer, told by what it does to its own state.
LEMMA LocalInv ==
  ASSUME WInv, NEW w \in Workers, WorkerStep(w) \/ Stop(w) \/ Restart(w)
  PROVE  /\ pc' \in [Workers -> Location] /\ cur' \in [Workers -> JobIds \cup {NULL}]
         /\ seen' \in [Workers -> Nat] /\ stops' \in 0 .. MaxStops /\ succeeded' \subseteq JobIds
         /\ HandInv'
<1>1. /\ pc \in [Workers -> Location] /\ cur \in [Workers -> JobIds \cup {NULL}]
      /\ seen \in [Workers -> Nat] /\ stops \in 0 .. MaxStops /\ succeeded \subseteq JobIds
      /\ notes[Target] \in Nat /\ claim[w] \subseteq JobIds /\ MaxStops \in Nat
  BY RoleAssumption DEF WInv, IInv, WorkTypeOK, TypeOK
<1>2. HandInv
  BY DEF WInv
<1>3. CASE Listen(w)
  BY <1>1, <1>2, <1>3 DEF Listen, Goto, HandInv, Location
<1>4. CASE Call(w) \/ FetchOne(w)
  BY <1>1, <1>2, <1>4 DEF Call, FetchOne, local, HandInv
<1>5. CASE FetchReturns(w)
  <2>1. (CHOOSE j \in claim[w] : TRUE) \in JobIds
    BY <1>1, <1>5 DEF FetchReturns
  <2>. QED BY <1>1, <1>2, <1>5, <2>1 DEF FetchReturns, Goto, HandInv, Location
<1>6. CASE FetchEmpty(w)
  BY <1>1, <1>2, <1>6 DEF FetchEmpty, Goto, HandInv, Location
<1>7. ASSUME NEW ok \in BOOLEAN, HandlerReturns(w, ok)
      PROVE  /\ pc' \in [Workers -> Location] /\ cur' \in [Workers -> JobIds \cup {NULL}]
             /\ seen' \in [Workers -> Nat] /\ stops' \in 0 .. MaxStops /\ succeeded' \subseteq JobIds
             /\ HandInv'
  <2>1. cur[w] \in JobIds /\ cur' = cur /\ seen' = seen /\ stops' = stops
    BY <1>2, <1>7 DEF HandlerReturns, HandInv
  <2>2. CASE ok
    BY <1>1, <1>2, <1>7, <2>1, <2>2 DEF HandlerReturns, Outcome, Goto, HandInv, Location
  <2>3. CASE ~ok
    BY <1>1, <1>2, <1>7, <2>1, <2>3 DEF HandlerReturns, Outcome, Goto, HandInv, Location
  <2>. QED BY <2>2, <2>3
<1>8. CASE Report(w)
  BY <1>1, <1>2, <1>8 DEF Report, Goto, HandInv, Location
<1>9. CASE Wake(w)
  BY <1>1, <1>2, <1>9 DEF Wake, Goto, HandInv, Location
<1>10. CASE Stop(w)
  BY <1>1, <1>2, <1>10 DEF Stop, Goto, HandInv, Location
<1>11. CASE Restart(w)
  BY <1>1, <1>2, <1>11 DEF Restart, Goto, HandInv, Location
<1>. QED BY <1>3, <1>4, <1>5, <1>6, <1>7, <1>8, <1>9, <1>10, <1>11 DEF WorkerStep

-----------------------------------------------------------------------------
(***************************************************************************)
(* Who completes a job.                                                    *)
(***************************************************************************)

IsCompleted(j) == j \in IsIn({"completed"})

\* Nothing but boss.complete, least of all the expiry in boss.maintain.
LEMMA NoneCompleted ==
  ASSUME IInv, NEW s \in Sessions, NEW j \in JobIds, IsCompleted(j)',
         \/ UNCHANGED job \/ Commit(s) \/ Rollback(s) \/ Maintain(s)
         \/ \E q \in Queues, i \in JobIds : Fail(s, q, i)
         \/ \E o \in SendOptions : SendInsert(s, o)
  PROVE  IsCompleted(j)
<1>1. job' [j] # NULL /\ job'[j].state = "completed"
  BY DEF IsCompleted, IsIn, Rows
<1>2. job[j] # NULL => job[j] \in JobRow
  BY DEF IInv, TypeOK
<1>3. CASE UNCHANGED job \/ Rollback(s)
  BY <1>1, <1>3 DEF Rollback, IsCompleted, IsIn, Rows
<1>4. CASE Commit(s)
  <2>1. CASE j \in claim[s]
    <3>1. job[j] \in JobRow
      BY <1>2, <2>1 DEF IInv, RowLocksExclusive, IsIn, Rows
    <3>2. job'[j].state = "active"
      BY <1>4, <2>1, <3>1 DEF Commit, Started, JobRow
    <3>. QED BY <1>1, <3>2
  <2>2. CASE j \notin claim[s]
    BY <1>1, <1>4, <2>2 DEF Commit, IsCompleted, IsIn, Rows
  <2>. QED BY <2>1, <2>2
<1>5. CASE Maintain(s)
  <2>1. job'[j] = Maintained(j, began[s])
    BY <1>5 DEF Maintain
  <2>2. job'[j] = ExpiredAt(j, began[s])
    BY <1>1, <2>1 DEF Maintained
  <2>3. CASE j \notin OverdueAt(began[s])
    BY <1>1, <2>2, <2>3 DEF ExpiredAt, IsCompleted, IsIn, Rows
  <2>4. CASE j \in OverdueAt(began[s])
    <3>1. job[j] \in JobRow
      BY <1>2, <2>4 DEF OverdueAt, Rows
    <3>2. Expired(job[j], began[s]).state \in {"retry", "failed"}
      BY <3>1 DEF Expired, Retried, GivenUp, JobRow
    <3>. QED BY <1>1, <2>2, <2>4, <3>2 DEF ExpiredAt
  <2>. QED BY <2>3, <2>4
<1>6. ASSUME NEW q \in Queues, NEW i \in JobIds, Fail(s, q, i)
      PROVE  IsCompleted(j)
  <2>1. job' = [job EXCEPT ![i] = Unfinished(job[i], began[s])] /\ job[i] # NULL
    BY <1>6 DEF Fail, Matches
  <2>2. CASE i = j
    <3>1. Unfinished(job[j], began[s]).state \in {"retry", "failed"}
      BY <1>2, <2>1, <2>2 DEF Unfinished, Retried, GivenUp, JobRow
    <3>2. job'[j] = Unfinished(job[j], began[s])
      BY <2>1, <2>2 DEF IInv, TypeOK
    <3>. QED BY <1>1, <3>1, <3>2
  <2>3. CASE i # j
    BY <1>1, <2>1, <2>3 DEF IInv, TypeOK, IsCompleted, IsIn, Rows
  <2>. QED BY <2>2, <2>3
<1>7. ASSUME NEW o \in SendOptions, SendInsert(s, o)
      PROVE  IsCompleted(j)
  <2>1. PICK i \in JobIds \ issued :
          job' = [job EXCEPT ![i] = NewJob(draft[s].name, draft[s].defaults, o, began[s])]
    BY <1>7 DEF SendInsert
  <2>2. CASE i = j
    <3>1. job'[j].state = "created"
      BY <2>1, <2>2 DEF NewJob, IInv, TypeOK
    <3>. QED BY <1>1, <3>1
  <2>3. CASE i # j
    BY <1>1, <2>1, <2>3 DEF IInv, TypeOK, IsCompleted, IsIn, Rows
  <2>. QED BY <2>2, <2>3
<1>. QED BY <1>3, <1>4, <1>5, <1>6, <1>7

\* boss.complete completes no other job.
LEMMA OneCompleted ==
  ASSUME IInv, NEW s \in Sessions, NEW q \in Queues, NEW i \in JobIds, Complete(s, q, i),
         NEW j \in JobIds, IsCompleted(j)'
  PROVE  j = i \/ IsCompleted(j)
BY DEF Complete, IsCompleted, IsIn, Rows, IInv, TypeOK

\* Work calls it after a handler returned nil only.
LEMMA CompletedInv ==
  ASSUME WInv, [WorkNext]_wvars
  PROVE  CompletedOnlyAfterSuccess'
<1>. SUFFICES ASSUME NEW j \in JobIds, IsCompleted(j)' PROVE j \in succeeded'
  BY DEF CompletedOnlyAfterSuccess, IsCompleted, IsIn, Rows
<1>1. IInv /\ HandInv /\ (IsCompleted(j) => j \in succeeded)
  BY DEF WInv, CompletedOnlyAfterSuccess, IsCompleted
<1>2. /\ Workers \subseteq Sessions /\ Producers \subseteq Sessions /\ Janitors \subseteq Sessions
      /\ Target \in Queues
  BY RoleAssumption
<1>3. ASSUME NEW w \in Workers, WorkerStep(w) \/ Stop(w) \/ Restart(w)
      PROVE  j \in succeeded'
  <2>1. succeeded \subseteq succeeded'
    BY <1>3 DEF WorkerStep, Listen, Call, FetchOne, FetchReturns, FetchEmpty, HandlerReturns,
                Report, Wake, Stop, Restart, local
  <2>2. CASE \/ Listen(w) \/ Call(w) \/ FetchOne(w) \/ Wake(w) \/ Restart(w)
             \/ \E ok \in BOOLEAN : HandlerReturns(w, ok)
    <3>1. UNCHANGED job
      BY <2>2 DEF Listen, Call, Begin, FetchOne, FetchLock, Wake, Restart, HandlerReturns,
                  vars, tables
    <3>. QED BY <1>1, <1>2, <2>1, <3>1, NoneCompleted
  <2>3. CASE FetchReturns(w) \/ FetchEmpty(w) \/ Stop(w)
    <3>1. UNCHANGED job \/ Commit(w) \/ Rollback(w)
      BY <2>3 DEF FetchReturns, FetchEmpty, Stop, vars
    <3>. QED BY <1>1, <1>2, <2>1, <3>1, NoneCompleted
  <2>4. CASE Report(w)
    <3>1. cur[w] \in JobIds
      BY <1>1, <2>4 DEF Report, HandInv
    <3>2. CASE pc[w] = "ack" /\ Complete(w, Target, cur[w])
      <4>1. cur[w] \in succeeded
        BY <1>1, <3>2 DEF HandInv
      <4>. QED BY <1>1, <1>2, <2>1, <3>1, <3>2, <4>1, OneCompleted
    <3>3. CASE Fail(w, Target, cur[w]) \/ Commit(w)
      BY <1>1, <1>2, <2>1, <3>1, <3>3, NoneCompleted
    <3>. QED BY <2>4, <3>2, <3>3 DEF Report
  <2>. QED BY <1>3, <2>2, <2>3, <2>4 DEF WorkerStep
<1>4. ASSUME NEW p \in Producers, ProducerBegins(p) \/ Finish(p)
      PROVE  j \in succeeded'
  <2>1. succeeded' = succeeded
    BY <1>4 DEF ProducerBegins, Finish, local
  <2>2. \/ UNCHANGED job \/ Commit(p) \/ Rollback(p)
        \/ \E o \in SendOptions : SendInsert(p, o)
    BY <1>4 DEF ProducerBegins, Finish, Begin, SendRead, tables
  <2>. QED BY <1>1, <1>2, <2>1, <2>2, NoneCompleted
<1>5. ASSUME NEW m \in Janitors, JanitorStep(m)
      PROVE  j \in succeeded'
  <2>1. succeeded' = succeeded /\ (UNCHANGED job \/ Maintain(m))
    BY <1>5 DEF JanitorStep, Begin, tables, local
  <2>. QED BY <1>1, <1>2, <2>1, NoneCompleted
<1>6. CASE TimePasses \/ UNCHANGED wvars
  <2>1. UNCHANGED job /\ succeeded' = succeeded
    BY <1>6 DEF TimePasses, Tick, tables, wvars, vars, local
  <2>. QED BY <1>1, <2>1 DEF IsCompleted, IsIn, Rows
<1>. QED BY <1>3, <1>4, <1>5, <1>6 DEF WorkNext

LEMMA WorkNextInv == WInv /\ [WorkNext]_wvars => WInv'
<1>. SUFFICES ASSUME WInv, [WorkNext]_wvars PROVE WInv'
  OBVIOUS
<1>1. IInv'
  BY StepIsBoss, NextInv DEF WInv
<1>2. CompletedOnlyAfterSuccess'
  BY CompletedInv
<1>3. /\ pc' \in [Workers -> Location] /\ cur' \in [Workers -> JobIds \cup {NULL}]
      /\ seen' \in [Workers -> Nat] /\ stops' \in 0 .. MaxStops /\ succeeded' \subseteq JobIds
      /\ HandInv'
  <2>1. CASE UNCHANGED local
    BY <2>1 DEF local, WInv, WorkTypeOK, HandInv
  <2>2. ASSUME NEW w \in Workers, WorkerStep(w) \/ Stop(w) \/ Restart(w)
        PROVE  /\ pc' \in [Workers -> Location] /\ cur' \in [Workers -> JobIds \cup {NULL}]
               /\ seen' \in [Workers -> Nat] /\ stops' \in 0 .. MaxStops /\ succeeded' \subseteq JobIds
               /\ HandInv'
    BY <2>2, LocalInv
  <2>. QED BY <2>1, <2>2
       DEF WorkNext, ProducerBegins, Finish, JanitorStep, TimePasses, wvars
<1>4. WorkTypeOK'
  BY <1>1, <1>3 DEF IInv, WorkTypeOK
<1>. QED BY <1>1, <1>2, <1>3, <1>4 DEF WInv

-----------------------------------------------------------------------------
(***************************************************************************)
(* One holder at a time.                                                   *)
(***************************************************************************)

\* No job outlives its expire_seconds: handlers report in time.
NothingOverdue == \A j \in IsIn({"active"}) : ~Overdue(job[j], clock)

\* A job that some consumer has in hand is active.
HoldersActive ==
  \A w \in Workers : \A j \in JobIds : Holds(w, j) => j \in IsIn({"active"})

\* Steps of the database other than complete and fail.
QuietStep(s) ==
  \/ UNCHANGED job /\ \A t \in Sessions : claim[t] \subseteq claim'[t]
  \/ Commit(s)
  \/ Rollback(s)
  \/ Maintain(s)
  \/ \E o \in SendOptions : SendInsert(s, o)

\* What they make of a row as long as nothing is overdue: they remove it, fetch
\* it, or insert it and keep it hidden; an active row they leave alone.
LEMMA QuietRow ==
  ASSUME IInv, NothingOverdue, NEW s \in Sessions, QuietStep(s), NEW j \in JobIds
  PROVE  \/ job'[j] = job[j]
         \/ j \in Rows /\ job[j].state # "active" /\ job'[j] = NULL
         \/ /\ j \in claim[s] /\ j \in Rows /\ job[j].state \in Waiting
            /\ job'[j] # NULL /\ job'[j].state = "active"
         \/ job[j] = NULL /\ j \in hidden'[s]
<1>1. job[j] # NULL => job[j] \in JobRow
  BY DEF IInv, TypeOK
<1>2. CASE UNCHANGED job
  BY <1>2
<1>3. CASE Commit(s)
  <2>1. job'[j] = IF j \in claim[s] THEN Started(job[j], began[s]) ELSE job[j]
    BY <1>3 DEF Commit
  <2>2. CASE j \in claim[s]
    <3>1. j \in Rows /\ job[j].state \in Waiting /\ job[j].start_after <= began[s]
          /\ began[s] \in Int /\ began[s] <= clock
      BY <2>2 DEF IInv, TypeOK, RowLocksExclusive, SessionInv, IsIn
    <3>2. Started(job[j], began[s]) \in JobRow
      BY <3>1, RowFacts, StartedSound
    <3>3. Started(job[j], began[s]).state = "active"
      BY <1>1, <3>1 DEF Started, JobRow, Rows
    <3>. QED BY <2>1, <2>2, <3>1, <3>2, <3>3, NullAssumption
  <2>. QED BY <2>1, <2>2
<1>4. CASE Rollback(s)
  <2>1. j \in hidden[s] => j \in Rows /\ job[j].state = "created"
    BY DEF IInv, SessionInv, IsIn
  <2>. QED BY <1>4, <2>1 DEF Rollback
<1>5. CASE Maintain(s)
  <2>1. job'[j] = Maintained(j, began[s]) /\ began[s] \in Int /\ began[s] <= clock
        /\ clock \in Int
    BY <1>5 DEF Maintain, Fresh, IInv, TypeOK, SessionInv
  <2>2. j \notin OverdueAt(began[s])
    <3>1. SUFFICES ASSUME j \in OverdueAt(began[s]) PROVE FALSE
      OBVIOUS
    <3>2. j \in IsIn({"active"}) /\ job[j] \in JobRow /\ job[j].started_on # NULL
          /\ began[s] - job[j].started_on > job[j].expire_seconds
      BY <1>1, <3>1 DEF OverdueAt, Overdue, IsIn, Rows
    <3>3. job[j].started_on \in Int /\ job[j].expire_seconds \in Int
      BY <3>2 DEF JobRow
    <3>4. clock - job[j].started_on > job[j].expire_seconds
      BY <2>1, <3>2, <3>3
    <3>. QED BY <3>2, <3>4 DEF NothingOverdue, Overdue, IsIn
  <2>3. ExpiredAt(j, began[s]) = job[j]
    BY <2>2 DEF ExpiredAt
  <2>. QED BY <2>1, <2>3 DEF Maintained, Expendable, Terminal, Rows
<1>6. ASSUME NEW o \in SendOptions, SendInsert(s, o)
      PROVE  job'[j] = job[j] \/ (job[j] = NULL /\ j \in hidden'[s])
  <2>1. PICK i \in JobIds \ issued :
          /\ job' = [job EXCEPT ![i] = NewJob(draft[s].name, draft[s].defaults, o, began[s])]
          /\ hidden' = [hidden EXCEPT ![s] = @ \cup {i}]
    BY <1>6 DEF SendInsert
  <2>2. job[i] = NULL
    BY DEF IInv, IssuedInv
  <2>. QED BY <2>1, <2>2 DEF IInv, TypeOK
<1>. QED BY <1>2, <1>3, <1>4, <1>5, <1>6 DEF QuietStep

\* complete and fail leave every other row alone.
LEMMA ReportRow ==
  ASSUME IInv, NEW s \in Sessions, NEW q \in Queues, NEW i \in JobIds,
         Complete(s, q, i) \/ Fail(s, q, i), NEW j \in JobIds, j # i
  PROVE  job'[j] = job[j]
BY DEF Complete, Fail, IInv, TypeOK

\* A step of a consumer is a quiet step of its session unless it reports.
LEMMA ConsumerRow ==
  ASSUME WInv, NothingOverdue, NEW v \in Workers, WorkerStep(v) \/ Stop(v) \/ Restart(v),
         NEW j \in IsIn({"active"}), ~(Report(v) /\ cur[v] = j)
  PROVE  job'[j] = job[j]
<1>1. v \in Sessions /\ Target \in Queues /\ IInv /\ HandInv /\ j \in JobIds
      /\ job[j].state = "active" /\ j \in Rows
  BY RoleAssumption DEF WInv, IsIn, Rows
<1>2. CASE Report(v)
  <2>1. cur[v] \in JobIds /\ cur[v] # j
    BY <1>1, <1>2 DEF Report, HandInv
  <2>2. CASE Commit(v)
    BY <1>1, <2>2, QuietRow DEF QuietStep, Waiting, Rows
  <2>. QED BY <1>1, <1>2, <2>1, <2>2, ReportRow DEF Report
<1>3. CASE ~Report(v)
  <2>1. UNCHANGED job \/ Commit(v) \/ Rollback(v)
    BY <1>3 DEF WorkerStep, Listen, Call, Begin, FetchOne, FetchLock, FetchReturns, FetchEmpty,
                HandlerReturns, Wake, Stop, Restart, vars, tables
  <2>. QED BY <1>1, <2>1, QuietRow DEF QuietStep, Waiting, Rows
<1>. QED BY <1>2, <1>3

\* A consumer takes a job in hand with a fetch, and lets go of the one it reports.
LEMMA HoldsStep ==
  ASSUME WInv, NEW v \in Workers, WorkerStep(v) \/ Stop(v) \/ Restart(v),
         NEW w \in Workers, NEW j \in JobIds, Holds(w, j)'
  PROVE  \/ Holds(w, j) /\ ~(w = v /\ Report(v))
         \/ w = v /\ FetchReturns(v) /\ j \in claim[v]
<1>1. pc \in [Workers -> Location] /\ cur \in [Workers -> JobIds \cup {NULL}]
  BY DEF WInv, WorkTypeOK
<1>2. cur'[w] = j /\ pc'[w] \in {"handle", "ack", "nack"}
  BY DEF Holds
<1>3. CASE Listen(v) \/ FetchEmpty(v) \/ Report(v) \/ Wake(v) \/ Restart(v) \/ Stop(v)
  <2>1. CASE w = v
    BY <1>1, <1>2, <1>3, <2>1 DEF Listen, FetchEmpty, Report, Wake, Restart, Stop, Goto
  <2>2. CASE w # v
    BY <1>1, <1>2, <1>3, <2>2 DEF Listen, FetchEmpty, Report, Wake, Restart, Stop, Goto, Holds
  <2>. QED BY <2>1, <2>2
<1>4. CASE Call(v) \/ FetchOne(v)
  <2>1. Holds(w, j)
    BY <1>2, <1>4 DEF Call, FetchOne, local, Holds
  <2>2. CASE w = v /\ Report(v)
    BY <1>1, <1>2, <2>2 DEF Report, Goto
  <2>. QED BY <2>1, <2>2
<1>5. CASE FetchReturns(v)
  <2>1. CASE w = v
    BY <1>1, <1>2, <1>5, <2>1 DEF FetchReturns
  <2>2. CASE w # v
    BY <1>1, <1>2, <1>5, <2>2 DEF FetchReturns, Goto, Holds
  <2>. QED BY <2>1, <2>2
<1>6. ASSUME NEW ok \in BOOLEAN, HandlerReturns(v, ok)
      PROVE  Holds(w, j) /\ ~(w = v /\ Report(v))
  <2>1. cur' = cur /\ pc[v] = "handle" /\ \A u \in Workers \ {v} : pc'[u] = pc[u]
    BY <1>1, <1>6 DEF HandlerReturns, Goto
  <2>. QED BY <1>2, <2>1 DEF Holds, Report
<1>. QED BY <1>3, <1>4, <1>5, <1>6 DEF WorkerStep

LEMMA HoldersNext ==
  ASSUME WInv, NothingOverdue, HoldersActive, AtMostOneHolder, [WorkNext]_wvars
  PROVE  HoldersActive' /\ AtMostOneHolder'
<1>1. /\ Workers \subseteq Sessions /\ Producers \subseteq Sessions /\ Janitors \subseteq Sessions
      /\ Target \in Queues /\ IInv
  BY RoleAssumption DEF WInv
<1>2. ASSUME NEW s \in Sessions, QuietStep(s), UNCHANGED <<pc, cur>>
      PROVE  HoldersActive' /\ AtMostOneHolder'
  <2>1. \A w \in Workers : \A j \in JobIds : Holds(w, j)' <=> Holds(w, j)
    BY <1>2 DEF Holds
  <2>2. ASSUME NEW j \in IsIn({"active"})
        PROVE  j \in IsIn({"active"})'
    <3>1. job'[j] = job[j] /\ j \in Rows /\ job[j].state = "active" /\ j \in JobIds
      BY <1>1, <1>2, QuietRow DEF IsIn, Waiting, Rows
    <3>. QED BY <3>1 DEF IsIn, Rows
  <2>. QED BY <2>1, <2>2 DEF HoldersActive, AtMostOneHolder
<1>3. ASSUME NEW v \in Workers, WorkerStep(v) \/ Stop(v) \/ Restart(v)
      PROVE  HoldersActive' /\ AtMostOneHolder'
  <2>1. ASSUME NEW j \in claim[v]
        PROVE  j \in JobIds /\ j \notin IsIn({"active"}) /\ (Commit(v) => j \in IsIn({"active"})')
    <3>1. j \in JobIds /\ j \in Rows /\ job[j].state \in Waiting /\ job[j] \in JobRow
          /\ v \in Sessions /\ began[v] \in Int
      BY <1>1 DEF IInv, TypeOK, RowLocksExclusive, IsIn, Rows
    <3>2. ASSUME Commit(v)
          PROVE  j \in IsIn({"active"})'
      <4>1. job'[j] = Started(job[j], began[v])
        BY <3>1, <3>2 DEF Commit
      <4>2. Started(job[j], began[v]) \in JobRow /\ Started(job[j], began[v]).state = "active"
        BY <3>1 DEF Started, JobRow, JobState
      <4>. QED BY <3>1, <4>1, <4>2, NullAssumption DEF IsIn, Rows
    <3>. QED BY <3>1, <3>2 DEF IsIn, Waiting
  <2>2. ASSUME NEW w \in Workers, NEW j \in JobIds, Holds(w, j)'
        PROVE  j \in IsIn({"active"})'
    <3>1. CASE w = v /\ FetchReturns(v) /\ j \in claim[v]
      BY <2>1, <3>1 DEF FetchReturns
    <3>2. CASE Holds(w, j) /\ ~(w = v /\ Report(v))
      <4>1. j \in IsIn({"active"})
        BY <3>2 DEF HoldersActive
      <4>2. ~(Report(v) /\ cur[v] = j)
        BY <3>2 DEF AtMostOneHolder, Holds, Report
      <4>3. job'[j] = job[j]
        BY <1>3, <4>1, <4>2, ConsumerRow
      <4>. QED BY <4>1, <4>3 DEF IsIn, Rows
    <3>. QED BY <1>3, <2>2, <3>1, <3>2, HoldsStep
  <2>3. ASSUME NEW u \in Workers, NEW w \in Workers, NEW j \in JobIds, Holds(u, j)', Holds(w, j)'
        PROVE  u = w
    <3>1. Holds(u, j) \/ (u = v /\ j \in claim[v])
      BY <1>3, <2>3, HoldsStep
    <3>2. Holds(w, j) \/ (w = v /\ j \in claim[v])
      BY <1>3, <2>3, HoldsStep
    <3>3. j \in claim[v] => ~Holds(u, j) /\ ~Holds(w, j)
      BY <2>1 DEF HoldersActive
    <3>. QED BY <3>1, <3>2, <3>3 DEF AtMostOneHolder
  <2>. QED BY <2>2, <2>3 DEF HoldersActive, AtMostOneHolder
<1>4. ASSUME NEW p \in Producers, ProducerBegins(p) \/ Finish(p)
      PROVE  HoldersActive' /\ AtMostOneHolder'
  <2>1. QuietStep(p)
    BY <1>4 DEF ProducerBegins, Finish, QuietStep, Begin, SendRead, tables
  <2>. QED BY <1>1, <1>2, <1>4, <2>1 DEF ProducerBegins, Finish, local
<1>5. ASSUME NEW m \in Janitors, JanitorStep(m)
      PROVE  HoldersActive' /\ AtMostOneHolder'
  <2>1. QuietStep(m)
    BY <1>5 DEF JanitorStep, QuietStep, Begin, tables
  <2>. QED BY <1>1, <1>2, <1>5, <2>1 DEF JanitorStep, local
<1>6. CASE TimePasses \/ UNCHANGED wvars
  <2>1. UNCHANGED <<job, pc, cur>>
    BY <1>6 DEF TimePasses, Tick, tables, wvars, vars, local
  <2>. QED BY <2>1 DEF HoldersActive, AtMostOneHolder, Holds, IsIn, Rows
<1>. QED BY <1>3, <1>4, <1>5, <1>6 DEF WorkNext

-----------------------------------------------------------------------------
(***************************************************************************)
(* No lost wake-up.                                                        *)
(***************************************************************************)

\* Besides, no consumer has stopped, and every job is due: none is sent with a
\* startAfter in the future and none is retried with a delay.
Prompt ==
  /\ NothingOverdue
  /\ \A j \in Rows : job[j].start_after <= clock
  /\ stops = 0

\* Between its calls a consumer has no transaction open, and nobody else fetches.
ConnectionInv ==
  /\ \A w \in Workers :
       /\ pc[w] \in {"listen", "handle", "wait", "stopped"} => began[w] = NULL
       /\ pc[w] = "stopped" => stops > 0
       /\ seen[w] <= notes[Target]
  /\ \A s \in Sessions \ Workers : claim[s] = {}

\* The jobs of the queue that wait and that no fetch has locked.
Free == Offered(Target) \ Locked

\* A consumer that will look at the queue again, with a transaction that is late
\* enough for j, before it sleeps.
Alert(w, j) ==
  \/ pc[w] \in {"listen", "handle", "ack", "nack"}
  \/ pc[w] \in {"fetch", "wait"} /\ seen[w] < notes[Target]
  \/ pc[w] = "fetch" /\ (began[w] = NULL \/ began[w] >= job[j].start_after)

\* As long as nobody stops, some consumer is alert for every free job.
Watched ==
  stops = 0 /\ Workers # {} => \A j \in Free : \E w \in Workers : Alert(w, j)

LEMMA NotesGrow ==
  ASSUME IInv, IInv', [Next]_vars, NEW q \in Queues
  PROVE  /\ notes[q] \in Nat /\ notes'[q] \in Nat /\ notes[q] <= notes'[q]
         /\ Arrived(q) \cap Hidden # {} => notes[q] < notes'[q]
<1>1. Announces(q)
  BY CommitAnnounces, FailAnnounces, OtherAnnounces
<1>2. notes[q] \in Nat /\ notes'[q] \in Nat
  BY DEF IInv, TypeOK
<1>3. IsFiniteSet(Arrived(q) \cap Hidden)
  BY ArrivedFinite, FS_Subset
<1>4. Cardinality(Arrived(q) \cap Hidden) \in Nat
  BY <1>3, FS_CardinalityType
<1>5. Arrived(q) \cap Hidden # {} => Cardinality(Arrived(q) \cap Hidden) # 0
  BY <1>3, FS_EmptySet
<1>. QED BY <1>1, <1>2, <1>4, <1>5 DEF Announces

\* A consumer reads no further than what has been notified.
LEMMA SeenBound ==
  ASSUME WInv, ConnectionInv, [WorkNext]_wvars, NEW w \in Workers
  PROVE  seen'[w] <= notes[Target]
<1>1. seen \in [Workers -> Nat] /\ seen[w] <= notes[Target] /\ notes[Target] \in Nat
  BY RoleAssumption DEF WInv, IInv, WorkTypeOK, TypeOK, ConnectionInv
<1>2. ASSUME NEW v \in Workers, WorkerStep(v) \/ Stop(v) \/ Restart(v)
      PROVE  seen'[w] <= notes[Target]
  <2>1. CASE Listen(v) \/ Wake(v)
    BY <1>1, <2>1 DEF Listen, Wake
  <2>2. CASE ~(Listen(v) \/ Wake(v))
    BY <1>1, <1>2, <2>2
       DEF WorkerStep, Call, FetchOne, FetchReturns, FetchEmpty, HandlerReturns, Report, Stop,
           Restart, local
  <2>. QED BY <2>1, <2>2
<1>. QED BY <1>1, <1>2
     DEF WorkNext, ProducerBegins, Finish, JanitorStep, TimePasses, wvars, local

\* A consumer's step leaves the other consumers and their connections alone.
LEMMA ConsumerAlone ==
  ASSUME WInv, NEW v \in Workers, WorkerStep(v) \/ Stop(v) \/ Restart(v)
  PROVE  /\ \A t \in Sessions \ {v} : began'[t] = began[t] /\ claim'[t] = claim[t]
         /\ \A u \in Workers \ {v} : pc'[u] = pc[u] /\ seen'[u] = seen[u]
<1>1. /\ v \in Sessions /\ began \in [Sessions -> Int \cup {NULL}]
      /\ claim \in [Sessions -> SUBSET JobIds]
      /\ pc \in [Workers -> Location] /\ seen \in [Workers -> Nat]
  BY RoleAssumption DEF WInv, WorkTypeOK, TypeOK
<1>2. End(v) \/ UNCHANGED <<began, claim>> \/ Begin(v) \/ FetchLock(v, Target, 1)
  BY DEF WorkerStep, Listen, Call, FetchOne, FetchReturns, FetchEmpty, HandlerReturns,
         Report, Wake, Stop, Restart, Commit, Rollback, Complete, Fail, vars
<1>3. \A t \in Sessions \ {v} : began'[t] = began[t] /\ claim'[t] = claim[t]
  BY <1>1, <1>2 DEF End, Begin, FetchLock
<1>4. \A u \in Workers \ {v} : pc'[u] = pc[u] /\ seen'[u] = seen[u]
  BY <1>1 DEF WorkerStep, Listen, Call, FetchOne, FetchReturns, FetchEmpty, HandlerReturns,
              Report, Wake, Stop, Restart, Goto, local
<1>. QED BY <1>3, <1>4

LEMMA ConnectionNext ==
  ASSUME WInv, WInv', ConnectionInv, [WorkNext]_wvars
  PROVE  ConnectionInv'
<1>1. /\ Workers \subseteq Sessions /\ Producers \subseteq Sessions \ Workers
      /\ Janitors \subseteq Sessions \ Workers /\ Target \in Queues /\ TypeOK /\ IInv /\ IInv'
      /\ pc \in [Workers -> Location] /\ stops \in Nat /\ seen' \in [Workers -> Nat]
  BY RoleAssumption DEF WInv, IInv, WorkTypeOK
<1>2. ASSUME NEW w \in Workers
      PROVE  seen'[w] <= notes'[Target]
  <2>1. [Next]_vars
    BY StepIsBoss DEF WInv
  <2>2. notes[Target] <= notes'[Target] /\ notes[Target] \in Nat /\ notes'[Target] \in Nat
    BY <1>1, <2>1, NotesGrow
  <2>. QED BY <1>1, <2>2, SeenBound
<1>3. ASSUME UNCHANGED <<began, claim, pc, stops>>
      PROVE  ConnectionInv'
  BY <1>2, <1>3 DEF ConnectionInv
<1>4. ASSUME NEW s \in Sessions \ Workers, UNCHANGED <<pc, stops>>,
             End(s) \/ UNCHANGED claim, \A t \in Sessions \ {s} : began'[t] = began[t]
      PROVE  ConnectionInv'
  <2>1. \A t \in Sessions \ Workers : claim'[t] = {}
    BY <1>1, <1>4, EndEffect DEF ConnectionInv
  <2>. QED BY <1>1, <1>2, <1>4, <2>1 DEF ConnectionInv
<1>5. ASSUME NEW v \in Workers, WorkerStep(v) \/ Stop(v) \/ Restart(v)
      PROVE  ConnectionInv'
  <2>1. /\ \A t \in Sessions \ {v} : began'[t] = began[t] /\ claim'[t] = claim[t]
        /\ \A u \in Workers \ {v} : pc'[u] = pc[u]
    BY <1>5, ConsumerAlone
  <2>2. stops' \in Nat /\ stops' >= stops
    BY <1>1, <1>5
       DEF WorkerStep, Listen, Call, FetchOne, FetchReturns, FetchEmpty, HandlerReturns, Report,
           Wake, Stop, Restart, local
  <2>3. /\ pc'[v] \in {"listen", "handle", "wait", "stopped"} => began'[v] = NULL
        /\ pc'[v] = "stopped" => stops' > 0
    <3>1. began[v] = NULL \/ pc[v] \in {"fetch", "ack", "nack"}
      BY <1>1 DEF ConnectionInv, Location
    <3>2. ASSUME End(v)
          PROVE  began'[v] = NULL
      BY <1>1, <3>2, EndEffect
    <3>3. CASE Listen(v) \/ Wake(v) \/ Restart(v) \/ Report(v) \/ \E ok \in BOOLEAN : HandlerReturns(v, ok)
      <4>1. CASE Restart(v)
        BY <1>1, <4>1 DEF Restart, Goto, ConnectionInv, vars
      <4>2. CASE Listen(v) \/ Wake(v) \/ Report(v)
        BY <1>1, <4>2 DEF Listen, Wake, Report, Goto
      <4>3. ASSUME NEW ok \in BOOLEAN, HandlerReturns(v, ok)
            PROVE  pc'[v] \in {"ack", "nack"}
        BY <1>1, <4>3 DEF HandlerReturns, Outcome, Goto
      <4>. QED BY <3>3, <4>1, <4>2, <4>3
    <3>4. CASE Call(v) \/ FetchOne(v)
      BY <1>1, <3>4 DEF Call, FetchOne, local
    <3>5. CASE FetchReturns(v) \/ FetchEmpty(v)
      BY <1>1, <3>2, <3>5 DEF FetchReturns, FetchEmpty, Commit, Goto
    <3>6. CASE Stop(v)
      BY <1>1, <3>2, <3>6 DEF Stop, Commit, Rollback, Goto, vars
    <3>. QED BY <1>5, <3>3, <3>4, <3>5, <3>6 DEF WorkerStep
  <2>. QED BY <1>1, <1>2, <2>1, <2>2, <2>3 DEF ConnectionInv
<1>6. ASSUME NEW p \in Producers, ProducerBegins(p) \/ Finish(p)
      PROVE  ConnectionInv'
  <2>1. p \in Sessions \ Workers /\ UNCHANGED <<pc, stops>>
    BY <1>1, <1>6 DEF ProducerBegins, Finish, local
  <2>2. End(p) \/ UNCHANGED claim
    BY <1>6 DEF ProducerBegins, Finish, Begin, SendRead, SendInsert, Commit, Rollback
  <2>3. \A t \in Sessions \ {p} : began'[t] = began[t]
    <3>1. UNCHANGED began \/ End(p) \/ Begin(p)
      BY <1>6 DEF ProducerBegins, Finish, SendRead, SendInsert, Commit, Rollback
    <3>. QED BY <1>1, <3>1 DEF End, Begin, TypeOK
  <2>. QED BY <2>1, <2>2, <2>3, <1>4
<1>7. ASSUME NEW m \in Janitors, JanitorStep(m)
      PROVE  ConnectionInv'
  <2>1. m \in Sessions \ Workers /\ UNCHANGED <<pc, stops>>
    BY <1>1, <1>7 DEF JanitorStep, local
  <2>2. (Begin(m) /\ UNCHANGED claim) \/ End(m)
    BY <1>7 DEF JanitorStep, Begin, Maintain
  <2>3. \A t \in Sessions \ {m} : began'[t] = began[t]
    BY <1>1, <2>2 DEF End, Begin, TypeOK
  <2>. QED BY <2>1, <2>2, <2>3, <1>4
<1>8. CASE TimePasses \/ UNCHANGED wvars
  BY <1>3, <1>8 DEF TimePasses, Tick, wvars, vars, local
<1>. QED BY <1>5, <1>6, <1>7, <1>8 DEF WorkNext

\* A job that a quiet step makes free was free before, or its NOTIFY is out.
LEMMA FreeStep ==
  ASSUME IInv, IInv', NothingOverdue, [Next]_vars, NEW s \in Sessions, QuietStep(s),
         Commit(s) \/ claim[s] = {} \/ UNCHANGED claim, NEW j \in Free'
  PROVE  \/ j \in Free /\ job'[j] = job[j]
         \/ notes[Target] < notes'[Target]
<1>1. /\ j \in Rows' /\ j \in JobIds /\ job'[j] # NULL /\ job'[j].state \in Waiting
      /\ job'[j].name = Target /\ j \notin Hidden' /\ j \notin Locked' /\ Target \in Queues
  BY RoleAssumption DEF Free, Offered, IsIn, Rows
<1>2. j \notin hidden'[s]
  BY <1>1 DEF Hidden
<1>3. job'[j] = job[j] /\ j \in Rows
  BY <1>1, <1>2, QuietRow DEF Waiting, Rows
<1>4. CASE j \in Hidden
  <2>1. j \in Arrived(Target) \cap Hidden
    BY <1>4 DEF Arrived, Free, Offered
  <2>. QED BY <1>1, <2>1, NotesGrow
<1>5. CASE j \notin Hidden
  <2>1. j \in Offered(Target)
    BY <1>1, <1>3, <1>5 DEF Offered, IsIn
  <2>2. j \notin Locked
    <3>1. SUFFICES ASSUME NEW t \in Sessions, j \in claim[t] PROVE FALSE
      BY DEF Locked
    <3>2. j \notin claim'[t]
      BY <1>1 DEF Locked
    <3>3. ASSUME End(s), claim[s] = {}
          PROVE  FALSE
      BY <3>1, <3>2, <3>3, EndEffect DEF IInv
    <3>4. CASE Commit(s)
      <4>1. t = s
        BY <3>1, <3>2, <3>4, EndEffect DEF Commit, IInv
      <4>2. job'[j] = Started(job[j], began[s]) /\ job[j] \in JobRow
        BY <1>1, <1>3, <3>1, <3>4, <4>1, RowFacts DEF Commit
      <4>. QED BY <1>1, <4>2 DEF Started, JobRow, Waiting
    <3>. QED BY <3>1, <3>2, <3>3, <3>4 DEF QuietStep, Rollback, Maintain, Fresh, SendInsert
  <2>. QED BY <1>3, <2>1, <2>2 DEF Free
<1>. QED BY <1>4, <1>5

\* Nothing but its own steps takes the alertness of a consumer away.
LEMMA AlertKept ==
  ASSUME WInv, WInv', [WorkNext]_wvars, NEW w \in Workers, NEW j \in JobIds, Alert(w, j),
         pc'[w] = pc[w], seen'[w] = seen[w], began'[w] = began[w], job'[j] = job[j]
  PROVE  Alert(w, j)'
<1>1. seen[w] \in Nat /\ IInv /\ IInv' /\ Target \in Queues
  BY RoleAssumption DEF WInv, WorkTypeOK
<1>2. [Next]_vars
  BY StepIsBoss DEF WInv
<1>3. notes[Target] \in Nat /\ notes'[Target] \in Nat /\ notes[Target] <= notes'[Target]
  BY <1>1, <1>2, NotesGrow
<1>. QED BY <1>1, <1>3 DEF Alert

\* A consumer falls asleep only after a fetch that would have found j, were it
\* not for a NOTIFY that will wake it.
LEMMA OwnAlert ==
  ASSUME WInv, WInv', ConnectionInv, Prompt, stops' = 0,
         NEW v \in Workers, WorkerStep(v) \/ Stop(v) \/ Restart(v),
         NEW j \in Free, Alert(v, j), job'[j] = job[j]
  PROVE  Alert(v, j)'
<1>1. /\ v \in Sessions /\ Target \in Queues /\ IInv /\ TypeOK /\ [WorkNext]_wvars
      /\ pc \in [Workers -> Location] /\ seen \in [Workers -> Nat] /\ 1 \in Nat \ {0}
      /\ stops = 0 /\ j \in JobIds /\ job[j].start_after <= clock /\ began[v] \in Int \cup {NULL}
      /\ j \in Rows
  BY RoleAssumption
     DEF WInv, IInv, WorkTypeOK, TypeOK, Prompt, Free, Offered, IsIn, Rows, WorkNext
<1>2. ASSUME End(v)
      PROVE  began'[v] = NULL
  BY <1>1, <1>2, EndEffect
<1>3. CASE Listen(v) \/ Wake(v)
  <2>1. pc'[v] = "fetch" /\ began'[v] = NULL
    BY <1>1, <1>3 DEF Listen, Wake, Goto, ConnectionInv, vars
  <2>. QED BY <2>1 DEF Alert
<1>4. CASE Report(v)
  <2>1. pc'[v] = "fetch" /\ began'[v] = NULL
    BY <1>1, <1>2, <1>4 DEF Report, Goto, Complete, Fail, Commit
  <2>. QED BY <2>1 DEF Alert
<1>5. CASE FetchReturns(v) \/ \E ok \in BOOLEAN : HandlerReturns(v, ok)
  <2>1. pc'[v] \in {"handle", "ack", "nack"}
    <3>1. CASE FetchReturns(v)
      BY <1>1, <3>1 DEF FetchReturns, Goto
    <3>2. ASSUME NEW ok \in BOOLEAN, HandlerReturns(v, ok)
          PROVE  pc'[v] \in {"ack", "nack"}
      BY <1>1, <3>2 DEF HandlerReturns, Outcome, Goto
    <3>. QED BY <1>5, <3>1, <3>2
  <2>. QED BY <2>1 DEF Alert
<1>6. CASE Call(v)
  <2>1. pc'[v] = pc[v] /\ pc[v] \in {"fetch", "ack", "nack"} /\ began'[v] = clock
        /\ clock >= job[j].start_after
    <3>1. job[j].start_after \in Int /\ clock \in Int
      BY <1>1, RowFacts DEF JobRow
    <3>2. began'[v] = clock
      BY <1>1, <1>6 DEF Call, Begin, TypeOK
    <3>. QED BY <1>1, <1>6, <3>1, <3>2 DEF Call, local
  <2>2. job'[j].start_after = job[j].start_after
    OBVIOUS
  <2>. QED BY <2>1, <2>2 DEF Alert
<1>7. CASE FetchOne(v)
  <2>1. pc'[v] = pc[v] /\ seen'[v] = seen[v] /\ began'[v] = began[v]
    BY <1>7 DEF FetchOne, FetchLock, local
  <2>. QED BY <1>1, <2>1, AlertKept
<1>8. CASE FetchEmpty(v)
  <2>1. Ready(Target, began[v]) \ Locked = {}
    BY <1>8 DEF FetchEmpty, Claimable
  <2>2. ~(began[v] >= job[j].start_after)
    <3>1. SUFFICES ASSUME began[v] >= job[j].start_after PROVE FALSE
      OBVIOUS
    <3>2. began[v] \in Int /\ job[j].start_after \in Int
      BY <1>1, <1>8, RowFacts DEF FetchEmpty, Fresh, JobRow
    <3>3. j \in Ready(Target, began[v])
      BY <3>1, <3>2 DEF Ready, Free, Offered
    <3>. QED BY <2>1, <3>3 DEF Free
  <2>3. seen[v] < notes[Target]
    BY <1>1, <1>8, <2>2 DEF Alert, FetchEmpty, Fresh
  <2>4. notes[Target] \in Nat /\ notes'[Target] \in Nat /\ notes[Target] <= notes'[Target]
    <3>1. [Next]_vars /\ IInv'
      BY <1>1, StepIsBoss DEF WInv
    <3>. QED BY <1>1, <3>1, NotesGrow
  <2>5. pc'[v] = "wait" /\ seen'[v] < notes'[Target]
    BY <1>1, <1>8, <2>3, <2>4 DEF FetchEmpty, Goto
  <2>. QED BY <2>5 DEF Alert
<1>9. CASE Stop(v)
  BY <1>1, <1>9 DEF Stop
<1>10. CASE Restart(v)
  BY <1>1, <1>10 DEF Restart, ConnectionInv
<1>. QED BY <1>3, <1>4, <1>5, <1>6, <1>7, <1>8, <1>9, <1>10 DEF WorkerStep

LEMMA WatchedNext ==
  ASSUME WInv, WInv', ConnectionInv, ConnectionInv', Prompt, Watched, [WorkNext]_wvars
  PROVE  Watched'
<1>. SUFFICES ASSUME stops' = 0, Workers # {}, NEW j \in Free'
              PROVE  \E w \in Workers : Alert(w, j)'
  BY DEF Watched
<1>1. /\ Workers \subseteq Sessions /\ Producers \subseteq Sessions \ Workers
      /\ Janitors \subseteq Sessions \ Workers /\ Target \in Queues /\ TypeOK /\ IInv /\ IInv'
      /\ pc \in [Workers -> Location] /\ pc' \in [Workers -> Location]
      /\ seen \in [Workers -> Nat] /\ seen' \in [Workers -> Nat]
      /\ stops = 0 /\ NothingOverdue /\ [Next]_vars /\ j \in JobIds
  BY RoleAssumption, StepIsBoss
     DEF WInv, IInv, WorkTypeOK, Prompt, Free, Offered, IsIn, Rows
<1>2. ASSUME notes[Target] < notes'[Target]
      PROVE  \E w \in Workers : Alert(w, j)'
  <2>1. PICK w \in Workers : TRUE
    OBVIOUS
  <2>2. seen'[w] <= notes[Target] /\ notes[Target] \in Nat /\ notes'[Target] \in Nat
    BY <1>1, SeenBound DEF IInv, TypeOK
  <2>3. seen'[w] < notes'[Target] /\ pc'[w] \in Location /\ pc'[w] # "stopped"
    BY <1>1, <1>2, <2>2 DEF ConnectionInv
  <2>. QED BY <2>3 DEF Alert, Location
<1>3. ASSUME j \in Free
      PROVE  \E w \in Workers : Alert(w, j)
  BY <1>1, <1>3 DEF Watched
<1>4. ASSUME NEW v \in Workers, WorkerStep(v) \/ Stop(v) \/ Restart(v)
      PROVE  \E w \in Workers : Alert(w, j)'
  <2>1. ~Stop(v)
    BY <1>1 DEF Stop
  <2>2. CASE Report(v)
    <3>1. pc'[v] = "fetch" /\ began'[v] = NULL
      BY <1>1, <2>2, EndEffect DEF Report, Goto, Complete, Fail, Commit
    <3>. QED BY <3>1 DEF Alert
  <2>3. CASE ~Report(v)
    <3>1. QuietStep(v) /\ (Commit(v) \/ claim[v] = {} \/ UNCHANGED claim)
      <4>1. CASE FetchOne(v)
        <5>1. UNCHANGED job /\ claim[v] = {}
          BY <1>1, <4>1, FetchOfOne DEF FetchOne, FetchLock, tables
        <5>2. \A t \in Sessions : claim[t] \subseteq claim'[t]
          BY <1>4, <5>1, ConsumerAlone
        <5>. QED BY <5>1, <5>2 DEF QuietStep
      <4>. QED BY <1>4, <2>1, <2>3, <4>1
               DEF WorkerStep, Listen, Call, Begin, FetchReturns, FetchEmpty,
                   HandlerReturns, Wake, Restart, QuietStep, vars, tables
    <3>2. CASE j \in Free /\ job'[j] = job[j]
      <4>1. PICK w \in Workers : Alert(w, j)
        BY <1>3, <3>2
      <4>2. CASE w = v
        BY <1>1, <1>4, <3>2, <4>1, <4>2, OwnAlert
      <4>3. CASE w # v
        <5>1. pc'[w] = pc[w] /\ seen'[w] = seen[w] /\ began'[w] = began[w]
          BY <1>1, <1>4, <4>3, ConsumerAlone
        <5>. QED BY <1>1, <3>2, <4>1, <5>1, AlertKept
      <4>. QED BY <4>2, <4>3
    <3>. QED BY <1>1, <1>2, <3>1, <3>2, FreeStep
  <2>. QED BY <2>2, <2>3
<1>5. ASSUME NEW s \in Sessions, QuietStep(s), claim[s] = {} \/ UNCHANGED claim,
             UNCHANGED <<pc, seen>>, \A w \in Workers : began'[w] = began[w]
      PROVE  \E w \in Workers : Alert(w, j)'
  <2>1. CASE j \in Free /\ job'[j] = job[j]
    <3>1. PICK w \in Workers : Alert(w, j)
      BY <1>3, <2>1
    <3>. QED BY <1>1, <1>5, <2>1, <3>1, AlertKept
  <2>. QED BY <1>1, <1>2, <1>5, <2>1, FreeStep
<1>6. ASSUME NEW p \in Producers, ProducerBegins(p) \/ Finish(p)
      PROVE  \E w \in Workers : Alert(w, j)'
  <2>1. p \in Sessions \ Workers /\ claim[p] = {} /\ UNCHANGED <<pc, seen>>
    BY <1>1, <1>6 DEF ConnectionInv, ProducerBegins, Finish, local
  <2>2. QuietStep(p)
    BY <1>6 DEF ProducerBegins, Finish, QuietStep, Begin, SendRead, tables
  <2>3. \A w \in Workers : began'[w] = began[w]
    <3>1. UNCHANGED began \/ End(p) \/ Begin(p)
      BY <1>6 DEF ProducerBegins, Finish, SendRead, SendInsert, Commit, Rollback
    <3>. QED BY <1>1, <2>1, <3>1 DEF End, Begin, TypeOK
  <2>. QED BY <1>5, <2>1, <2>2, <2>3
<1>7. ASSUME NEW m \in Janitors, JanitorStep(m)
      PROVE  \E w \in Workers : Alert(w, j)'
  <2>1. m \in Sessions \ Workers /\ claim[m] = {} /\ UNCHANGED <<pc, seen>>
    BY <1>1, <1>7 DEF ConnectionInv, JanitorStep, local
  <2>2. QuietStep(m)
    BY <1>7 DEF JanitorStep, QuietStep, Begin, tables
  <2>3. \A w \in Workers : began'[w] = began[w]
    BY <1>1, <1>7, <2>1 DEF JanitorStep, Maintain, End, Begin, TypeOK
  <2>. QED BY <1>5, <2>1, <2>2, <2>3
<1>8. CASE TimePasses \/ UNCHANGED wvars
  <2>1. UNCHANGED <<job, claim, hidden, notes, pc, seen, began>>
    BY <1>8 DEF TimePasses, Tick, tables, wvars, vars, local
  <2>2. j \in Free
    BY <2>1 DEF Free, Offered, Locked, IsIn, Rows, Hidden
  <2>3. PICK w \in Workers : Alert(w, j)
    BY <1>3, <2>2
  <2>. QED BY <1>1, <2>1, <2>3, AlertKept
<1>. QED BY <1>4, <1>6, <1>7, <1>8 DEF WorkNext

-----------------------------------------------------------------------------
(***************************************************************************)
(* Options under which nothing is ever late.                               *)
(***************************************************************************)

\* Retries and sends without delay, expiry later than the bound on time, and
\* consumers that do not stop.
PromptOptions ==
  /\ MaxStops = 0
  /\ \A o \in QueueOptions : o.retry_delay <= 0 /\ o.expire_seconds >= MaxClock
  /\ \A o \in SendOptions :
       /\ o.retryDelay = NULL \/ o.retryDelay <= 0
       /\ o.expireInSeconds = NULL \/ o.expireInSeconds >= MaxClock
       /\ o.startAfter = NULL \/ o.startAfter.value <= 0

PromptDefaults(d) == d.retry_delay <= 0 /\ d.expire_seconds >= MaxClock

PromptRow(r, t) ==
  /\ PromptDefaults(r)
  /\ r.start_after <= t
  /\ r.started_on # NULL => r.started_on >= 0

PromptInv ==
  /\ clock <= MaxClock
  /\ \A s \in Sessions : began[s] # NULL => began[s] >= 0
  /\ \A q \in Queues : queue[q] # NULL => PromptDefaults(queue[q])
  /\ \A s \in Sessions : draft[s] # NULL => PromptDefaults(draft[s].defaults)
  /\ \A j \in Rows : PromptRow(job[j], clock)

LEMMA PromptNewJob ==
  ASSUME PromptOptions, NEW q \in Queues, NEW d \in QueueRow, PromptDefaults(d),
         NEW o \in SendOptions, NEW now \in Int, NEW t \in Int, 0 <= now, now <= t
  PROVE  PromptRow(NewJob(q, d, o, now), t)
<1>1. o \in SendOption /\ d.retry_delay \in Int /\ d.expire_seconds \in Int /\ MaxClock \in Int
  BY OptionAssumption, BoundAssumption DEF QueueRow
<1>2. Coalesce(o.retryDelay, d.retry_delay) <= 0
      /\ Coalesce(o.expireInSeconds, d.expire_seconds) >= MaxClock
  BY <1>1 DEF PromptOptions, PromptDefaults, Coalesce
<1>3. StartAfter(o.startAfter, now) <= t
  <2>1. o.startAfter # NULL => o.startAfter.value \in Int /\ o.startAfter.value <= 0
    BY <1>1 DEF PromptOptions, SendOption
  <2>. QED BY <2>1 DEF StartAfter
<1>. QED BY <1>2, <1>3 DEF NewJob, PromptRow, PromptDefaults

LEMMA PromptChange ==
  ASSUME NEW r \in JobRow, NEW now \in Int, NEW t \in Int, 0 <= now, now <= t, PromptRow(r, t)
  PROVE  /\ PromptRow(Started(r, now), t) /\ PromptRow(Completed(r, now), t)
         /\ PromptRow(Retried(r, now), t) /\ PromptRow(GivenUp(r, now), t)
<1>1. PromptRow(Started(r, now), t)
  BY DEF Started, PromptRow, PromptDefaults, JobRow
<1>2. PromptRow(Completed(r, now), t)
  BY DEF Completed, PromptRow, PromptDefaults, JobRow
<1>3. PromptRow(Retried(r, now), t)
  <2>1. now + r.retry_delay <= t
    BY DEF PromptRow, PromptDefaults, JobRow
  <2>. QED BY <2>1 DEF Retried, PromptRow, PromptDefaults, JobRow
<1>4. PromptRow(GivenUp(r, now), t)
  BY DEF GivenUp, PromptRow, PromptDefaults, JobRow
<1>. QED BY <1>1, <1>2, <1>3, <1>4

\* What a step of the database makes of a row.
LEMMA PromptRows ==
  ASSUME PromptOptions, IInv, PromptInv, [Next]_vars, NEW j \in Rows'
  PROVE  PromptRow(job'[j], clock)
<1>1. /\ j \in JobIds /\ job \in [JobIds -> JobRow \cup {NULL}] /\ clock \in Int
      /\ job[j] # NULL => job[j] \in JobRow /\ PromptRow(job[j], clock)
      /\ job'[j] # NULL
  BY DEF IInv, TypeOK, PromptInv, Rows
<1>2. ASSUME NEW s \in Sessions, began[s] # NULL
      PROVE  began[s] \in Int /\ 0 <= began[s] /\ began[s] <= clock
  BY <1>2 DEF IInv, TypeOK, SessionInv, PromptInv
<1>3. CASE job'[j] = job[j]
  BY <1>1, <1>3
<1>4. ASSUME NEW s \in Sessions, Commit(s)
      PROVE  PromptRow(job'[j], clock)
  <2>1. job'[j] = IF j \in claim[s] THEN Started(job[j], began[s]) ELSE job[j]
    BY <1>1, <1>4 DEF Commit
  <2>2. CASE j \in claim[s]
    <3>1. job[j] # NULL /\ began[s] # NULL
      BY <1>4, <2>2 DEF IInv, RowLocksExclusive, IsIn, Rows, Commit
    <3>. QED BY <1>1, <1>2, <2>1, <2>2, <3>1, PromptChange
  <2>. QED BY <1>1, <2>1, <2>2
<1>5. ASSUME NEW s \in Sessions, NEW o \in SendOptions, SendInsert(s, o)
      PROVE  PromptRow(job'[j], clock)
  <2>1. PICK i \in JobIds \ issued :
          job' = [job EXCEPT ![i] = NewJob(draft[s].name, draft[s].defaults, o, began[s])]
    BY <1>5 DEF SendInsert
  <2>2. draft[s] \in Draft /\ PromptDefaults(draft[s].defaults) /\ began[s] # NULL
    BY <1>5 DEF SendInsert, IInv, TypeOK, SessionInv, PromptInv
  <2>3. draft[s].name \in Queues /\ draft[s].defaults \in QueueRow
    BY <2>2 DEF Draft
  <2>4. PromptRow(NewJob(draft[s].name, draft[s].defaults, o, began[s]), clock)
    BY <1>1, <1>2, <2>2, <2>3, PromptNewJob
  <2>. QED BY <1>1, <2>1, <2>4
<1>6. ASSUME NEW s \in Sessions, NEW q \in Queues, NEW i \in JobIds,
             Complete(s, q, i) \/ Fail(s, q, i)
      PROVE  PromptRow(job'[j], clock)
  <2>1. /\ began[s] # NULL /\ job[i] # NULL
        /\ \/ job' = [job EXCEPT ![i] = Completed(job[i], began[s])]
           \/ job' = [job EXCEPT ![i] = Unfinished(job[i], began[s])]
    BY <1>6 DEF Complete, Fail, Matches, Fresh
  <2>2. CASE i = j
    <3>1. PromptRow(Completed(job[j], began[s]), clock)
          /\ PromptRow(Unfinished(job[j], began[s]), clock)
      BY <1>1, <1>2, <2>1, <2>2, PromptChange DEF Unfinished
    <3>. QED BY <1>1, <2>1, <2>2, <3>1
  <2>. QED BY <1>1, <2>1, <2>2
<1>7. ASSUME NEW s \in Sessions, Maintain(s)
      PROVE  PromptRow(job'[j], clock)
  <2>1. job'[j] = Maintained(j, began[s]) /\ began[s] # NULL
    BY <1>1, <1>7 DEF Maintain, Fresh
  <2>2. job'[j] = ExpiredAt(j, began[s])
    BY <1>1, <2>1 DEF Maintained
  <2>3. CASE j \in OverdueAt(began[s])
    <3>1. job[j] # NULL /\ began[s] \in Int /\ job[j].state = "active"
      BY <1>2, <2>1, <2>3 DEF OverdueAt, Overdue, Rows
    <3>2. /\ PromptRow(Retried(job[j], began[s]), clock)
          /\ PromptRow(GivenUp(job[j], began[s]), clock)
      BY <1>1, <1>2, <2>1, <3>1, PromptChange
    <3>3. PromptRow(Expired(job[j], began[s]), clock)
      BY <1>1, <3>1, <3>2 DEF Expired, Retried, PromptRow, PromptDefaults, JobRow
    <3>. QED BY <2>2, <2>3, <3>3 DEF ExpiredAt
  <2>. QED BY <1>1, <2>2, <2>3 DEF ExpiredAt
<1>8. CASE \/ \E s \in Sessions : Rollback(s)
           \/ \E q \in Queues : DeleteQueue(q)
  BY <1>1, <1>3, <1>8 DEF Rollback, DeleteQueue
<1>9. CASE UNCHANGED job
  BY <1>3, <1>9
<1>. QED BY <1>4, <1>5, <1>6, <1>7, <1>8, <1>9
     DEF Next, SessionStep, Begin, SendRead, FetchLock, CreateQueue, Tick, vars, tables

LEMMA PromptNext ==
  ASSUME PromptOptions, IInv, PromptInv, [Next]_vars
  PROVE  PromptInv'
<1>1. /\ TypeOK /\ clock \in Nat /\ MaxClock \in Nat
      /\ began \in [Sessions -> Int \cup {NULL}] /\ draft \in [Sessions -> Draft \cup {NULL}]
      /\ queue \in [Queues -> QueueRow \cup {NULL}]
  BY BoundAssumption DEF IInv, TypeOK
<1>2. clock' \in Nat /\ clock <= clock' /\ clock' <= MaxClock
  <2>1. clock' = clock \/ Tick
    BY DEF Next, SessionStep, Begin, Commit, Rollback, SendRead, SendInsert, FetchLock, Complete,
           Fail, Maintain, CreateQueue, DeleteQueue, vars
  <2>. QED BY <1>1, <2>1 DEF Tick, PromptInv
<1>3. \A s \in Sessions : began'[s] # NULL => began'[s] >= 0
  <2>1. UNCHANGED began \/ \E t \in Sessions : Begin(t) \/ End(t)
    BY DEF Next, SessionStep, Commit, Rollback, SendRead, SendInsert, FetchLock, Complete,
           Fail, Maintain, CreateQueue, DeleteQueue, Tick, vars
  <2>. QED BY <1>1, <2>1 DEF Begin, End, PromptInv
<1>4. \A q \in Queues : queue'[q] # NULL => PromptDefaults(queue'[q])
  <2>1. CASE UNCHANGED queue
    BY <2>1 DEF PromptInv
  <2>2. ASSUME NEW p \in Queues, NEW o \in QueueOptions, CreateQueue(p, o)
        PROVE  \A q \in Queues : queue'[q] # NULL => PromptDefaults(queue'[q])
    BY <1>1, <2>2 DEF CreateQueue, PromptInv, PromptOptions, PromptDefaults
  <2>3. ASSUME NEW p \in Queues, DeleteQueue(p)
        PROVE  \A q \in Queues : queue'[q] # NULL => PromptDefaults(queue'[q])
    BY <1>1, <2>3 DEF DeleteQueue, PromptInv
  <2>. QED BY <2>1, <2>2, <2>3
       DEF Next, SessionStep, Begin, Commit, Rollback, SendRead, SendInsert, FetchLock, Complete,
           Fail, Maintain, Tick, vars, tables
<1>5. \A s \in Sessions : draft'[s] # NULL => PromptDefaults(draft'[s].defaults)
  <2>1. ASSUME NEW t \in Sessions, NEW q \in Queues, SendRead(t, q)
        PROVE  \A s \in Sessions : draft'[s] # NULL => PromptDefaults(draft'[s].defaults)
    BY <1>1, <2>1 DEF SendRead, PromptInv
  <2>2. ASSUME NEW t \in Sessions, draft' = [draft EXCEPT ![t] = NULL]
        PROVE  \A s \in Sessions : draft'[s] # NULL => PromptDefaults(draft'[s].defaults)
    BY <1>1, <2>2 DEF PromptInv
  <2>3. CASE UNCHANGED draft
    BY <2>3 DEF PromptInv
  <2>. QED BY <2>1, <2>2, <2>3
       DEF Next, SessionStep, Begin, End, Commit, Rollback, SendInsert, FetchLock, Complete,
           Fail, Maintain, CreateQueue, DeleteQueue, Tick, vars
<1>6. ASSUME NEW j \in Rows'
      PROVE  PromptRow(job'[j], clock')
  <2>1. PromptRow(job'[j], clock)
    BY <1>6, PromptRows
  <2>2. job'[j] \in JobRow
    BY <1>6, NextInv DEF IInv, TypeOK, Rows
  <2>3. job'[j].start_after \in Int
    BY <2>2 DEF JobRow
  <2>. QED BY <1>1, <1>2, <2>1, <2>3 DEF PromptRow
<1>. QED BY <1>2, <1>3, <1>4, <1>5, <1>6 DEF PromptInv

LEMMA PromptImplied ==
  ASSUME PromptOptions, WInv, PromptInv
  PROVE  Prompt
<1>1. stops = 0
  BY DEF WInv, WorkTypeOK, PromptOptions
<1>2. \A j \in Rows : job[j].start_after <= clock
  BY DEF PromptInv, PromptRow
<1>3. NothingOverdue
  <2>1. SUFFICES ASSUME NEW j \in Rows, Overdue(job[j], clock) PROVE FALSE
    BY DEF NothingOverdue, IsIn
  <2>2. job[j] \in JobRow /\ PromptRow(job[j], clock) /\ clock \in Nat /\ clock <= MaxClock
        /\ MaxClock \in Nat
    BY RowFacts, BoundAssumption DEF WInv, IInv, TypeOK, PromptInv
  <2>3. job[j].started_on \in Int /\ job[j].started_on >= 0 /\ job[j].expire_seconds \in Int
        /\ job[j].expire_seconds >= MaxClock
        /\ clock - job[j].started_on > job[j].expire_seconds
    BY <2>1, <2>2 DEF Overdue, PromptRow, PromptDefaults, JobRow
  <2>. QED BY <2>2, <2>3
<1>. QED BY <1>1, <1>2, <1>3 DEF Prompt

-----------------------------------------------------------------------------
(***************************************************************************)
(* Theorems.                                                               *)
(***************************************************************************)

\* The inductive invariant holds in every reachable state.  With it the database
\* keeps all that BossProofs says of IInv, however the consumers use it.
THEOREM WorkInvariance == WorkSpec => []WInv
BY WorkInitInv, WorkNextInv, PTL DEF WorkSpec

\* WorkTypeOK: the consumers and the database keep their types.
THEOREM WorkTypes == WorkSpec => []WorkTypeOK
<1>1. WInv => WorkTypeOK
  BY DEF WInv
<1>. QED BY <1>1, WorkInvariance, PTL

\* CompletedOnlyAfterSuccess: however consumers stop, restart and lose jobs to an
\* expiry, only a job for which some handler returned nil is ever completed.
THEOREM NothingCompletedUnhandled == WorkSpec => []CompletedOnlyAfterSuccess
<1>1. WInv => CompletedOnlyAfterSuccess
  BY DEF WInv
<1>. QED BY <1>1, WorkInvariance, PTL

\* AtMostOneHolder: as long as handlers report before their job expires, a job is
\* in the hands of one consumer at a time, whatever the consumers that stop with
\* a job in hand, the transactions in flight and boss.maintain do meanwhile.
THEOREM ExclusiveHolders == WorkSpec /\ []NothingOverdue => []AtMostOneHolder
<1>1. WorkInit => HoldersActive /\ AtMostOneHolder
  BY DEF WorkInit, HoldersActive, AtMostOneHolder, Holds
<1>2. /\ WInv /\ NothingOverdue /\ HoldersActive /\ AtMostOneHolder /\ [WorkNext]_wvars
      => HoldersActive' /\ AtMostOneHolder'
  BY HoldersNext
<1>. QED BY <1>1, <1>2, WorkInvariance, PTL DEF WorkSpec

\* NoSleepingOnWork: while nobody stops, nothing is overdue and every job is due,
\* the consumers never all sleep with a job to fetch: no wake-up is lost between
\* LISTEN, the last empty fetch and WaitForNotification.
THEOREM NoLostWakeup == WorkSpec /\ []Prompt => []NoSleepingOnWork
<1>1. WorkInit => ConnectionInv /\ Watched
  BY RoleAssumption DEF WorkInit, ConnectionInv, Watched, Alert
<1>2. WInv /\ WInv' /\ ConnectionInv /\ [WorkNext]_wvars => ConnectionInv'
  BY ConnectionNext
<1>3. /\ WInv /\ WInv' /\ ConnectionInv /\ ConnectionInv' /\ Prompt /\ Watched /\ [WorkNext]_wvars
      => Watched'
  BY WatchedNext
<1>4. WInv /\ ConnectionInv /\ Prompt /\ Watched => NoSleepingOnWork
  <2>. SUFFICES ASSUME WInv, ConnectionInv, Prompt, Watched,
                       \E w \in Workers : Asleep(w),
                       \A w \in Workers : Asleep(w) \/ pc[w] = "stopped",
                       NEW j \in Ready(Target, clock) \ Locked
                PROVE  FALSE
    BY DEF NoSleepingOnWork
  <2>1. stops = 0 /\ j \in Free
    BY DEF Prompt, Free, Offered, Ready
  <2>2. PICK w \in Workers : Alert(w, j)
    BY <2>1 DEF Watched
  <2>3. pc[w] = "wait" /\ seen[w] = notes[Target] /\ notes[Target] \in Nat
    BY <2>1, RoleAssumption DEF ConnectionInv, Asleep, WInv, IInv, TypeOK
  <2>. QED BY <2>2, <2>3 DEF Alert
<1>. QED BY <1>1, <1>2, <1>3, <1>4, WorkInvariance, PTL DEF WorkSpec

\* With options under which nothing is late, both hold of every behaviour: what
\* the two theorems above suppose is what these options ensure.
THEOREM PromptConsumers ==
  ASSUME PromptOptions
  PROVE  WorkSpec => [](AtMostOneHolder /\ NoSleepingOnWork)
<1>1. WorkInit => PromptInv
  BY BoundAssumption, OptionAssumption
     DEF WorkInit, PromptInv, Rows, PromptOptions, PromptDefaults
<1>2. WInv /\ PromptInv /\ [WorkNext]_wvars => PromptInv'
  BY StepIsBoss, PromptNext DEF WInv
<1>3. WInv /\ PromptInv => Prompt
  BY PromptImplied
<1>4. WorkSpec => []Prompt
  BY <1>1, <1>2, <1>3, WorkInvariance, PTL DEF WorkSpec
<1>5. Prompt => NothingOverdue
  BY DEF Prompt
<1>. QED BY <1>4, <1>5, ExclusiveHolders, NoLostWakeup, PTL

\* The consumers keep every guarantee of the functions they call: SafeStates and
\* SafeSteps are the properties of BossProofs.
THEOREM ConsumersAreSafe == WorkSpec => []SafeStates /\ SafeSteps
<1>1. WInv => IInv
  BY DEF WInv
<1>2. WInv /\ [WorkNext]_wvars => [Next]_vars
  BY StepIsBoss DEF WInv
<1>3. WorkSpec => []IInv /\ [][Next]_vars
  BY <1>1, <1>2, WorkInvariance, PTL DEF WorkSpec
<1>. QED BY <1>3, UsersAreSafe

\* Consumers, producers and background workers together still implement the life
\* of a job: what the handlers are given is what JobLifecycle hands out.
THEOREM ConsumersImplement == WorkSpec => ImplementsLifecycle
<1>1. WorkInit => OnePurpose /\ Lifecycle!Init
  BY DEF WorkInit, OnePurpose, Lifecycle!Init, task, NoTask, Lifecycle!NoTask
<1>2. WInv => IInv
  BY DEF WInv
<1>3. WInv /\ [WorkNext]_wvars => [Next]_vars
  BY StepIsBoss DEF WInv
<1>. QED BY <1>1, <1>2, <1>3, WorkInvariance, UsersImplement, PTL DEF WorkSpec

=============================================================================
