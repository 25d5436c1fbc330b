----------------------------- MODULE SuiteProofs -----------------------------
(***************************************************************************)
(* Safety of Suite, and with it of Scenario where no script spawns twice   *)
(* into a variable it has not awaited, for any number of files, threads,   *)
(* variables and statements.                                               *)
(***************************************************************************)
EXTENDS Suite, RefinementProofs

Active(c) == at[c] \notin {"idle", "done"}

\* The threads that run are those in pending, each once; the main thread consumes
\* in a phase of its own.
JoinInv ==
  /\ \A c \in Threads : Active(c) => \E v \in Vars : pending[v] = c
  /\ \A v \in Vars : pending[v] # NULL => at[pending[v]] # "idle"
  /\ \A u, v \in Vars : pending[u] = pending[v] /\ pending[u] # NULL => u = v
  /\ phase \in {"setup", "cleanup", "done"} => \A v \in Vars : pending[v] = NULL
  /\ phase = "consume" => dest \in Vars
  /\ phase # "consume" => at[Main] = "idle"

\* What consume_wait works with.
WaitInv ==
  \A c \in Waiters :
    /\ Active(c) => from[c] \in named /\ (at[c] = "first" \/ within[c] \in Nat)
    /\ at[c] = "done" => got[c] \in JobIds \cup {Empty, Broken}

OutcomeInv == phase \in {"join", "cleanup", "done"} => outcome \in Codes

\* The places a job can be in the hands of a scenario: a variable, the result of a
\* thread that is awaited, and that of a consume in the foreground.
Slots == ({"bound", "pending"} \X Vars) \cup {<<"main", NULL>>}

Held(x) ==
  CASE x[1] = "bound"   -> bound[x[2]]
    [] x[1] = "pending" -> IF pending[x[2]] # NULL /\ at[pending[x[2]]] = "done"
                           THEN got[pending[x[2]]] ELSE Unbound
    [] x[1] = "main"    -> IF phase = "consume" /\ at[Main] = "done" THEN got[Main] ELSE Unbound

HoldInv ==
  /\ \A x \in Slots : Held(x) \in JobIds => deliveries[Held(x)] >= 1
  /\ \A x, y \in Slots :
       x # y /\ Held(x) = Held(y) /\ Held(x) \in Rows => job[Held(x)].retry_count >= 1

\* A consumer has rows locked only while it fetches, rows of its queue.
ClaimInv ==
  \A c \in Waiters : claim[c] # {} =>
    at[c] \in Fetching /\ \A j \in claim[c] : job[j].name = from[c]

\* A push is to a queue that the script names.
DraftInv == draft[Main] # NULL => phase = "push" /\ draft[Main].name \in named

CleanInv == phase = "done" /\ "cleanup" \notin spoiled => \A q \in named : queue[q] = NULL

\* Once the first cleanup has worked, no row of a queue that the script names is older
\* than the scenario.
OwnInv ==
  /\ earlier \subseteq issued
  /\ running /\ "setup" \notin spoiled =>
       /\ phase # "setup" => \A j \in Rows \cap earlier : job[j].name \notin named
       /\ \A v \in Vars : bound[v] \notin earlier
       /\ \A c \in Waiters : got[c] \notin earlier

\* What it makes is in queues that its script names.
MadeInv ==
  /\ ~running => phase \in {"setup", "done"}
  /\ running => /\ \A q \in Queues : queue[q] # NULL => q \in standing \cup named
                /\ \A j \in Rows \ earlier : job[j].name \in named

VerdictInv ==
  /\ worst \in verdicts \cup {Ok}
  /\ \A r \in verdicts : r <= worst
  /\ started = 0 => verdicts = {} /\ ~running
  /\ started > 0 /\ ~running => verdicts # {}
  /\ files = NULL => started = 0
  /\ files # NULL => started <= files
  /\ code # NULL => /\ ~running
                    /\ \/ files \in {NULL, 0} /\ code = Unconnected
                       \/ files # NULL /\ files > 0 /\ started = files /\ code = worst

\* The part about one scenario, and the inductive invariant.
RunInv == IInv /\ ScenarioTypeOK /\ JoinInv /\ WaitInv /\ OutcomeInv /\ HoldInv
          /\ ClaimInv /\ DraftInv /\ CleanInv
SInv   == RunInv /\ SuiteTypeOK /\ OwnInv /\ MadeInv /\ VerdictInv

LEMMA SpecialValues == {Unbound, Empty, Broken, NULL} \cap JobIds = {}
<1>1. JobIds \subseteq Nat
  BY BoundAssumption
<1>2. NULL \notin Nat
  BY NullAssumption
<1>3. {Unbound, Empty, Broken} \cap JobIds = {}
  BY ScenarioAssumption
<1>. QED BY <1>1, <1>2, <1>3

LEMMA SuiteInitInv == SuiteInit => SInv
<1>. SUFFICES ASSUME SuiteInit PROVE SInv
  OBVIOUS
<1>1. IInv
  BY NullAssumption, OptionAssumption
  DEF SuiteInit, ScenarioInit, IInv, TypeOK, SessionInv, IssuedInv, RowLocksExclusive, NoOrphans, Rows
<1>2. ScenarioTypeOK
  <2>1. /\ left \in 0 .. MaxSteps /\ phase = "setup" /\ spoiled = {} /\ dest = NULL /\ outcome = NULL
        /\ named \subseteq Queues
        /\ bound \in [Vars -> JobIds \cup {Empty, Unbound}]
        /\ pending \in [Vars -> Threads \cup {NULL}]
    BY ScenarioAssumption DEF SuiteInit, ScenarioInit
  <2>2. /\ at \in [Waiters -> Fetching \cup {"idle", "loop", "wait", "done"}]
        /\ from \in [Waiters -> Queues \cup {NULL}] /\ within \in [Waiters -> Nat \cup {NULL}]
        /\ deadline \in [Waiters -> Nat] /\ got \in [Waiters -> JobIds \cup {Empty, Broken, NULL}]
    BY DEF SuiteInit, ScenarioInit
  <2>. QED BY <1>1, <2>1, <2>2 DEF ScenarioTypeOK, IInv
<1>3. JoinInv /\ WaitInv /\ OutcomeInv /\ CleanInv
  BY DEF SuiteInit, ScenarioInit, JoinInv, WaitInv, OutcomeInv, CleanInv, Active, Waiters
<1>7. ClaimInv /\ DraftInv
  BY ScenarioAssumption DEF SuiteInit, ScenarioInit, ClaimInv, DraftInv, Waiters
<1>4. HoldInv
  <2>1. \A x \in Slots : Held(x) \notin JobIds
    BY ScenarioAssumption DEF SuiteInit, ScenarioInit, Held, Slots
  <2>. QED BY <2>1 DEF HoldInv, Rows
<1>5. SuiteTypeOK
  <2>1. 0 \in 0 .. MaxFiles /\ 0 \in Codes
    BY SuiteAssumption DEF Codes, Ok
  <2>2. /\ files \in (0 .. MaxFiles) \cup {NULL} /\ started = 0 /\ running = FALSE /\ worst = 0
        /\ code = NULL /\ earlier = {} /\ standing = {} /\ verdicts = {}
    BY DEF SuiteInit
  <2>. QED BY <1>2, <2>1, <2>2 DEF SuiteTypeOK
<1>6. OwnInv /\ MadeInv /\ VerdictInv
  BY SuiteAssumption DEF SuiteInit, ScenarioInit, OwnInv, MadeInv, VerdictInv, Ok
<1>. QED BY <1>1, <1>2, <1>3, <1>4, <1>5, <1>6, <1>7 DEF SInv, RunInv

-----------------------------------------------------------------------------
(***************************************************************************)
(* What a step of Boss leaves of a job that was delivered.                 *)
(***************************************************************************)

LEMMA DeliveriesGrow ==
  ASSUME IInv, [Next]_vars
  PROVE  issued \subseteq issued' /\ \A j \in JobIds : deliveries'[j] >= deliveries[j]
<1>1. deliveries \in [JobIds -> Nat]
  BY DEF IInv, TypeOK
<1>2. ASSUME NEW s \in Sessions, Commit(s)
      PROVE  issued' = issued /\ \A j \in JobIds : deliveries'[j] >= deliveries[j]
  <2>1. issued' = issued /\ \A j \in JobIds :
          deliveries'[j] = IF j \in claim[s] THEN deliveries[j] + 1 ELSE deliveries[j]
    BY <1>2 DEF Commit
  <2>. QED BY <1>1, <2>1
<1>3. ASSUME deliveries' = deliveries, issued \subseteq issued'
      PROVE  issued \subseteq issued' /\ \A j \in JobIds : deliveries'[j] >= deliveries[j]
  BY <1>1, <1>3
<1>4. ASSUME NEW s \in Sessions, SessionStep(s), ~Commit(s)
      PROVE  deliveries' = deliveries /\ issued \subseteq issued'
  BY <1>4 DEF SessionStep, Begin, Rollback, SendRead, SendInsert, FetchLock, Complete, Fail,
              Maintain, tables
<1>5. CASE \/ \E q \in Queues, o \in QueueOptions : CreateQueue(q, o)
           \/ \E q \in Queues : DeleteQueue(q)
           \/ Tick \/ UNCHANGED vars
  BY <1>3, <1>5 DEF CreateQueue, DeleteQueue, Tick, vars, tables
<1>. QED BY <1>2, <1>3, <1>4, <1>5 DEF Next

\* It keeps its queue, and its retries.
Kept(j) ==
  /\ j \in Rows /\ job'[j].retry_count >= job[j].retry_count
  /\ job'[j].name = job[j].name

LEMMA RetriesGrow ==
  ASSUME IInv, [Next]_vars, NEW j \in JobIds, j \in issued, job'[j] # NULL
  PROVE  Kept(j)
<1>1. /\ job \in [JobIds -> JobRow \cup {NULL}]
      /\ \A r \in JobRow : r.retry_count \in Nat /\ r.retry_count >= r.retry_count
  BY DEF IInv, TypeOK, JobRow
<1>2. CASE job'[j] = job[j]
  BY <1>1, <1>2 DEF Rows, Kept
<1>3. ASSUME NEW r \in JobRow, NEW now
      PROVE  /\ Started(r, now).retry_count = r.retry_count
             /\ Completed(r, now).retry_count = r.retry_count
             /\ GivenUp(r, now).retry_count = r.retry_count
             /\ Retried(r, now).retry_count = r.retry_count + 1
             /\ Unfinished(r, now).retry_count >= r.retry_count
             /\ Expired(r, now).retry_count >= r.retry_count
             /\ \A w \in {Started(r, now), Completed(r, now), Unfinished(r, now), Expired(r, now)} :
                  w.name = r.name
  <2>1. /\ Started(r, now).retry_count = r.retry_count
        /\ Completed(r, now).retry_count = r.retry_count
        /\ GivenUp(r, now).retry_count = r.retry_count
        /\ Retried(r, now).retry_count = r.retry_count + 1
        /\ [Retried(r, now) EXCEPT !.completed_on = NULL].retry_count = r.retry_count + 1
    BY DEF Started, Completed, GivenUp, Retried, JobRow
  <2>2. /\ Started(r, now).name = r.name /\ Completed(r, now).name = r.name
        /\ GivenUp(r, now).name = r.name /\ Retried(r, now).name = r.name
        /\ [Retried(r, now) EXCEPT !.completed_on = NULL].name = r.name
    BY DEF Started, Completed, GivenUp, Retried, JobRow
  <2>. QED BY <1>1, <2>1, <2>2 DEF Unfinished, Expired
<1>4. ASSUME NEW s \in Sessions, Commit(s)
      PROVE  Kept(j)
  <2>1. CASE j \in claim[s]
    <3>1. job[j] \in JobRow /\ j \in Rows
      BY <1>1, <2>1 DEF IInv, RowLocksExclusive, IsIn, Rows
    <3>2. job'[j] = Started(job[j], began[s])
      BY <1>4, <2>1 DEF Commit
    <3>. QED BY <1>1, <1>3, <3>1, <3>2 DEF Kept
  <2>2. CASE j \notin claim[s]
    BY <1>2, <1>4, <2>2 DEF Commit
  <2>. QED BY <2>1, <2>2
<1>5. ASSUME NEW s \in Sessions, NEW q \in Queues, NEW i \in JobIds,
             Complete(s, q, i) \/ Fail(s, q, i)
      PROVE  Kept(j)
  <2>1. /\ job[i] # NULL /\ job'[i] \in {Completed(job[i], began[s]), Unfinished(job[i], began[s])}
        /\ i # j => job'[j] = job[j]
    BY <1>1, <1>5 DEF Complete, Fail, Matches
  <2>2. CASE i = j
    <3>1. job[j] \in JobRow
      BY <1>1, <2>1, <2>2
    <3>. QED BY <1>1, <1>3, <2>1, <2>2, <3>1 DEF Rows, Kept
  <2>. QED BY <1>2, <2>1, <2>2
<1>6. ASSUME NEW s \in Sessions, Maintain(s)
      PROVE  Kept(j)
  <2>1. job'[j] = ExpiredAt(j, began[s])
    BY <1>6 DEF Maintain, Maintained
  <2>2. CASE j \in OverdueAt(began[s])
    <3>1. j \in Rows /\ job[j] \in JobRow /\ job'[j] = Expired(job[j], began[s])
      BY <1>1, <2>1, <2>2 DEF OverdueAt, ExpiredAt, Rows
    <3>. QED BY <1>3, <3>1 DEF Kept
  <2>3. CASE j \notin OverdueAt(began[s])
    BY <1>2, <2>1, <2>3 DEF ExpiredAt
  <2>. QED BY <2>2, <2>3
<1>7. ASSUME NEW s \in Sessions, Rollback(s)
      PROVE  job'[j] = job[j]
  BY <1>7 DEF Rollback
<1>8. ASSUME NEW s \in Sessions, NEW o \in SendOptions, SendInsert(s, o)
      PROVE  job'[j] = job[j]
  BY <1>1, <1>8 DEF SendInsert
<1>9. ASSUME NEW q \in Queues, DeleteQueue(q)
      PROVE  job'[j] = job[j]
  BY <1>9 DEF DeleteQueue
<1>10. ASSUME NEW s \in Sessions, SessionStep(s)
       PROVE  Kept(j)
  <2>1. CASE \/ Begin(s)
             \/ \E q \in Queues : SendRead(s, q)
             \/ \E q \in Queues, n \in BatchSizes : FetchLock(s, q, n)
    BY <1>2, <2>1 DEF Begin, SendRead, FetchLock, tables
  <2>. QED BY <1>2, <1>4, <1>5, <1>6, <1>7, <1>8, <1>10, <2>1 DEF SessionStep
<1>11. CASE (\E q \in Queues, o \in QueueOptions : CreateQueue(q, o)) \/ Tick \/ UNCHANGED vars
  BY <1>2, <1>11 DEF CreateQueue, Tick, vars, tables
<1>. QED BY <1>2, <1>9, <1>10, <1>11 DEF Next

-----------------------------------------------------------------------------
(***************************************************************************)
(* Every step of a scenario is one of Boss.                                *)
(***************************************************************************)

LEMMA MainIsBoss ==
  ASSUME IInv, ScenarioTypeOK, MainStep
  PROVE  [Next]_vars
<1>1. Main \in Sessions
  BY ScenarioAssumption
<1>2. ASSUME SessionStep(Main)
      PROVE  [Next]_vars
  BY <1>1, <1>2 DEF Next
<1>3. CASE CleanupFails \/ CleanupEnds \/ ConsumeReturns \/ ExecFails \/ ScriptEnds \/ Join
  BY <1>3 DEF CleanupFails, CleanupEnds, ConsumeReturns, ExecFails, ScriptEnds, Join
<1>4. CASE MainBegins \/ ExecMaintain \/ PushInserts \/ PushReturns \/ PushFails
  BY <1>2, <1>4 DEF MainBegins, ExecMaintain, PushInserts, PushReturns, PushFails, SessionStep
<1>5. ASSUME NEW q \in Queues, CleanupDeletes(q) \/ ExecDeleteQueue(q)
      PROVE  [Next]_vars
  BY <1>5 DEF CleanupDeletes, ExecDeleteQueue, Next
<1>6. ASSUME NEW q \in Queues, NEW o \in QueueOptions, ExecCreateQueue(q, o)
      PROVE  [Next]_vars
  BY <1>6 DEF ExecCreateQueue, Next
<1>7. ASSUME NEW q \in Queues, ExecPush(q)
      PROVE  [Next]_vars
  BY <1>2, <1>7 DEF ExecPush, SessionStep
<1>8. ASSUME NEW q, NEW v, NEW w, ExecConsume(q, v, w) \/ ExecSpawn(q, v, w)
      PROVE  [Next]_vars
  BY <1>8 DEF ExecConsume, ExecSpawn
<1>9. ASSUME NEW v \in Vars, ExecReport(v)
      PROVE  [Next]_vars
  BY <1>2, <1>9 DEF ExecReport, SessionStep
<1>10. ASSUME NEW v \in Vars, ExecAwait(v)
       PROVE  [Next]_vars
  BY <1>10 DEF ExecAwait
<1>. QED BY <1>3, <1>4, <1>5, <1>6, <1>7, <1>8, <1>9, <1>10 DEF MainStep

LEMMA ConsumeIsBoss ==
  ASSUME ScenarioTypeOK, WaitInv, NEW c \in Waiters, ConsumeWait(c) \/ ConsumeBreaks(c)
  PROVE  [Next]_vars
<1>1. c \in Sessions /\ 1 \in BatchSizes
  BY ScenarioAssumption DEF Waiters
<1>2. ASSUME SessionStep(c)
      PROVE  [Next]_vars
  BY <1>1, <1>2 DEF Next
<1>3. CASE ConsumeCalls(c) \/ ConsumeGets(c) \/ ConsumeMisses(c) \/ ConsumeBreaks(c)
  BY <1>2, <1>3 DEF ConsumeCalls, ConsumeGets, ConsumeMisses, ConsumeBreaks, SessionStep
<1>4. CASE ConsumeLocks(c)
  <2>1. from[c] \in Queues
    BY <1>4 DEF ConsumeLocks, WaitInv, Active, Fetching, ScenarioTypeOK
  <2>. QED BY <1>1, <1>2, <1>4, <2>1 DEF ConsumeLocks, SessionStep
<1>5. CASE ConsumeTimesOut(c) \/ ConsumeSleeps(c) \/ ConsumePolls(c)
  BY <1>5 DEF ConsumeTimesOut, ConsumeSleeps, ConsumePolls
<1>. QED BY <1>3, <1>4, <1>5 DEF ConsumeWait

LEMMA ScenarioIsBoss ==
  ASSUME IInv, ScenarioTypeOK, WaitInv, ScenarioNext
  PROVE  [Next]_vars
BY MainIsBoss, ConsumeIsBoss DEF ScenarioNext, TimePasses, Next
-----------------------------------------------------------------------------
(***************************************************************************)
(* The steps of the main thread that neither bind a variable nor start,    *)
(* collect or use a consumer.                                              *)
(***************************************************************************)

Quiet ==
  \/ CleanupFails \/ CleanupEnds \/ MainBegins \/ ExecMaintain \/ PushInserts \/ PushReturns
  \/ PushFails \/ ExecFails \/ ScriptEnds \/ TimePasses
  \/ \E q \in Queues : \/ CleanupDeletes(q)
                       \/ \E o \in QueueOptions : ExecCreateQueue(q, o)
                       \/ ExecDeleteQueue(q)
                       \/ ExecPush(q)
  \/ \E v \in Vars : ExecReport(v)

\* Where they lead.
QuietMove ==
  \/ UNCHANGED <<phase, outcome>>
  \/ phase \in {"run", "push"} /\ phase' \in {"run", "push"} /\ UNCHANGED outcome
  \/ phase \in {"run", "push"} /\ phase' = "join" /\ outcome' \in Codes
  \/ phase = "setup" /\ phase' = "run" /\ UNCHANGED outcome
  \/ phase = "cleanup" /\ phase' = "done" /\ UNCHANGED outcome

LEMMA ExecuteLeft ==
  ASSUME left \in 0 .. MaxSteps, Execute
  PROVE  phase = "run" /\ left' \in 0 .. MaxSteps
BY ScenarioAssumption DEF Execute

LEMMA QuietEffect ==
  ASSUME ScenarioTypeOK, Quiet
  PROVE  /\ UNCHANGED <<waiter, bound, pending, dest, named>>
         /\ left' \in 0 .. MaxSteps
         /\ spoiled \subseteq spoiled' /\ spoiled' \subseteq {"setup", "cleanup"}
         /\ QuietMove
<1>1. left \in 0 .. MaxSteps /\ spoiled \subseteq {"setup", "cleanup"}
  BY DEF ScenarioTypeOK
<1>. USE DEF QuietMove
<1>2. {Ok, Failed, Unconnected} \subseteq Codes
  BY DEF Codes
<1>3. CASE CleanupFails \/ CleanupEnds
  BY <1>1, <1>3 DEF CleanupFails, CleanupEnds
<1>4. CASE MainBegins \/ PushInserts \/ PushReturns \/ PushFails \/ ScriptEnds
  BY <1>1, <1>2, <1>4 DEF MainBegins, PushInserts, PushReturns, PushFails, ScriptEnds, Finish, runner
<1>5. CASE TimePasses \/ \E q \in Queues : CleanupDeletes(q)
  BY <1>1, <1>5 DEF TimePasses, CleanupDeletes, runner
<1>6. CASE ExecMaintain \/ \E q \in Queues : ExecDeleteQueue(q) \/ \E o \in QueueOptions : ExecCreateQueue(q, o)
  BY <1>1, <1>6, ExecuteLeft DEF ExecMaintain, ExecDeleteQueue, ExecCreateQueue
<1>7. CASE ExecFails \/ \E q \in Queues : ExecPush(q)
  BY <1>1, <1>2, <1>7, ExecuteLeft DEF ExecFails, ExecPush, Finish
<1>8. ASSUME NEW v \in Vars, ExecReport(v)
      PROVE  /\ Execute /\ UNCHANGED <<waiter, bound, pending, dest, named, spoiled>>
             /\ \/ UNCHANGED <<phase, outcome>>
                \/ phase' = "join" /\ outcome' = Failed
  BY <1>8 DEF ExecReport, Finish
<1>. QED BY <1>1, <1>2, <1>3, <1>4, <1>5, <1>6, <1>7, <1>8, ExecuteLeft DEF Quiet

-----------------------------------------------------------------------------
(***************************************************************************)
(* A step of a consumer.                                                   *)
(***************************************************************************)

Gets(c) == Commit(c) /\ got'[c] \in claim[c]

LEMMA ConsumeEffect ==
  ASSUME IInv, ScenarioTypeOK, WaitInv, NEW c \in Waiters, ConsumeWait(c) \/ ConsumeBreaks(c)
  PROVE  /\ UNCHANGED <<runner, from, within>> /\ deadline' \in [Waiters -> Nat]
         /\ Active(c) /\ at' \in [Waiters -> Fetching \cup {"idle", "loop", "wait", "done"}]
         /\ got' \in [Waiters -> JobIds \cup {Empty, Broken, NULL}]
         /\ \A d \in Waiters \ {c} : at'[d] = at[d] /\ got'[d] = got[d]
         /\ at'[c] \in Fetching \cup {"loop", "wait", "done"}
         /\ at'[c] \in {"first", "done"} \/ within[c] \in Nat
         /\ got'[c] = got[c] \/ got'[c] \in {Empty, Broken} \/ Gets(c)
         /\ at'[c] = "done" => got'[c] \in {Empty, Broken} \/ Gets(c)
<1>1. /\ at \in [Waiters -> Fetching \cup {"idle", "loop", "wait", "done"}]
      /\ within \in [Waiters -> Nat \cup {NULL}] /\ deadline \in [Waiters -> Nat]
      /\ got \in [Waiters -> JobIds \cup {Empty, Broken, NULL}]
      /\ clock \in Nat /\ MaxClock \in Nat
  BY BoundAssumption DEF ScenarioTypeOK, TypeOK
<1>2. Active(c) => at[c] = "first" \/ within[c] \in Nat
  BY DEF WaitInv
<1>3. Fetching = {"first", "second", "again"}
  BY DEF Fetching
<1>4. CASE ConsumeCalls(c) \/ ConsumeLocks(c)
  BY <1>1, <1>2, <1>3, <1>4 DEF ConsumeCalls, ConsumeLocks, waiter, Active
<1>5. CASE ConsumeGets(c)
  <2>1. /\ (CHOOSE j \in claim[c] : TRUE) \in claim[c] /\ claim[c] \subseteq JobIds
        /\ at[c] \in Fetching /\ Commit(c) /\ UNCHANGED <<runner, from, within, deadline>>
        /\ at' = [at EXCEPT ![c] = "done"]
        /\ got' = [got EXCEPT ![c] = CHOOSE j \in claim[c] : TRUE]
    BY <1>5, ScenarioAssumption DEF ConsumeGets, Return, IInv, TypeOK, Waiters
  <2>. QED BY <1>1, <1>3, <2>1 DEF Active, Gets
<1>6. CASE ConsumeMisses(c)
  <2>1. /\ at[c] \in Fetching /\ UNCHANGED <<runner, from, within>>
        /\ \/ /\ at' = [at EXCEPT ![c] = "done"] /\ got' = [got EXCEPT ![c] = Empty]
              /\ UNCHANGED deadline
           \/ /\ at[c] = "first" /\ within[c] # NULL
              /\ at' = [at EXCEPT ![c] = "second"] /\ UNCHANGED <<got, deadline>>
           \/ /\ at[c] = "second"
              /\ at' = [at EXCEPT ![c] = "loop"] /\ UNCHANGED got
              /\ deadline' = [deadline EXCEPT ![c] = Deadline(c)]
           \/ /\ at[c] = "again"
              /\ at' = [at EXCEPT ![c] = "loop"] /\ UNCHANGED <<got, deadline>>
    BY <1>6 DEF ConsumeMisses, Return
  <2>2. within[c] \in Nat => Deadline(c) \in Nat
    BY <1>1 DEF Deadline
  <2>. QED BY <1>1, <1>2, <1>3, <2>1, <2>2 DEF Active
<1>7. CASE ConsumeTimesOut(c) \/ ConsumeSleeps(c) \/ ConsumePolls(c)
  BY <1>1, <1>2, <1>3, <1>7
  DEF ConsumeTimesOut, ConsumeSleeps, ConsumePolls, Return, AfterPoll, Active
<1>8. CASE ConsumeBreaks(c)
  BY <1>1, <1>3, <1>8 DEF ConsumeBreaks, Return, Active
<1>. QED BY <1>4, <1>5, <1>6, <1>7, <1>8 DEF ConsumeWait
-----------------------------------------------------------------------------
(***************************************************************************)
(* Types, and who runs: what each step keeps.                              *)
(***************************************************************************)

Control == ScenarioTypeOK /\ JoinInv /\ WaitInv /\ OutcomeInv

LEMMA ControlTypes ==
  ASSUME Control
  PROVE  /\ phase \in {"setup", "run", "push", "consume", "join", "cleanup", "done"}
         /\ left \in 0 .. MaxSteps /\ dest \in Vars \cup {NULL} /\ named \subseteq Queues
         /\ spoiled \subseteq {"setup", "cleanup"} /\ outcome \in Codes \cup {NULL}
         /\ bound \in [Vars -> JobIds \cup {Empty, Unbound}]
         /\ pending \in [Vars -> Threads \cup {NULL}]
         /\ at \in [Waiters -> Fetching \cup {"idle", "loop", "wait", "done"}]
         /\ from \in [Waiters -> Queues \cup {NULL}]
         /\ within \in [Waiters -> Nat \cup {NULL}]
         /\ deadline \in [Waiters -> Nat]
         /\ got \in [Waiters -> JobIds \cup {Empty, Broken, NULL}]
BY DEF Control, ScenarioTypeOK

LEMMA QuietControl ==
  ASSUME Control, TypeOK', Quiet
  PROVE  Control'
<1>1. /\ UNCHANGED <<at, from, within, deadline, got, bound, pending, dest, named>>
      /\ left' \in 0 .. MaxSteps /\ spoiled' \subseteq {"setup", "cleanup"} /\ QuietMove
  BY QuietEffect DEF Control, waiter
<1>2. /\ phase' \in {"setup", "run", "push", "consume", "join", "cleanup", "done"}
      /\ outcome' \in Codes \cup {NULL}
  BY <1>1, ControlTypes DEF QuietMove
<1>3. ScenarioTypeOK'
  BY <1>1, <1>2, ControlTypes DEF ScenarioTypeOK
<1>4. JoinInv'
  BY <1>1 DEF Control, JoinInv, Active, QuietMove
<1>5. WaitInv' /\ OutcomeInv'
  BY <1>1 DEF Control, WaitInv, OutcomeInv, Active, QuietMove
<1>. QED BY <1>3, <1>4, <1>5 DEF Control

LEMMA ConsumerControl ==
  ASSUME IInv, Control, TypeOK', NEW c \in Waiters, ConsumeWait(c) \/ ConsumeBreaks(c)
  PROVE  Control'
<1>1. /\ UNCHANGED <<phase, left, bound, pending, dest, named, spoiled, outcome, from, within>>
      /\ deadline' \in [Waiters -> Nat]
      /\ Active(c) /\ at' \in [Waiters -> Fetching \cup {"idle", "loop", "wait", "done"}]
      /\ got' \in [Waiters -> JobIds \cup {Empty, Broken, NULL}]
      /\ \A d \in Waiters \ {c} : at'[d] = at[d] /\ got'[d] = got[d]
      /\ at'[c] # "idle"
      /\ at'[c] \in {"first", "done"} \/ within[c] \in Nat
      /\ at'[c] = "done" => got'[c] \in {Empty, Broken} \/ Gets(c)
  BY ConsumeEffect DEF Control, runner, Fetching
<1>2. at'[c] = "done" => got'[c] \in JobIds \cup {Empty, Broken}
  BY <1>1, ScenarioAssumption DEF Gets, IInv, TypeOK, Waiters
<1>3. ScenarioTypeOK'
  BY <1>1, ControlTypes DEF ScenarioTypeOK
<1>4. JoinInv'
  <2>1. /\ c \in Threads => \E v \in Vars : pending[v] = c
        /\ phase # "consume" => c # Main
        /\ pending \in [Vars -> Threads \cup {NULL}]
        /\ \A d \in Threads : d \in Waiters
        /\ Main \in Waiters
    BY <1>1, ControlTypes DEF Control, JoinInv, Active, Waiters
  <2>2. \A d \in Threads : Active(d)' => \E v \in Vars : pending'[v] = d
    BY <1>1, <2>1 DEF Control, JoinInv, Active
  <2>3. \A v \in Vars : pending'[v] # NULL => at'[pending'[v]] # "idle"
    BY <1>1, <2>1 DEF Control, JoinInv
  <2>4. phase' # "consume" => at'[Main] = "idle"
    BY <1>1, <2>1 DEF Control, JoinInv
  <2>. QED BY <1>1, <2>2, <2>3, <2>4 DEF Control, JoinInv
<1>5. WaitInv'
  BY <1>1, <1>2 DEF Control, WaitInv, Active
<1>6. OutcomeInv'
  BY <1>1 DEF Control, OutcomeInv
<1>. QED BY <1>3, <1>4, <1>5, <1>6 DEF Control

LEMMA ReturnsControl ==
  ASSUME Control, TypeOK', ConsumeReturns
  PROVE  Control'
<1>1. /\ phase = "consume" /\ at[Main] = "done" /\ dest \in Vars
      /\ \/ /\ got[Main] \in JobIds /\ bound' = [bound EXCEPT ![dest] = got[Main]]
            /\ phase' = "run" /\ UNCHANGED outcome
         \/ phase' = "join" /\ outcome' = Failed /\ UNCHANGED bound
      /\ dest' = NULL /\ at' = [at EXCEPT ![Main] = "idle"]
      /\ UNCHANGED <<left, pending, from, within, deadline, got, named, spoiled>>
      /\ Failed \in Codes /\ Main \in Waiters /\ Main \notin Threads
  BY ScenarioAssumption DEF ConsumeReturns, Finish, Control, JoinInv, Codes, Waiters
<1>2. /\ bound' \in [Vars -> JobIds \cup {Empty, Unbound}]
      /\ at' \in [Waiters -> Fetching \cup {"idle", "loop", "wait", "done"}]
      /\ at'[Main] = "idle" /\ \A c \in Waiters \ {Main} : at'[c] = at[c]
  BY <1>1, ControlTypes
<1>3. ScenarioTypeOK'
  BY <1>1, <1>2, ControlTypes DEF ScenarioTypeOK
<1>4. JoinInv'
  <2>1. \A v \in Vars : pending[v] # NULL => pending[v] \in Waiters \ {Main}
    BY <1>1, ControlTypes DEF Waiters
  <2>. QED BY <1>1, <1>2, <2>1 DEF Control, JoinInv, Active, Waiters
<1>5. WaitInv' /\ OutcomeInv'
  BY <1>1, <1>2 DEF Control, WaitInv, OutcomeInv, Active
<1>. QED BY <1>3, <1>4, <1>5 DEF Control

LEMMA StartEffect ==
  ASSUME Control, NEW c \in Waiters, NEW q \in Queues, NEW w \in Withins, Start(c, q, w)
  PROVE  /\ at' \in [Waiters -> Fetching \cup {"idle", "loop", "wait", "done"}]
         /\ from' \in [Waiters -> Queues \cup {NULL}]
         /\ within' \in [Waiters -> Nat \cup {NULL}]
         /\ deadline' = deadline
         /\ got' \in [Waiters -> JobIds \cup {Empty, Broken, NULL}]
         /\ at'[c] = "first" /\ from'[c] = q /\ got'[c] = NULL
         /\ \A d \in Waiters \ {c} : /\ at'[d] = at[d] /\ from'[d] = from[d]
                                     /\ within'[d] = within[d] /\ got'[d] = got[d]
BY ControlTypes, ScenarioAssumption DEF Start, Fetching

LEMMA ForegroundControl ==
  ASSUME Control, TypeOK', NEW q \in Queues, NEW v \in Vars, NEW w \in Withins, ExecConsume(q, v, w)
  PROVE  Control'
<1>1. /\ phase = "run" /\ phase' = "consume" /\ dest' = v /\ left' \in 0 .. MaxSteps
      /\ UNCHANGED <<bound, pending, named, spoiled, outcome>> /\ Start(Main, q, w) /\ q \in named
  BY ExecuteLeft, ControlTypes DEF ExecConsume, Execute, MayName, Collects
<1>2. Main \in Waiters /\ Main \notin Threads /\ Threads \subseteq Waiters
  BY ScenarioAssumption DEF Waiters
<1>3. ScenarioTypeOK'
  BY <1>1, <1>2, StartEffect, ControlTypes DEF ScenarioTypeOK
<1>4. JoinInv'
  <2>1. \A u \in Vars : pending[u] # NULL => pending[u] \in Waiters \ {Main}
    BY <1>2, ControlTypes
  <2>. QED BY <1>1, <1>2, <2>1, StartEffect DEF Control, JoinInv, Active
<1>5. WaitInv' /\ OutcomeInv'
  BY <1>1, <1>2, StartEffect DEF Control, WaitInv, OutcomeInv, Active
<1>. QED BY <1>3, <1>4, <1>5 DEF Control

LEMMA SpawnControl ==
  ASSUME Control, TypeOK', ~Respawn,
         NEW q \in Queues, NEW v \in Vars, NEW w \in Withins, ExecSpawn(q, v, w)
  PROVE  Control'
<1>1. PICK c \in Threads :
        /\ at[c] = "idle" /\ Start(c, q, w)
        /\ pending[v] = NULL /\ pending' = [pending EXCEPT ![v] = c]
  BY DEF ExecSpawn
<1>2. /\ phase = "run" /\ left' \in 0 .. MaxSteps
      /\ UNCHANGED <<phase, bound, dest, named, spoiled, outcome>> /\ q \in named
  BY ExecuteLeft, ControlTypes DEF ExecSpawn, Execute, MayName, Collects
<1>3. c \in Waiters /\ c # Main /\ c # NULL /\ Main \in Waiters /\ Threads \subseteq Waiters
  BY ScenarioAssumption, <1>1 DEF Waiters
<1>4. /\ pending' \in [Vars -> Threads \cup {NULL}] /\ pending'[v] = c
      /\ \A u \in Vars \ {v} : pending'[u] = pending[u]
  BY <1>1, ControlTypes
<1>5. ScenarioTypeOK'
  BY <1>1, <1>2, <1>3, <1>4, StartEffect, ControlTypes DEF ScenarioTypeOK
<1>6. JoinInv'
  <2>1. \A u \in Vars : pending[u] # NULL => pending[u] \in Waiters \ {c}
    BY <1>1, <1>3, ControlTypes DEF Control, JoinInv
  <2>2. \A d \in Threads : Active(d)' => \E u \in Vars : pending'[u] = d
    <3>. SUFFICES ASSUME NEW d \in Threads, Active(d)' PROVE \E u \in Vars : pending'[u] = d
      OBVIOUS
    <3>1. CASE d = c
      BY <1>4, <3>1
    <3>2. CASE d # c
      <4>1. PICK u \in Vars : pending[u] = d
        BY <1>1, <1>3, <3>2, StartEffect DEF Control, JoinInv, Active
      <4>. QED BY <1>1, <1>4, <4>1, ControlTypes, ScenarioAssumption
    <3>. QED BY <3>1, <3>2
  <2>3. \A u \in Vars : pending'[u] # NULL => at'[pending'[u]] # "idle"
    BY <1>1, <1>3, <1>4, <2>1, StartEffect DEF Control, JoinInv
  <2>4. \A t, u \in Vars : pending'[t] = pending'[u] /\ pending'[t] # NULL => t = u
    BY <1>3, <1>4, <2>1 DEF Control, JoinInv
  <2>. QED BY <1>1, <1>2, <1>3, <2>2, <2>3, <2>4, StartEffect DEF Control, JoinInv
<1>7. WaitInv' /\ OutcomeInv'
  BY <1>1, <1>2, <1>3, StartEffect DEF Control, WaitInv, OutcomeInv, Active
<1>. QED BY <1>5, <1>6, <1>7 DEF Control

LEMMA AwaitControl ==
  ASSUME Control, TypeOK', NEW v \in Vars, ExecAwait(v)
  PROVE  Control'
<1>1. /\ phase = "run" /\ left' \in 0 .. MaxSteps
      /\ UNCHANGED <<dest, named, spoiled, at, from, within, deadline, got>>
      /\ \/ /\ pending[v] = NULL /\ phase' = "join" /\ outcome' \in Codes
            /\ UNCHANGED <<bound, pending>>
         \/ /\ pending[v] # NULL /\ at[pending[v]] = "done"
            /\ pending' = [pending EXCEPT ![v] = NULL]
            /\ \/ /\ got[pending[v]] # Broken
                  /\ bound' = [bound EXCEPT ![v] = got[pending[v]]]
                  /\ UNCHANGED <<phase, outcome>>
               \/ phase' = "join" /\ outcome' \in Codes /\ UNCHANGED bound
  <2>1. Failed \in Codes
    BY DEF Codes
  <2>. QED BY <2>1, ExecuteLeft, ControlTypes DEF ExecAwait, Execute, Finish, waiter
<1>2. bound' \in [Vars -> JobIds \cup {Empty, Unbound}]
  <2>1. at[pending[v]] = "done" /\ pending[v] # NULL =>
          got[pending[v]] \in JobIds \cup {Empty, Broken}
    BY ControlTypes DEF Control, WaitInv, Waiters
  <2>. QED BY <1>1, <2>1, ControlTypes
<1>3. pending' \in [Vars -> Threads \cup {NULL}] /\ \A u \in Vars \ {v} : pending'[u] = pending[u]
  BY <1>1, ControlTypes
<1>4. ScenarioTypeOK'
  BY <1>1, <1>2, <1>3, ControlTypes DEF ScenarioTypeOK
<1>5. JoinInv'
  <2>1. pending'[v] = NULL /\ (pending[v] = NULL \/ at[pending[v]] = "done")
    BY <1>1, ControlTypes
  <2>2. \A d \in Threads : Active(d)' => \E u \in Vars : pending'[u] = d
    <3>. SUFFICES ASSUME NEW d \in Threads, Active(d) PROVE \E u \in Vars : pending'[u] = d
      BY <1>1 DEF Active
    <3>1. PICK u \in Vars : pending[u] = d
      BY DEF Control, JoinInv
    <3>2. u # v
      BY <2>1, <3>1, ScenarioAssumption DEF Active
    <3>. QED BY <1>3, <3>1, <3>2
  <2>3. \A u \in Vars : pending'[u] # NULL => at'[pending'[u]] # "idle"
    BY <1>1, <1>3, <2>1 DEF Control, JoinInv
  <2>4. \A t, u \in Vars : pending'[t] = pending'[u] /\ pending'[t] # NULL => t = u
    BY <1>3, <2>1 DEF Control, JoinInv
  <2>. QED BY <1>1, <2>2, <2>3, <2>4 DEF Control, JoinInv
<1>6. WaitInv' /\ OutcomeInv'
  BY <1>1 DEF Control, WaitInv, OutcomeInv, Active
<1>. QED BY <1>4, <1>5, <1>6 DEF Control

LEMMA JoinControl ==
  ASSUME Control, TypeOK', Join
  PROVE  Control'
<1>1. /\ phase = "join" /\ phase' = "cleanup"
      /\ \A v \in Vars : pending[v] # NULL => at[pending[v]] = "done"
      /\ pending' = [v \in Vars |-> NULL]
      /\ UNCHANGED <<left, bound, dest, named, spoiled, outcome, at, from, within, deadline, got>>
  BY DEF Join, JoinsAll, waiter
<1>2. ScenarioTypeOK'
  BY <1>1, ControlTypes DEF ScenarioTypeOK
<1>3. JoinInv'
  <2>1. \A d \in Threads : ~Active(d)
    BY <1>1, ScenarioAssumption DEF Control, JoinInv, Active
  <2>. QED BY <1>1, <2>1 DEF Control, JoinInv, Active
<1>4. WaitInv' /\ OutcomeInv'
  BY <1>1 DEF Control, WaitInv, OutcomeInv, Active
<1>. QED BY <1>2, <1>3, <1>4 DEF Control

LEMMA ScenarioControl ==
  ASSUME IInv, Control, TypeOK', ~Respawn, ScenarioNext
  PROVE  Control'
<1>1. Quiet => Control'
  BY QuietControl
<1>2. ASSUME NEW q \in Queues, NEW v \in Vars, NEW w \in Withins,
             ExecConsume(q, v, w) \/ ExecSpawn(q, v, w)
      PROVE  Control'
  BY <1>2, ForegroundControl, SpawnControl
<1>3. ASSUME MainStep
      PROVE  Control'
  BY <1>1, <1>2, <1>3, ReturnsControl, AwaitControl, JoinControl DEF MainStep, Quiet
<1>4. TimePasses => Control'
  BY <1>1 DEF Quiet
<1>. QED BY <1>3, <1>4, ConsumerControl DEF ScenarioNext

-----------------------------------------------------------------------------
(***************************************************************************)
(* Who holds which job.                                                    *)
(***************************************************************************)

\* What was retried stays retried.
LEMMA CountKept ==
  ASSUME IInv, [Next]_vars, NEW j \in Rows, job[j].retry_count >= 1, job'[j] # NULL
  PROVE  job'[j].retry_count >= 1
<1>1. j \in JobIds /\ j \in issued /\ job[j] \in JobRow
  BY RowFacts DEF IInv, IssuedInv, Rows
<1>2. job'[j] \in JobRow
  BY <1>1, NextInv DEF IInv, TypeOK
<1>3. job[j].retry_count \in Nat /\ job'[j].retry_count \in Nat
  BY <1>1, <1>2 DEF JobRow
<1>4. job'[j].retry_count >= job[j].retry_count
  BY <1>1, RetriesGrow DEF Kept
<1>. QED BY <1>3, <1>4

\* A job that moves from one place to another, or stays, is the same delivery.
LEMMA HoldTransfer ==
  ASSUME IInv, [Next]_vars, HoldInv, NEW f \in [Slots -> Slots],
         \A x \in Slots : Held(x)' \in JobIds => Held(f[x]) = Held(x)',
         \A x, y \in Slots : x # y /\ Held(x)' \in JobIds /\ Held(x)' = Held(y)' => f[x] # f[y]
  PROVE  HoldInv'
<1>1. \A x \in Slots : f[x] \in Slots
  OBVIOUS
<1>2. ASSUME NEW x \in Slots, Held(x)' \in JobIds
      PROVE  /\ deliveries'[Held(x)'] >= 1 /\ Held(x)' \in issued
  <2>1. Held(f[x]) = Held(x)' /\ deliveries[Held(x)'] >= 1
    BY <1>1, <1>2 DEF HoldInv
  <2>2. deliveries[Held(x)'] \in Nat /\ deliveries'[Held(x)'] \in Nat
    BY <1>2, NextInv DEF IInv, TypeOK
  <2>. QED BY <1>2, <2>1, <2>2, DeliveriesGrow DEF IInv, IssuedInv
<1>3. ASSUME NEW x \in Slots, NEW y \in Slots, x # y, Held(x)' = Held(y)', Held(x)' \in Rows'
      PROVE  job'[Held(x)'].retry_count >= 1
  <2>1. Held(x)' \in JobIds /\ job'[Held(x)'] # NULL
    BY <1>3 DEF Rows
  <2>2. Held(x)' \in Rows
    BY <1>2, <2>1, RetriesGrow DEF Kept
  <2>3. f[x] # f[y] /\ Held(f[x]) = Held(x)' /\ Held(f[y]) = Held(x)'
    BY <1>3, <2>1
  <2>4. job[Held(x)'].retry_count >= 1
    BY <1>1, <2>2, <2>3 DEF HoldInv
  <2>. QED BY <2>1, <2>2, <2>4, CountKept
<1>. QED BY <1>2, <1>3 DEF HoldInv

\* Nothing is held that was not held there before.
LEMMA HoldSame ==
  ASSUME IInv, [Next]_vars, HoldInv,
         \A x \in Slots : Held(x)' \in JobIds => Held(x)' = Held(x)
  PROVE  HoldInv'
<1>. DEFINE f == [x \in Slots |-> x]
<1>1. f \in [Slots -> Slots] /\ \A x \in Slots : f[x] = x
  OBVIOUS
<1>. HIDE DEF f
<1>. QED BY <1>1, HoldTransfer

LEMMA Places ==
  ASSUME NEW x \in Slots
  PROVE  \/ x[1] = "bound" /\ x[2] \in Vars /\ Held(x) = bound[x[2]] /\ Held(x)' = bound'[x[2]]
         \/ /\ x[1] = "pending" /\ x[2] \in Vars
            /\ Held(x) = IF pending[x[2]] # NULL /\ at[pending[x[2]]] = "done"
                         THEN got[pending[x[2]]] ELSE Unbound
            /\ Held(x)' = IF pending'[x[2]] # NULL /\ at'[pending'[x[2]]] = "done"
                          THEN got'[pending'[x[2]]] ELSE Unbound
         \/ /\ x[1] = "main" /\ x[2] = NULL
            /\ Held(x) = IF phase = "consume" /\ at[Main] = "done" THEN got[Main] ELSE Unbound
            /\ Held(x)' = IF phase' = "consume" /\ at'[Main] = "done" THEN got'[Main] ELSE Unbound
BY DEF Slots, Held

LEMMA QuietHold ==
  ASSUME IInv, [Next]_vars, HoldInv, Control, Quiet
  PROVE  HoldInv'
<1>1. UNCHANGED <<at, got, bound, pending>> /\ (phase' = "consume" <=> phase = "consume")
  BY QuietEffect DEF Control, waiter, QuietMove
<1>2. \A x \in Slots : Held(x)' = Held(x)
  BY <1>1, Places
<1>. QED BY <1>2, HoldSame

LEMMA ReturnsHold ==
  ASSUME IInv, [Next]_vars, HoldInv, Control, ConsumeReturns
  PROVE  HoldInv'
<1>1. PICK v \in Vars :
      /\ phase = "consume" /\ at[Main] = "done"
      /\ \/ bound' = [bound EXCEPT ![v] = got[Main]]
         \/ UNCHANGED bound
      /\ at' = [at EXCEPT ![Main] = "idle"] /\ UNCHANGED <<pending, got>>
      /\ phase' # "consume"
  BY DEF ConsumeReturns, Finish, Control, JoinInv
<1>2. /\ Main \in Waiters /\ Main \notin Threads /\ Threads \subseteq Waiters
      /\ Unbound \notin JobIds
  BY ScenarioAssumption DEF Waiters
<1>3. \A u \in Vars : pending[u] # NULL => at'[pending[u]] = at[pending[u]]
  BY <1>1, <1>2, ControlTypes
<1>4. CASE UNCHANGED bound
  <2>1. \A x \in Slots : Held(x)' \in JobIds => Held(x)' = Held(x)
    BY <1>1, <1>2, <1>3, <1>4, Places
  <2>. QED BY <2>1, HoldSame
<1>5. CASE bound' = [bound EXCEPT ![v] = got[Main]]
  <2>. DEFINE m == <<"main", NULL>>
              d == <<"bound", v>>
              f == [x \in Slots |-> IF x = d THEN m ELSE x]
  <2>1. m \in Slots /\ d \in Slots /\ m[1] = "main" /\ d[1] = "bound" /\ d[2] = v
    BY <1>1 DEF Slots
  <2>2. /\ f \in [Slots -> Slots] /\ f[d] = m
        /\ \A x \in Slots : x # d => f[x] = x
    BY <2>1
  <2>3. \A x \in Slots : x[1] = "bound" /\ x[2] = v => x = d
    BY DEF Slots
  <2>4. \A x \in Slots : x[1] = "main" => x = m
    BY DEF Slots
  <2>5. Held(d)' = got[Main] /\ Held(m) = got[Main] /\ Held(m)' = Unbound
    BY <1>1, <1>5, <2>1, ControlTypes DEF Held
  <2>. HIDE DEF m, d, f
  <2>6. \A x \in Slots \ {d, m} : Held(x)' = Held(x)
    BY <1>1, <1>3, <1>5, <2>3, <2>4, Places, ControlTypes
  <2>7. \A x \in Slots : Held(x)' \in JobIds => Held(f[x]) = Held(x)' /\ x # m
    BY <1>2, <2>2, <2>5, <2>6
  <2>8. \A x, y \in Slots :
          x # y /\ Held(x)' \in JobIds /\ Held(x)' = Held(y)' => f[x] # f[y]
    BY <2>2, <2>7
  <2>. QED BY <2>2, <2>7, <2>8, HoldTransfer
<1>. QED BY <1>1, <1>4, <1>5

LEMMA AwaitHold ==
  ASSUME IInv, [Next]_vars, HoldInv, Control, NEW v \in Vars, ExecAwait(v)
  PROVE  HoldInv'
<1>1. /\ phase = "run" /\ phase' \in {"run", "join"} /\ UNCHANGED <<at, got>>
      /\ \/ UNCHANGED <<bound, pending>>
         \/ /\ pending[v] # NULL /\ at[pending[v]] = "done"
            /\ pending' = [pending EXCEPT ![v] = NULL]
            /\ \/ bound' = [bound EXCEPT ![v] = got[pending[v]]]
               \/ UNCHANGED bound
  BY DEF ExecAwait, Execute, Finish, waiter
<1>2. Unbound \notin JobIds
  BY ScenarioAssumption
<1>3. CASE UNCHANGED bound
  <2>1. \A u \in Vars : pending'[u] \in {pending[u], NULL}
    BY <1>1, ControlTypes
  <2>2. \A x \in Slots : Held(x)' \in JobIds => Held(x)' = Held(x)
    BY <1>1, <1>2, <1>3, <2>1, Places
  <2>. QED BY <2>2, HoldSame
<1>4. CASE /\ pending[v] # NULL /\ at[pending[v]] = "done"
           /\ pending' = [pending EXCEPT ![v] = NULL]
           /\ bound' = [bound EXCEPT ![v] = got[pending[v]]]
  <2>. DEFINE p == <<"pending", v>>
              b == <<"bound", v>>
              f == [x \in Slots |-> IF x = b THEN p ELSE x]
  <2>1. p \in Slots /\ b \in Slots /\ p[1] = "pending" /\ p[2] = v /\ b[1] = "bound" /\ b[2] = v
    BY DEF Slots
  <2>2. /\ f \in [Slots -> Slots] /\ f[b] = p
        /\ \A x \in Slots : x # b => f[x] = x
    BY <2>1
  <2>3. \A x \in Slots : x[1] = "bound" /\ x[2] = v => x = b
    BY DEF Slots
  <2>4. \A x \in Slots : x[1] = "pending" /\ x[2] = v => x = p
    BY DEF Slots
  <2>5. Held(b)' = got[pending[v]] /\ Held(p) = got[pending[v]] /\ Held(p)' = Unbound
    BY <1>1, <1>4, <2>1, ControlTypes DEF Held
  <2>6. \A u \in Vars \ {v} : pending'[u] = pending[u] /\ bound'[u] = bound[u]
    BY <1>4, ControlTypes
  <2>. HIDE DEF p, b, f
  <2>7. \A x \in Slots \ {b, p} : Held(x)' = Held(x)
    BY <1>1, <2>3, <2>4, <2>6, Places
  <2>8. \A x \in Slots : Held(x)' \in JobIds => Held(f[x]) = Held(x)' /\ x # p
    BY <1>2, <2>2, <2>5, <2>7
  <2>9. \A x, y \in Slots :
          x # y /\ Held(x)' \in JobIds /\ Held(x)' = Held(y)' => f[x] # f[y]
    BY <2>2, <2>8
  <2>. QED BY <2>2, <2>8, <2>9, HoldTransfer
<1>. QED BY <1>1, <1>3, <1>4

LEMMA StartHold ==
  ASSUME IInv, [Next]_vars, HoldInv, Control, ~Respawn,
         NEW q \in Queues, NEW v \in Vars, NEW w \in Withins,
         ExecConsume(q, v, w) \/ ExecSpawn(q, v, w)
  PROVE  HoldInv'
<1>1. Main \in Waiters /\ Main \notin Threads /\ Threads \subseteq Waiters /\ Unbound \notin JobIds
  BY ScenarioAssumption DEF Waiters
<1>2. CASE ExecConsume(q, v, w)
  <2>1. UNCHANGED <<bound, pending>> /\ Start(Main, q, w) /\ phase' = "consume"
    BY <1>2 DEF ExecConsume
  <2>2. at'[Main] = "first" /\ \A c \in Threads : at'[c] = at[c] /\ got'[c] = got[c]
    BY <1>1, <2>1, StartEffect
  <2>3. \A x \in Slots : Held(x)' \in JobIds => Held(x)' = Held(x)
    BY <1>1, <2>1, <2>2, Places, ControlTypes
  <2>. QED BY <2>3, HoldSame
<1>3. CASE ExecSpawn(q, v, w)
  <2>1. PICK c \in Threads :
          at[c] = "idle" /\ Start(c, q, w) /\ pending' = [pending EXCEPT ![v] = c]
    BY <1>3 DEF ExecSpawn
  <2>2. UNCHANGED bound /\ phase' # "consume"
    BY <1>3 DEF ExecSpawn, Execute
  <2>3. at'[c] = "first" /\ \A d \in Threads \ {c} : at'[d] = at[d] /\ got'[d] = got[d]
    BY <1>1, <2>1, StartEffect
  <2>4. \A u \in Vars \ {v} : pending'[u] = pending[u] /\ pending[u] # c
    BY <1>1, <2>1, ControlTypes, ScenarioAssumption DEF Control, JoinInv
  <2>5. pending'[v] = c
    BY <2>1, ControlTypes
  <2>6. \A x \in Slots : Held(x)' \in JobIds => Held(x)' = Held(x)
    BY <1>1, <2>2, <2>3, <2>4, <2>5, Places, ControlTypes
  <2>. QED BY <2>6, HoldSame
<1>. QED BY <1>2, <1>3

LEMMA JoinHold ==
  ASSUME IInv, [Next]_vars, HoldInv, Join
  PROVE  HoldInv'
<1>1. /\ phase' # "consume" /\ UNCHANGED <<bound, at, got>>
      /\ pending' = [v \in Vars |-> NULL]
  BY DEF Join, JoinsAll, waiter
<1>2. \A x \in Slots : Held(x)' \in JobIds => Held(x)' = Held(x)
  BY <1>1, Places, ScenarioAssumption
<1>. QED BY <1>2, HoldSame

\* A thread is awaited by one variable at most.
LEMMA OnePlace ==
  ASSUME Control, NEW c \in Waiters, NEW x \in Slots, NEW y \in Slots,
         \/ x[1] = "pending" /\ pending[x[2]] = c /\ c # NULL
         \/ x[1] = "main" /\ c = Main,
         \/ y[1] = "pending" /\ pending[y[2]] = c /\ c # NULL
         \/ y[1] = "main" /\ c = Main
  PROVE  x = y
<1>1. \A v \in Vars : pending[v] \in Threads \cup {NULL}
  BY ControlTypes
<1>2. \A u, v \in Vars : pending[u] = pending[v] /\ pending[u] # NULL => u = v
  BY DEF Control, JoinInv
<1>3. CASE x[1] = "main" \/ y[1] = "main"
  BY <1>1, <1>3, ScenarioAssumption DEF Slots
<1>4. CASE x[1] = "pending" /\ y[1] = "pending"
  <2>1. x[2] \in Vars /\ y[2] \in Vars /\ x = <<x[1], x[2]>> /\ y = <<y[1], y[2]>>
    BY <1>4 DEF Slots
  <2>. QED BY <1>2, <1>4, <2>1
<1>. QED BY <1>3, <1>4

LEMMA ConsumerHold ==
  ASSUME IInv, [Next]_vars, HoldInv, Control, NEW c \in Waiters, ConsumeWait(c) \/ ConsumeBreaks(c)
  PROVE  HoldInv'
<1>1. /\ UNCHANGED <<phase, bound, pending>> /\ Active(c)
      /\ \A d \in Waiters \ {c} : at'[d] = at[d] /\ got'[d] = got[d]
      /\ at'[c] = "done" => got'[c] \in {Empty, Broken} \/ Gets(c)
  BY ConsumeEffect DEF Control, runner
<1>2. /\ Main \in Waiters /\ Threads \subseteq Waiters
      /\ {Unbound, Empty, Broken} \cap JobIds = {}
      /\ \A v \in Vars : pending[v] # NULL => pending[v] \in Waiters
  BY ScenarioAssumption, ControlTypes DEF Waiters
<1>. DEFINE Of(x) ==
       \/ x[1] = "pending" /\ pending[x[2]] = c /\ c # NULL
       \/ x[1] = "main" /\ c = Main
<1>3. ASSUME NEW x \in Slots, Held(x)' \in JobIds, Held(x)' # Held(x)
      PROVE  Of(x) /\ Held(x)' = got'[c] /\ Gets(c)
  <2>1. x[1] # "bound"
    BY <1>1, <1>3, Places
  <2>2. CASE x[1] = "pending"
    <3>1. /\ x[2] \in Vars /\ pending'[x[2]] = pending[x[2]]
          /\ Held(x) = IF pending[x[2]] # NULL /\ at[pending[x[2]]] = "done"
                       THEN got[pending[x[2]]] ELSE Unbound
          /\ Held(x)' = IF pending'[x[2]] # NULL /\ at'[pending'[x[2]]] = "done"
                        THEN got'[pending'[x[2]]] ELSE Unbound
      BY <1>1, <2>2, Places
    <3>2. pending[x[2]] # NULL /\ at'[pending[x[2]]] = "done" /\ Held(x)' = got'[pending[x[2]]]
      BY <1>2, <1>3, <3>1
    <3>3. pending[x[2]] = c
      BY <1>1, <1>2, <1>3, <3>1, <3>2
    <3>. QED BY <1>1, <1>2, <1>3, <2>2, <3>2, <3>3
  <2>3. CASE x[1] = "main"
    <3>1. /\ phase' = "consume" /\ at'[Main] = "done" /\ Held(x)' = got'[Main]
          /\ phase = "consume" /\ at[Main] = "done" => Held(x) = got[Main]
      BY <1>1, <1>2, <1>3, <2>3, Places
    <3>2. Main = c
      BY <1>1, <1>2, <1>3, <3>1
    <3>. QED BY <1>1, <1>2, <1>3, <2>3, <3>1, <3>2
  <2>. QED BY <2>1, <2>2, <2>3, Places
<1>4. CASE ~Gets(c)
  <2>1. \A x \in Slots : Held(x)' \in JobIds => Held(x)' = Held(x)
    BY <1>3, <1>4
  <2>. QED BY <2>1, HoldSame
<1>5. CASE Gets(c)
  <2>. DEFINE j == got'[c]
  <2>1. /\ j \in claim[c] /\ claim[c] \subseteq JobIds /\ c \in Sessions
        /\ j \in Rows /\ job[j].state \in Waiting /\ deliveries[j] \in Nat
        /\ deliveries'[j] = deliveries[j] + 1
    BY <1>5, ScenarioAssumption
    DEF Gets, Commit, Waiters, IInv, TypeOK, RowLocksExclusive, IsIn
  <2>2. deliveries[j] >= 1 => job[j].retry_count >= 1
    <3>1. deliveries[j] = job[j].retry_count
      <4>1. job[j].retry_count \in Nat
        BY <2>1, RowFacts DEF JobRow
      <4>. QED BY <2>1, <4>1, RowFacts DEF RowSound
    <3>. QED BY <3>1
  <2>. HIDE DEF j
  <2>3. \A x \in Slots : Held(x)' \in JobIds => Held(x)' = Held(x) \/ (Of(x) /\ Held(x)' = j)
    BY <1>3 DEF j
  <2>4. \A x \in Slots : Held(x)' \in JobIds => deliveries'[Held(x)'] >= 1
    <3>. SUFFICES ASSUME NEW x \in Slots, Held(x)' \in JobIds PROVE deliveries'[Held(x)'] >= 1
      OBVIOUS
    <3>1. CASE Held(x)' = j
      BY <2>1, <3>1
    <3>2. CASE Held(x)' = Held(x)
      <4>1. deliveries[Held(x)'] >= 1
        BY <3>2 DEF HoldInv
      <4>2. deliveries[Held(x)'] \in Nat /\ deliveries'[Held(x)'] \in Nat
        BY NextInv DEF IInv, TypeOK
      <4>. QED BY <4>1, <4>2, DeliveriesGrow
    <3>. QED BY <2>3, <3>1, <3>2
  <2>5. ASSUME NEW x \in Slots, NEW y \in Slots, x # y, Held(x)' = Held(y)', Held(x)' \in Rows'
        PROVE  job'[Held(x)'].retry_count >= 1
    <3>1. Held(x)' \in JobIds /\ job'[Held(x)'] # NULL
      BY <2>5 DEF Rows
    <3>2. CASE Held(x)' = Held(x) /\ Held(y)' = Held(y)
      <4>1. Held(x)' \in Rows
        <5>1. deliveries[Held(x)'] >= 1
          BY <3>1, <3>2 DEF HoldInv
        <5>2. Held(x)' \in issued
          BY <3>1, <5>1 DEF IInv, IssuedInv
        <5>. QED BY <3>1, <5>2, RetriesGrow DEF Kept
      <4>2. job[Held(x)'].retry_count >= 1
        BY <2>5, <3>2, <4>1 DEF HoldInv
      <4>. QED BY <3>1, <4>1, <4>2, CountKept
    <3>3. ASSUME NEW z \in Slots, Held(z)' = j, Held(z) = j, Held(x)' = j
          PROVE  job'[Held(x)'].retry_count >= 1
      <4>1. deliveries[j] >= 1
        BY <3>1, <3>3 DEF HoldInv
      <4>. QED BY <2>1, <2>2, <3>1, <3>3, <4>1, CountKept
    <3>4. ~(Of(x) /\ Of(y))
      BY <2>5, OnePlace
    <3>. QED BY <2>3, <2>5, <3>1, <3>2, <3>3, <3>4
  <2>. QED BY <2>4, <2>5 DEF HoldInv
<1>. QED BY <1>4, <1>5

LEMMA ScenarioHold ==
  ASSUME IInv, [Next]_vars, HoldInv, Control, ~Respawn, ScenarioNext
  PROVE  HoldInv'
<1>1. Quiet => HoldInv'
  BY QuietHold
<1>2. ASSUME NEW q \in Queues, NEW v \in Vars, NEW w \in Withins,
             ExecConsume(q, v, w) \/ ExecSpawn(q, v, w)
      PROVE  HoldInv'
  BY <1>2, StartHold
<1>3. ASSUME MainStep
      PROVE  HoldInv'
  BY <1>1, <1>2, <1>3, ReturnsHold, AwaitHold, JoinHold DEF MainStep, Quiet
<1>4. TimePasses => HoldInv'
  BY <1>1 DEF Quiet
<1>. QED BY <1>3, <1>4, ConsumerHold DEF ScenarioNext

-----------------------------------------------------------------------------
(***************************************************************************)
(* What a scenario leaves, and what it finds.                              *)
(***************************************************************************)

LEMMA SpoiledGrows ==
  ASSUME IInv, Control, ScenarioNext
  PROVE  spoiled \subseteq spoiled' /\ named' = named
<1>1. Quiet => spoiled \subseteq spoiled' /\ named' = named
  BY QuietEffect DEF Control
<1>2. ASSUME NEW c \in Waiters, ConsumeWait(c) \/ ConsumeBreaks(c)
      PROVE  spoiled' = spoiled /\ named' = named
  BY <1>2, ConsumeEffect DEF Control, runner
<1>3. ASSUME NEW q, NEW v, NEW w, ExecConsume(q, v, w) \/ ExecSpawn(q, v, w)
      PROVE  spoiled' = spoiled /\ named' = named
  BY <1>3 DEF ExecConsume, ExecSpawn
<1>4. ASSUME NEW v, ExecAwait(v)
      PROVE  spoiled' = spoiled /\ named' = named
  BY <1>4 DEF ExecAwait
<1>5. ConsumeReturns \/ Join => spoiled' = spoiled /\ named' = named
  BY DEF ConsumeReturns, Join
<1>. QED BY <1>1, <1>2, <1>3, <1>4, <1>5 DEF ScenarioNext, MainStep, Quiet

\* The first cleanup and the last: how a phase ends.
LEMMA PhaseEnds ==
  ASSUME IInv, Control, ScenarioNext
  PROVE  /\ phase = "setup" /\ phase' # "setup" => CleanupEnds
         /\ phase # "setup" => phase' # "setup"
         /\ phase # "done" /\ phase' = "done" => CleanupEnds
<1>1. CASE CleanupEnds
  BY <1>1 DEF CleanupEnds
<1>2. CASE CleanupFails \/ MainBegins \/ ExecMaintain \/ PushInserts \/ PushReturns \/ PushFails
           \/ ConsumeReturns \/ ExecFails \/ ScriptEnds \/ Join \/ TimePasses
  BY <1>2 DEF CleanupFails, MainBegins, ExecMaintain, PushInserts, PushReturns, PushFails,
              ConsumeReturns, ExecFails, ScriptEnds, Join, TimePasses, Execute, Finish, runner
<1>3. ASSUME NEW c \in Waiters, ConsumeWait(c) \/ ConsumeBreaks(c)
      PROVE  phase' = phase
  BY <1>3, ConsumeEffect DEF Control, runner
<1>4. ASSUME NEW q \in Queues,
             \/ CleanupDeletes(q)
             \/ ExecDeleteQueue(q) \/ \E o \in QueueOptions : ExecCreateQueue(q, o)
      PROVE  phase' = phase
  BY <1>4 DEF CleanupDeletes, ExecDeleteQueue, ExecCreateQueue, runner
<1>5. ASSUME NEW q \in Queues,
             ExecPush(q) \/ \E v \in Vars, w \in Withins : ExecConsume(q, v, w) \/ ExecSpawn(q, v, w)
      PROVE  phase = "run" /\ phase' \in {"run", "push", "join", "consume"}
  BY <1>5 DEF ExecPush, ExecConsume, ExecSpawn, Execute, Finish
<1>6. ASSUME NEW v \in Vars, ExecReport(v) \/ ExecAwait(v)
      PROVE  phase = "run" /\ phase' \in {"run", "join"}
  BY <1>6 DEF ExecReport, ExecAwait, Execute, Finish
<1>. QED BY <1>1, <1>2, <1>3, <1>4, <1>5, <1>6 DEF ScenarioNext, MainStep

\* A cleanup in which nothing failed leaves no row of a queue it tried, by the
\* foreign key.
LEMMA CleanupCleans ==
  ASSUME IInv, CleanupEnds, phase \notin spoiled
  PROVE  /\ \A q \in named : queue[q] = NULL
         /\ \A j \in Rows : job[j].name \notin named
         /\ UNCHANGED <<queue, job, bound, got, named>>
<1>1. \A q \in named : queue[q] = NULL
  BY DEF CleanupEnds, CleanedUp
<1>2. \A j \in Rows : queue[job[j].name] # NULL
  BY DEF IInv, NoOrphans
<1>. QED BY <1>1, <1>2 DEF CleanupEnds, vars, tables, waiter

\* Once a scenario is over only time passes.
LEMMA DoneIsQuiet ==
  ASSUME Control, ScenarioNext, phase = "done"
  PROVE  UNCHANGED <<queue, job, phase, spoiled, named>>
<1>1. ~MainStep
  BY DEF MainStep, CleanupFails, CleanupEnds, MainBegins, ExecMaintain, PushInserts, PushReturns,
         PushFails, ConsumeReturns, ExecFails, ScriptEnds, Join, CleanupDeletes, ExecCreateQueue,
         ExecDeleteQueue, ExecPush, ExecConsume, ExecSpawn, ExecReport, ExecAwait, Execute
<1>2. ASSUME NEW c \in Waiters, ConsumeWait(c) \/ ConsumeBreaks(c)
      PROVE  FALSE
  <2>1. Active(c)
    BY <1>2 DEF ConsumeWait, ConsumeCalls, ConsumeLocks, ConsumeGets, ConsumeMisses, ConsumeTimesOut,
                ConsumeSleeps, ConsumePolls, ConsumeBreaks, Fetching, Active
  <2>2. c \in Threads
    BY <2>1 DEF Waiters, Control, JoinInv, Active
  <2>. QED BY <2>1, <2>2, ScenarioAssumption DEF Control, JoinInv
<1>3. CASE TimePasses
  BY <1>3 DEF TimePasses, Tick, tables, runner
<1>. QED BY <1>1, <1>2, <1>3 DEF ScenarioNext

LEMMA ScenarioClean ==
  ASSUME IInv, Control, CleanInv, ScenarioNext
  PROVE  CleanInv'
<1>1. CASE phase = "done"
  BY <1>1, DoneIsQuiet DEF CleanInv
<1>2. CASE CleanupEnds /\ phase' = "done" /\ "cleanup" \notin spoiled'
  <2>1. phase = "cleanup" /\ phase \notin spoiled
    BY <1>2 DEF CleanupEnds
  <2>. QED BY <1>2, <2>1, CleanupCleans DEF CleanInv
<1>. QED BY <1>1, <1>2, PhaseEnds DEF CleanInv

\* What a step makes it makes in a queue that the script names, and what it is about to.
Made ==
  /\ \A q \in Queues : queue'[q] # NULL => queue[q] # NULL \/ q \in named
  /\ \A j \in issued' \ issued : job'[j].name \in named

LEMMA ConsumerMakes ==
  ASSUME IInv, Control, DraftInv, NEW c \in Waiters, ConsumeWait(c) \/ ConsumeBreaks(c)
  PROVE  Made /\ DraftInv'
<1>1. UNCHANGED <<queue, issued>>
  BY DEF ConsumeWait, ConsumeCalls, ConsumeLocks, ConsumeGets, ConsumeMisses, ConsumeTimesOut,
         ConsumeSleeps, ConsumePolls, ConsumeBreaks, Begin, FetchLock, Commit, Rollback, vars, tables
<1>2. draft'[Main] \in {draft[Main], NULL}
  <2>1. draft \in [Sessions -> Draft \cup {NULL}] /\ Main \in Sessions
    BY ScenarioAssumption DEF IInv, TypeOK
  <2>. QED BY <2>1
       DEF ConsumeWait, ConsumeCalls, ConsumeLocks, ConsumeGets, ConsumeMisses, ConsumeTimesOut,
           ConsumeSleeps, ConsumePolls, ConsumeBreaks, Begin, FetchLock, Commit, Rollback, End, vars, tables
<1>3. UNCHANGED <<phase, named>>
  BY ConsumeEffect DEF Control, runner
<1>. QED BY <1>1, <1>2, <1>3 DEF Made, DraftInv

LEMMA MainMakes ==
  ASSUME IInv, Control, DraftInv, MainStep \/ TimePasses
  PROVE  Made /\ DraftInv'
<1>1. /\ draft \in [Sessions -> Draft \cup {NULL}] /\ Main \in Sessions
      /\ queue \in [Queues -> QueueRow \cup {NULL}] /\ job \in [JobIds -> JobRow \cup {NULL}]
  BY ScenarioAssumption DEF IInv, TypeOK
<1>2. phase \in {"run", "setup", "join", "cleanup", "consume"} => draft[Main] = NULL
  BY DEF DraftInv
<1>3. ASSUME UNCHANGED vars, UNCHANGED named, phase \in {"run", "setup", "join", "cleanup", "consume"}
      PROVE  Made /\ DraftInv'
  BY <1>2, <1>3 DEF Made, DraftInv, vars, tables
<1>4. CASE CleanupFails \/ CleanupEnds \/ ConsumeReturns \/ ExecFails \/ ScriptEnds \/ Join
  BY <1>3, <1>4 DEF CleanupFails, CleanupEnds, ConsumeReturns, ExecFails, ScriptEnds, Join, Execute
<1>5. ASSUME NEW v \in Vars, ExecAwait(v)
      PROVE  Made /\ DraftInv'
  BY <1>3, <1>5 DEF ExecAwait, Execute
<1>6. ASSUME NEW q \in Queues, NEW v \in Vars, NEW w \in Withins, ExecConsume(q, v, w) \/ ExecSpawn(q, v, w)
      PROVE  Made /\ DraftInv'
  BY <1>3, <1>6 DEF ExecConsume, ExecSpawn, Execute
<1>7. CASE MainBegins \/ TimePasses
  BY <1>7 DEF MainBegins, TimePasses, Begin, Tick, Made, DraftInv, runner, tables
<1>8. ASSUME NEW s \in Sessions, End(s), UNCHANGED <<queue, issued, named>>, s = Main
      PROVE  Made /\ DraftInv'
  BY <1>1, <1>8 DEF End, Made, DraftInv
<1>9. CASE ExecMaintain \/ PushReturns \/ PushFails
  BY <1>1, <1>8, <1>9 DEF ExecMaintain, PushReturns, PushFails, Maintain, Commit, Rollback
<1>10. ASSUME NEW v \in Vars, ExecReport(v)
       PROVE  Made /\ DraftInv'
  BY <1>1, <1>8, <1>10 DEF ExecReport, Complete, Fail, Rollback
<1>11. CASE PushInserts
  <2>1. PICK o \in SendOptions, j \in JobIds \ issued :
          /\ draft[Main] # NULL /\ issued' = issued \cup {j}
          /\ job' = [job EXCEPT ![j] = NewJob(draft[Main].name, draft[Main].defaults, o, began[Main])]
          /\ draft' = [draft EXCEPT ![Main] = NULL] /\ UNCHANGED queue
    BY <1>11 DEF PushInserts, SendInsert
  <2>2. job'[j].name = draft[Main].name
    BY <1>1, <2>1 DEF NewJob
  <2>. QED BY <1>1, <2>1, <2>2 DEF Made, DraftInv
<1>12. ASSUME NEW q \in Queues, CleanupDeletes(q) \/ ExecDeleteQueue(q)
       PROVE  Made /\ DraftInv'
  BY <1>1, <1>12 DEF CleanupDeletes, ExecDeleteQueue, DeleteQueue, Made, DraftInv, runner
<1>13. ASSUME NEW q \in Queues, NEW o \in QueueOptions, ExecCreateQueue(q, o)
       PROVE  Made /\ DraftInv'
  BY <1>1, <1>13 DEF ExecCreateQueue, MayName, Collects, CreateQueue, Made, DraftInv
<1>14. ASSUME NEW q \in Queues, ExecPush(q)
       PROVE  Made /\ DraftInv'
  <2>1. q \in named /\ UNCHANGED <<queue, issued, named>>
    BY <1>14 DEF ExecPush, MayName, Collects, SendRead, Rollback, tables
  <2>2. CASE Rollback(Main)
    BY <1>1, <1>8, <2>1, <2>2 DEF Rollback
  <2>3. CASE SendRead(Main, q) /\ phase' = "push"
    <3>1. draft'[Main].name = q
      BY <1>1, <2>3 DEF SendRead
    <3>. QED BY <2>1, <2>3, <3>1 DEF Made, DraftInv
  <2>. QED BY <1>14, <2>2, <2>3 DEF ExecPush
<1>. QED BY <1>4, <1>5, <1>6, <1>7, <1>9, <1>10, <1>11, <1>12, <1>13, <1>14 DEF MainStep

LEMMA ScenarioMakes ==
  ASSUME IInv, Control, DraftInv, ScenarioNext
  PROVE  Made /\ DraftInv'
BY ConsumerMakes, MainMakes DEF ScenarioNext

\* The locks that a step of somebody else leaves to a consumer.
LEMMA QuietClaims ==
  ASSUME IInv, Control, Quiet, NEW c \in Waiters
  PROVE  claim'[c] \subseteq claim[c]
<1>1. claim \in [Sessions -> SUBSET JobIds] /\ c \in Sessions /\ Main \in Sessions
  BY ScenarioAssumption DEF IInv, TypeOK, Waiters
<1>2. CASE UNCHANGED claim
  BY <1>2
<1>3. CASE claim' = [claim EXCEPT ![Main] = {}]
  BY <1>1, <1>3
<1>4. CASE CleanupFails \/ CleanupEnds \/ MainBegins \/ PushInserts \/ ExecFails \/ ScriptEnds \/ TimePasses
  BY <1>2, <1>4 DEF CleanupFails, CleanupEnds, MainBegins, PushInserts, ExecFails, ScriptEnds,
                    TimePasses, Begin, SendInsert, Tick, vars
<1>5. CASE ExecMaintain \/ PushReturns \/ PushFails
  BY <1>3, <1>5 DEF ExecMaintain, PushReturns, PushFails, Maintain, Commit, Rollback, End
<1>6. ASSUME NEW q \in Queues, \/ CleanupDeletes(q) \/ ExecDeleteQueue(q) \/ ExecPush(q)
                               \/ \E o \in QueueOptions : ExecCreateQueue(q, o)
      PROVE  claim'[c] \subseteq claim[c]
  BY <1>2, <1>3, <1>6 DEF CleanupDeletes, ExecDeleteQueue, ExecPush, ExecCreateQueue,
                          DeleteQueue, CreateQueue, SendRead, Rollback, End
<1>7. ASSUME NEW v \in Vars, ExecReport(v)
      PROVE  claim'[c] \subseteq claim[c]
  BY <1>3, <1>7 DEF ExecReport, Complete, Fail, Rollback, End
<1>. QED BY <1>4, <1>5, <1>6, <1>7 DEF Quiet

LEMMA ConsumerClaims ==
  ASSUME IInv, Control, ClaimInv, NEW d \in Waiters, ConsumeWait(d) \/ ConsumeBreaks(d)
  PROVE  /\ \A c \in Waiters \ {d} : claim'[c] = claim[c]
         /\ \/ claim'[d] = {}
            \/ /\ at[d] \in Fetching /\ at'[d] = at[d]
               /\ \A j \in claim'[d] : job[j].name = from[d] /\ job'[j] = job[j]
<1>1. claim \in [Sessions -> SUBSET JobIds] /\ Waiters \subseteq Sessions
  BY ScenarioAssumption DEF IInv, TypeOK, Waiters
<1>2. at[d] \notin Fetching => claim[d] = {}
  BY DEF ClaimInv
<1>3. CASE End(d)
  BY <1>1, <1>3 DEF End
<1>4. CASE ConsumeCalls(d)
  BY <1>4 DEF ConsumeCalls, Begin, ClaimInv, waiter, tables
<1>5. CASE ConsumeLocks(d)
  <2>1. PICK j \in Claimable(from[d], began[d]) : claim' = [claim EXCEPT ![d] = @ \cup {j}]
    BY <1>5 DEF ConsumeLocks, FetchLock
  <2>2. /\ at[d] \in Fetching /\ at' = at /\ job' = job
        /\ \A i \in claim[d] : job[i].name = from[d]
    BY <1>5 DEF ConsumeLocks, FetchLock, tables, waiter
  <2>3. job[j].name = from[d]
    BY DEF Claimable, Ready
  <2>. QED BY <1>1, <2>1, <2>2, <2>3
<1>6. CASE ConsumeTimesOut(d) \/ ConsumeSleeps(d) \/ ConsumePolls(d)
  <2>1. at[d] \in {"loop", "wait"} /\ UNCHANGED claim
    BY <1>6 DEF ConsumeTimesOut, ConsumeSleeps, ConsumePolls, vars
  <2>. QED BY <1>2, <2>1 DEF Fetching
<1>7. CASE began[d] = NULL /\ UNCHANGED vars
  <2>1. claim[d] = {}
    BY <1>1, <1>7 DEF IInv, RowLocksExclusive
  <2>. QED BY <1>7, <2>1 DEF vars
<1>8. CASE ConsumeGets(d) \/ ConsumeMisses(d) \/ ConsumeBreaks(d)
  BY <1>3, <1>7, <1>8 DEF ConsumeGets, ConsumeMisses, ConsumeBreaks, Commit, Rollback
<1>. QED BY <1>4, <1>5, <1>6, <1>8 DEF ConsumeWait

\* Locks that stay are on rows that stay in their queue.
LEMMA ClaimKept ==
  ASSUME IInv, [Next]_vars, ClaimInv, NEW c \in Waiters, claim'[c] \subseteq claim[c], claim'[c] # {},
         at'[c] = at[c], from'[c] = from[c]
  PROVE  at'[c] \in Fetching /\ \A j \in claim'[c] : job'[j].name = from'[c]
<1>1. c \in Sessions /\ IInv'
  BY NextInv, ScenarioAssumption DEF Waiters
<1>2. ASSUME NEW j \in claim'[c]
      PROVE  job'[j].name = from'[c]
  <2>1. job'[j] # NULL /\ j \in JobIds
    BY <1>1 DEF IInv, RowLocksExclusive, IsIn, Rows
  <2>2. j \in issued /\ job[j].name = from[c]
    BY <1>1, <2>1 DEF IInv, RowLocksExclusive, IsIn, Rows, IssuedInv, ClaimInv
  <2>. QED BY <2>1, <2>2, RetriesGrow DEF Kept
<1>. QED BY <1>2 DEF ClaimInv

LEMMA ScenarioClaims ==
  ASSUME IInv, [Next]_vars, Control, ClaimInv, ScenarioNext
  PROVE  ClaimInv'
<1>. SUFFICES ASSUME NEW c \in Waiters, claim'[c] # {}
              PROVE  at'[c] \in Fetching /\ \A j \in claim'[c] : job'[j].name = from'[c]
  BY DEF ClaimInv
<1>1. CASE Quiet
  BY <1>1, QuietClaims, QuietEffect, ClaimKept DEF Control, waiter
<1>2. ASSUME NEW d \in Waiters, ConsumeWait(d) \/ ConsumeBreaks(d)
      PROVE  at'[c] \in Fetching /\ \A j \in claim'[c] : job'[j].name = from'[c]
  <2>1. from' = from /\ \A b \in Waiters \ {d} : at'[b] = at[b]
    BY <1>2, ConsumeEffect DEF Control
  <2>2. CASE c = d
    BY <1>2, <2>1, <2>2, ConsumerClaims
  <2>3. CASE c # d
    <3>1. claim'[c] = claim[c]
      BY <1>2, <2>3, ConsumerClaims
    <3>. QED BY <2>1, <2>3, <3>1, ClaimKept
  <2>. QED BY <2>2, <2>3
<1>3. ASSUME NEW d \in Waiters, at[d] \notin Fetching, UNCHANGED <<job, claim>>,
             c # d => UNCHANGED <<at[c], from[c]>>
      PROVE  at'[c] \in Fetching /\ \A j \in claim'[c] : job'[j].name = from'[c]
  BY <1>3 DEF ClaimInv
<1>4. CASE ConsumeReturns
  <2>1. /\ at[Main] = "done" /\ UNCHANGED <<job, claim, from>>
        /\ at' = [at EXCEPT ![Main] = "idle"] /\ Main \in Waiters
    BY <1>4 DEF ConsumeReturns, vars, tables, Waiters
  <2>. QED BY <1>3, <2>1, ControlTypes DEF Fetching
<1>5. ASSUME NEW q \in Queues, NEW v \in Vars, NEW w \in Withins, NEW d \in Waiters, Start(d, q, w),
             at[d] = "idle", UNCHANGED vars
      PROVE  at'[c] \in Fetching /\ \A j \in claim'[c] : job'[j].name = from'[c]
  BY <1>3, <1>5, StartEffect DEF Fetching, vars, tables
<1>6. ASSUME NEW q \in Queues, NEW v \in Vars, NEW w \in Withins, ExecConsume(q, v, w)
      PROVE  at'[c] \in Fetching /\ \A j \in claim'[c] : job'[j].name = from'[c]
  <2>1. Main \in Waiters /\ at[Main] = "idle"
    BY <1>6 DEF ExecConsume, Execute, Waiters, Control, JoinInv
  <2>. QED BY <1>5, <1>6, <2>1 DEF ExecConsume
<1>7. ASSUME NEW q \in Queues, NEW v \in Vars, NEW w \in Withins, ExecSpawn(q, v, w)
      PROVE  at'[c] \in Fetching /\ \A j \in claim'[c] : job'[j].name = from'[c]
  BY <1>5, <1>7 DEF ExecSpawn, Waiters
<1>8. ASSUME UNCHANGED <<vars, waiter>>
      PROVE  at'[c] \in Fetching /\ \A j \in claim'[c] : job'[j].name = from'[c]
  BY <1>8 DEF ClaimInv, vars, tables, waiter
<1>9. CASE Join \/ \E v \in Vars : ExecAwait(v)
  BY <1>8, <1>9 DEF Join, ExecAwait
<1>. QED BY <1>1, <1>2, <1>4, <1>6, <1>7, <1>9 DEF ScenarioNext, MainStep, Quiet

LEMMA ScenarioMade ==
  ASSUME IInv, IInv', [Next]_vars, Made, named' = named, MadeInv, ScenarioStep
  PROVE  MadeInv'
<1>1. running /\ UNCHANGED <<running, earlier, standing>>
  BY DEF ScenarioStep, suite
<1>2. \A q \in Queues : queue'[q] # NULL => q \in standing \cup named
  BY <1>1 DEF Made, MadeInv
<1>3. ASSUME NEW j \in Rows' \ earlier
      PROVE  job'[j].name \in named
  <2>1. j \in JobIds /\ job'[j] # NULL /\ j \in issued'
    BY DEF Rows, IInv, IssuedInv
  <2>2. CASE j \in issued
    <3>1. Kept(j)
      BY <2>1, <2>2, RetriesGrow
    <3>. QED BY <1>1, <3>1 DEF Kept, MadeInv
  <2>. QED BY <2>1, <2>2 DEF Made
<1>. QED BY <1>1, <1>2, <1>3 DEF MadeInv

\* Rows come from uuids that were not drawn before.
LEMMA ScenarioOwn ==
  ASSUME IInv, [Next]_vars, Control, ClaimInv, SuiteTypeOK, OwnInv, running, ~Respawn, ScenarioStep
  PROVE  OwnInv'
<1>1. /\ earlier' = earlier /\ running' = running /\ earlier \subseteq issued /\ earlier \subseteq JobIds
      /\ issued \subseteq issued' /\ ScenarioNext
  BY DeliveriesGrow DEF ScenarioStep, suite, OwnInv, SuiteTypeOK
<1>12. named' = named
  BY <1>1, SpoiledGrows
<1>. SUFFICES ASSUME "setup" \notin spoiled'
              PROVE  /\ phase' # "setup" => \A j \in Rows' \cap earlier : job'[j].name \notin named
                     /\ \A v \in Vars : bound'[v] \notin earlier
                     /\ \A c \in Waiters : got'[c] \notin earlier
  BY <1>1, <1>12 DEF OwnInv
<1>2. /\ phase # "setup" => \A j \in Rows \cap earlier : job[j].name \notin named
      /\ \A v \in Vars : bound[v] \notin earlier
      /\ \A c \in Waiters : got[c] \notin earlier
  BY <1>1, SpoiledGrows DEF OwnInv
<1>3. phase' # "setup" => \A j \in Rows' \cap earlier : job'[j].name \notin named
  <2>. SUFFICES ASSUME phase' # "setup", NEW j \in Rows', j \in earlier
                PROVE  job'[j].name \notin named
    OBVIOUS
  <2>1. Kept(j)
    BY <1>1, RetriesGrow DEF Rows
  <2>2. CASE phase = "setup"
    <3>1. CleanupEnds /\ phase \notin spoiled
      BY <1>1, <2>2, PhaseEnds, SpoiledGrows
    <3>. QED BY <2>1, <3>1, CleanupCleans DEF Kept
  <2>. QED BY <1>2, <2>1, <2>2 DEF Kept
<1>4. {Unbound, Empty, Broken, NULL} \cap earlier = {}
  BY <1>1, SpecialValues
<1>5. CASE Quiet
  BY <1>2, <1>3, <1>5, QuietEffect DEF Control, waiter
<1>6. ASSUME NEW c \in Waiters, ConsumeWait(c) \/ ConsumeBreaks(c)
      PROVE  /\ \A v \in Vars : bound'[v] \notin earlier
             /\ \A d \in Waiters : got'[d] \notin earlier
  <2>1. /\ bound' = bound /\ Active(c) /\ \A d \in Waiters \ {c} : got'[d] = got[d]
        /\ got'[c] = got[c] \/ got'[c] \in {Empty, Broken} \/ Gets(c)
    BY <1>6, ConsumeEffect DEF Control, runner
  <2>2. phase # "setup"
    <3>1. c = Main => phase = "consume"
      BY <2>1 DEF Control, JoinInv, Active
    <3>2. c \in Threads => phase # "setup"
      BY <2>1, ScenarioAssumption DEF Control, JoinInv
    <3>. QED BY <3>1, <3>2 DEF Waiters
  <2>3. Gets(c) => got'[c] \in Rows /\ job[got'[c]].name \in named
    <3>1. from[c] \in named
      BY <2>1 DEF Control, WaitInv
    <3>. QED BY <3>1, ScenarioAssumption DEF Gets, Waiters, ClaimInv, IInv, RowLocksExclusive, IsIn
  <2>. QED BY <1>2, <1>4, <2>1, <2>2, <2>3
<1>7. ASSUME NEW q \in Queues, NEW v \in Vars, NEW w \in Withins,
             ExecConsume(q, v, w) \/ ExecSpawn(q, v, w)
      PROVE  /\ bound' = bound /\ \A d \in Waiters : got'[d] \in {got[d], NULL}
  BY <1>7, ControlTypes DEF ExecConsume, ExecSpawn, Start
<1>8. ASSUME NEW v \in Vars, ExecAwait(v)
      PROVE  /\ got' = got /\ \A u \in Vars : bound'[u] \notin earlier
  <2>1. pending[v] # NULL => pending[v] \in Waiters
    BY ControlTypes DEF Waiters
  <2>2. /\ got' = got
        /\ \/ bound' = bound
           \/ pending[v] # NULL /\ bound' = [bound EXCEPT ![v] = got[pending[v]]]
    BY <1>8 DEF ExecAwait, waiter
  <2>. QED BY <1>2, <2>1, <2>2, ControlTypes
<1>9. CASE ConsumeReturns
  <2>1. /\ got' = got
        /\ bound' = bound \/ bound' = [bound EXCEPT ![dest] = got[Main]]
    BY <1>9 DEF ConsumeReturns
  <2>. QED BY <1>2, <1>3, <2>1, ControlTypes DEF Waiters
<1>10. CASE Join
  BY <1>2, <1>3, <1>10 DEF Join, waiter
<1>11. CASE MainStep
  BY <1>2, <1>3, <1>4, <1>5, <1>7, <1>8, <1>9, <1>10, <1>11 DEF MainStep, Quiet
<1>. QED BY <1>1, <1>3, <1>5, <1>6, <1>11 DEF ScenarioNext, Quiet

-----------------------------------------------------------------------------
(***************************************************************************)
(* The command line.                                                       *)
(***************************************************************************)

LEMMA VerdictNext ==
  ASSUME SuiteTypeOK, OutcomeInv, VerdictInv, [SuiteNext]_allvars
  PROVE  VerdictInv'
<1>1. /\ files \in (0 .. MaxFiles) \cup {NULL} /\ started \in Nat /\ worst \in {0, 1, 2, 3}
      /\ verdicts \subseteq {0, 1, 2, 3} /\ NULL \notin Nat /\ MaxFiles \in Nat
  BY SuiteAssumption, NullAssumption DEF SuiteTypeOK, Codes, Ok, Failed, Unparsed, Unconnected
<1>. USE DEF VerdictInv, Ok
<1>2. ASSUME NEW r \in {0, 1, 2, 3}, Report(r)
      PROVE  /\ worst' \in verdicts' \cup {0} /\ \A v \in verdicts' : v <= worst'
             /\ verdicts' # {}
  BY <1>1, <1>2 DEF Report, Worse
<1>3. CASE FileFails
  <2>1. \E r \in {0, 1, 2, 3} : Report(r)
    BY <1>3 DEF FileFails, Unconnected, Unparsed
  <2>. QED BY <1>1, <1>2, <1>3, <2>1 DEF FileFails, NextFile
<1>4. CASE FileStarts
  BY <1>1, <1>4 DEF FileStarts, NextFile
<1>5. CASE FileEnds
  <2>1. \E r \in {0, 1, 2, 3} : Report(r)
    BY <1>5 DEF FileEnds, OutcomeInv, Codes, Failed, Unparsed, Unconnected
  <2>. QED BY <1>1, <1>2, <1>5, <2>1 DEF FileEnds
<1>6. CASE MainReturns
  BY <1>1, <1>6 DEF MainReturns, Unconnected
<1>7. CASE ScenarioStep \/ UNCHANGED allvars
  BY <1>7 DEF ScenarioStep, allvars, suite
<1>. QED BY <1>3, <1>4, <1>5, <1>6, <1>7 DEF SuiteNext, SuiteStep

\* A new scenario: nothing runs, nothing is bound.
LEMMA FileStartsInv ==
  ASSUME SInv, FileStarts
  PROVE  RunInv' /\ OwnInv' /\ MadeInv'
<1>1. UNCHANGED vars /\ UNCHANGED left
  BY DEF FileStarts
<1>2. IInv'
  BY <1>1, NextInv DEF SInv, RunInv
<1>3. ScenarioTypeOK'
  <2>1. /\ left' \in 0 .. MaxSteps /\ phase' = "setup" /\ spoiled' = {} /\ dest' = NULL /\ outcome' = NULL
        /\ named' \subseteq Queues
        /\ bound' \in [Vars -> JobIds \cup {Empty, Unbound}]
        /\ pending' \in [Vars -> Threads \cup {NULL}]
    BY <1>1 DEF FileStarts, SInv, RunInv, ScenarioTypeOK
  <2>2. /\ at' \in [Waiters -> Fetching \cup {"idle", "loop", "wait", "done"}]
        /\ from' \in [Waiters -> Queues \cup {NULL}] /\ within' \in [Waiters -> Nat \cup {NULL}]
        /\ deadline' \in [Waiters -> Nat] /\ got' \in [Waiters -> JobIds \cup {Empty, Broken, NULL}]
    BY DEF FileStarts
  <2>. QED BY <1>2, <2>1, <2>2 DEF ScenarioTypeOK, IInv
<1>4. JoinInv' /\ WaitInv' /\ OutcomeInv' /\ CleanInv'
  BY DEF FileStarts, JoinInv, WaitInv, OutcomeInv, CleanInv, Active, Waiters
<1>7. ClaimInv' /\ DraftInv'
  <2>1. phase \in {"setup", "done"} /\ UNCHANGED <<claim, draft>>
    BY <1>1 DEF FileStarts, NextFile, SInv, MadeInv, vars
  <2>2. \A c \in Waiters : ~Active(c)
    BY <2>1, ScenarioAssumption DEF SInv, RunInv, JoinInv, Active, Waiters
  <2>3. \A c \in Waiters : claim[c] = {}
    BY <2>2 DEF SInv, RunInv, ClaimInv, Active, Fetching
  <2>4. draft[Main] = NULL
    BY <2>1 DEF SInv, RunInv, DraftInv
  <2>. QED BY <2>1, <2>3, <2>4 DEF ClaimInv, DraftInv
<1>8. MadeInv'
  <2>1. UNCHANGED <<queue, job>> /\ Rows \subseteq issued
    BY <1>1 DEF vars, tables, SInv, RunInv, IInv, IssuedInv, Rows
  <2>. QED BY <2>1 DEF FileStarts, MadeInv, Rows
<1>5. HoldInv'
  <2>1. \A x \in Slots : Held(x)' \notin JobIds
    BY ScenarioAssumption DEF FileStarts, Held, Slots
  <2>. QED BY <2>1 DEF HoldInv, Rows
<1>6. OwnInv'
  <2>1. issued \subseteq JobIds /\ {Unbound, NULL} \cap JobIds = {}
    BY SpecialValues DEF SInv, RunInv, IInv, TypeOK
  <2>. QED BY <1>1, <2>1 DEF FileStarts, OwnInv, vars, tables
<1>. QED BY <1>2, <1>3, <1>4, <1>5, <1>6, <1>7, <1>8 DEF RunInv

LEMMA RunKept ==
  ASSUME RunInv, UNCHANGED svars
  PROVE  RunInv'
<1>1. UNCHANGED <<vars, phase, left, bound, pending, dest, named, spoiled, outcome, at, from, within, deadline, got>>
  BY DEF svars, runner, waiter
<1>2. IInv'
  BY <1>1, NextInv DEF RunInv
<1>3. ScenarioTypeOK'
  BY <1>1, <1>2 DEF RunInv, ScenarioTypeOK, IInv
<1>4. JoinInv' /\ WaitInv' /\ OutcomeInv'
  BY <1>1 DEF RunInv, JoinInv, WaitInv, OutcomeInv, Active
<1>5. ClaimInv' /\ DraftInv' /\ CleanInv'
  BY <1>1 DEF RunInv, ClaimInv, DraftInv, CleanInv, vars, tables
<1>6. HoldInv'
  <2>1. \A x \in Slots : Held(x)' = Held(x)
    BY <1>1, Places
  <2>. QED BY <1>1, <2>1, HoldSame DEF RunInv
<1>. QED BY <1>2, <1>3, <1>4, <1>5, <1>6 DEF RunInv

LEMMA RunNext ==
  ASSUME RunInv, ~Respawn, ScenarioNext
  PROVE  RunInv' /\ [Next]_vars
<1>1. IInv /\ Control /\ HoldInv /\ ClaimInv /\ DraftInv /\ CleanInv
  BY DEF RunInv, Control
<1>2. [Next]_vars
  BY <1>1, ScenarioIsBoss DEF Control
<1>3. IInv'
  BY <1>1, <1>2, NextInv
<1>4. Control'
  BY <1>1, <1>3, ScenarioControl DEF IInv
<1>5. HoldInv' /\ ClaimInv' /\ DraftInv' /\ CleanInv'
  BY <1>1, <1>2, ScenarioHold, ScenarioClaims, ScenarioMakes, ScenarioClean
<1>. QED BY <1>2, <1>3, <1>4, <1>5 DEF RunInv, Control

LEMMA SuiteTypes ==
  ASSUME SInv, ScenarioTypeOK', [SuiteNext]_allvars
  PROVE  SuiteTypeOK'
<1>1. /\ files \in (0 .. MaxFiles) \cup {NULL} /\ started \in 0 .. MaxFiles /\ running \in BOOLEAN
      /\ worst \in Codes /\ code \in Codes \cup {NULL} /\ earlier \subseteq JobIds /\ verdicts \subseteq Codes
      /\ standing \subseteq Queues /\ issued \subseteq JobIds /\ MaxFiles \in Nat /\ NULL \notin Nat
  BY SuiteAssumption, NullAssumption DEF SInv, SuiteTypeOK, ScenarioTypeOK, TypeOK
<1>2. {Ok, Failed, Unparsed, Unconnected} = Codes /\ Unconnected = 3
  BY DEF Codes, Unconnected
<1>3. ASSUME NEW r \in Codes, Report(r)
      PROVE  worst' \in Codes /\ verdicts' \subseteq Codes
  BY <1>1, <1>3 DEF Report, Worse
<1>4. NextFile => started' \in 0 .. MaxFiles
  BY <1>1 DEF NextFile
<1>5. CASE FileFails
  BY <1>1, <1>2, <1>3, <1>4, <1>5 DEF FileFails, SuiteTypeOK
<1>6. CASE FileStarts
  BY <1>1, <1>4, <1>6 DEF FileStarts, SuiteTypeOK
<1>7. CASE FileEnds
  <2>1. outcome \in Codes
    BY <1>7 DEF FileEnds, SInv, RunInv, OutcomeInv
  <2>. QED BY <1>1, <1>3, <1>7, <2>1 DEF FileEnds, SuiteTypeOK
<1>8. CASE MainReturns
  BY <1>1, <1>2, <1>8 DEF MainReturns, SuiteTypeOK
<1>9. CASE ScenarioStep \/ UNCHANGED allvars
  BY <1>1, <1>9 DEF ScenarioStep, allvars, suite, SuiteTypeOK
<1>. QED BY <1>5, <1>6, <1>7, <1>8, <1>9 DEF SuiteNext, SuiteStep

LEMMA SuiteNextInv == SInv /\ [SuiteNext]_allvars => SInv'
<1>. SUFFICES ASSUME SInv, [SuiteNext]_allvars PROVE SInv'
  OBVIOUS
<1>1. ~Respawn
  BY SuiteAssumption
<1>2. RunInv' /\ OwnInv' /\ MadeInv'
  <2>1. CASE FileStarts
    BY <2>1, FileStartsInv
  <2>2. CASE FileFails \/ FileEnds \/ MainReturns \/ UNCHANGED allvars
    <3>1. /\ UNCHANGED <<svars, earlier, standing>>
          /\ running' = running \/ (running' = FALSE /\ phase = "done")
      BY <2>2 DEF FileFails, FileEnds, MainReturns, NextFile, allvars, suite
    <3>2. UNCHANGED <<issued, queue, job, phase, named, spoiled, bound, got>>
      BY <3>1 DEF svars, vars, tables, runner, waiter
    <3>. QED BY <3>1, <3>2, RunKept DEF SInv, OwnInv, MadeInv, Rows
  <2>3. CASE ScenarioStep
    <3>1. RunInv' /\ [Next]_vars
      BY <1>1, <2>3, RunNext DEF ScenarioStep, SInv
    <3>2. OwnInv'
      BY <1>1, <2>3, <3>1, ScenarioOwn DEF ScenarioStep, SInv, RunInv, Control
    <3>3. IInv /\ IInv' /\ Control /\ DraftInv /\ ScenarioNext
      BY <2>3, <3>1 DEF ScenarioStep, SInv, RunInv, Control
    <3>4. Made /\ named' = named
      BY <3>3, ScenarioMakes, SpoiledGrows
    <3>. QED BY <2>3, <3>1, <3>2, <3>3, <3>4, ScenarioMade DEF SInv
  <2>. QED BY <2>1, <2>2, <2>3 DEF SuiteNext, SuiteStep
<1>3. VerdictInv'
  BY VerdictNext DEF SInv, RunInv
<1>. QED BY <1>2, <1>3, SuiteTypes DEF SInv, RunInv

LEMMA SuiteInvariance == SuiteSpec => []SInv
BY SuiteInitInv, SuiteNextInv, PTL DEF SuiteSpec

\* Whatever a scenario or main does, it does to the database by steps of Boss.
LEMMA SuiteIsBoss == SuiteSpec => []IInv /\ [][Next]_vars
<1>1. SInv => IInv
  BY DEF SInv, RunInv
<1>2. SInv /\ [SuiteNext]_allvars => [Next]_vars
  <2>. SUFFICES ASSUME SInv, [SuiteNext]_allvars PROVE [Next]_vars
    OBVIOUS
  <2>1. CASE UNCHANGED vars
    BY <2>1
  <2>2. CASE ScenarioStep
    BY <2>2, RunNext, SuiteAssumption DEF SInv, ScenarioStep
  <2>. QED BY <2>1, <2>2
       DEF SuiteNext, SuiteStep, FileFails, FileStarts, FileEnds, MainReturns, allvars, svars
<1>. QED BY <1>1, <1>2, SuiteInvariance, PTL DEF SuiteSpec

-----------------------------------------------------------------------------
(***************************************************************************)
(* The theorems.                                                           *)
(***************************************************************************)

\* The Runner, its threads and main keep their types.
THEOREM SuiteTypeCorrect == SuiteSpec => []SuiteTypeOK
<1>1. SInv => SuiteTypeOK
  BY DEF SInv
<1>. QED BY <1>1, SuiteInvariance, PTL

\* boss.fetch never gives the consumers of a scenario the same delivery twice,
\* whatever order they run and are collected in.
THEOREM ClaimsAreExclusive == SuiteSpec => []OneDeliveryOneVariable
<1>1. SInv => OneDeliveryOneVariable
  <2>. SUFFICES ASSUME HoldInv, NEW u \in Vars, NEW v \in Vars, u # v,
                       bound[u] \in Rows, bound[u] = bound[v]
                PROVE  job[bound[u]].retry_count >= 1
    BY DEF SInv, RunInv, OneDeliveryOneVariable
  <2>. DEFINE x == <<"bound", u>>
              y == <<"bound", v>>
  <2>1. x \in Slots /\ y \in Slots /\ x # y /\ Held(x) = bound[u] /\ Held(y) = bound[v]
    BY DEF Slots, Held
  <2>. HIDE DEF x, y
  <2>. QED BY <2>1 DEF HoldInv
<1>. QED BY <1>1, SuiteInvariance, PTL

\* join_all_pending joins every thread there is before the queues are deleted.
THEOREM ThreadsAreJoined == SuiteSpec => []AllJoined
<1>1. SInv => AllJoined
  BY ScenarioAssumption DEF SInv, RunInv, JoinInv, AllJoined, Active
<1>. QED BY <1>1, SuiteInvariance, PTL

\* A scenario makes queues and jobs only where its script says so, and there
\* cleanup_queues takes all of them away, by delete_queue and its cascade.
THEOREM CleanupIsComplete == SuiteSpec => []LeavesNothing
<1>1. SInv => LeavesNothing
  <2>. SUFFICES ASSUME SInv, running, phase = "done", "cleanup" \notin spoiled
                PROVE  /\ \A q \in Queues : queue[q] # NULL => q \in standing \ named
                       /\ Rows \subseteq earlier
    BY DEF LeavesNothing
  <2>1. /\ \A q \in named : queue[q] = NULL
        /\ \A q \in Queues : queue[q] # NULL => q \in standing \cup named
        /\ \A j \in Rows \ earlier : job[j].name \in named
        /\ \A j \in Rows : queue[job[j].name] # NULL
    BY DEF SInv, RunInv, CleanInv, MadeInv, IInv, NoOrphans
  <2>. QED BY <2>1
<1>. QED BY <1>1, SuiteInvariance, PTL

\* A Runner whose first cleanup worked meets no job of an earlier one.
THEOREM ScenariosDoNotMeet == SuiteSpec => []OwnJobsOnly
<1>1. SInv => OwnJobsOnly
  BY DEF SInv, OwnInv, OwnJobsOnly
<1>. QED BY <1>1, SuiteInvariance, PTL

\* The exit code of main is the worst of the results, or 3 without any.
THEOREM ExitCodeTells == SuiteSpec => []ExitTellsAll
<1>1. SInv => ExitTellsAll
  <2>. SUFFICES ASSUME SInv, code # NULL PROVE ExitTellsAll
    BY DEF ExitTellsAll
  <2>1. /\ worst \in {0, 1, 2, 3} /\ verdicts \subseteq {0, 1, 2, 3} /\ started \in Nat
        /\ \/ files \in {NULL, 0} /\ code = 3 /\ verdicts = {}
           \/ verdicts # {} /\ code = worst
        /\ worst \in verdicts \cup {0} /\ \A r \in verdicts : r <= worst
    <3>1. worst \in {0, 1, 2, 3} /\ verdicts \subseteq {0, 1, 2, 3} /\ started \in Nat
      BY SuiteAssumption DEF SInv, SuiteTypeOK, Codes, Ok, Failed, Unparsed, Unconnected
    <3>2. files # NULL /\ files > 0 /\ started = files /\ ~running => verdicts # {}
      BY <3>1 DEF SInv, VerdictInv
    <3>3. files \in {NULL, 0} => started = 0 /\ verdicts = {}
      BY <3>1, SuiteAssumption, NullAssumption DEF SInv, VerdictInv
    <3>. QED BY <3>1, <3>2, <3>3 DEF SInv, VerdictInv, Ok, Unconnected
  <2>2. CASE code = 3 /\ verdicts = {}
    BY <2>2 DEF ExitTellsAll, Ok, Failed, Unparsed, Unconnected
  <2>3. CASE verdicts # {} /\ code = worst
    <3>1. worst = 0 => \A r \in verdicts : r = 0
      BY <2>1
    <3>2. worst = 0 <=> verdicts = {0}
      <4>1. worst = 0 => verdicts = {0}
        BY <2>3, <3>1
      <4>2. verdicts = {0} => worst = 0
        BY <2>1
      <4>. QED BY <4>1, <4>2
    <3>3. worst # 0 => worst \in verdicts
      BY <2>1
    <3>4. 3 \in verdicts => worst = 3
      <4>1. 3 \in verdicts => 3 <= worst
        BY <2>1
      <4>. QED BY <2>1, <4>1
    <3>. QED BY <2>3, <3>2, <3>3, <3>4 DEF ExitTellsAll, Ok, Failed, Unparsed, Unconnected
  <2>. QED BY <2>1, <2>2, <2>3
<1>. QED BY <1>1, SuiteInvariance, PTL

\* Scenarios keep every guarantee of the functions they call, whatever their
\* threads do and however a session breaks.
THEOREM ScenariosAreSafe == SuiteSpec => []SafeStates /\ SafeSteps
<1>1. SuiteSpec => []IInv /\ [][Next]_vars
  BY SuiteIsBoss
<1>. QED BY <1>1, UsersAreSafe

\* One run of dsltest over any number of files implements the life of a job.
THEOREM ScenariosImplement == SuiteSpec => ImplementsLifecycle
<1>1. SuiteInit => OnePurpose /\ Lifecycle!Init
  BY DEF SuiteInit, ScenarioInit, OnePurpose, Lifecycle!Init, task, NoTask, Lifecycle!NoTask
<1>. QED BY <1>1, SuiteIsBoss, UsersImplement, PTL DEF SuiteSpec

=============================================================================
