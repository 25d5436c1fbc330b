------------------------------ MODULE Scenario ------------------------------
(***************************************************************************)
(* The scenario runner of dsltest: one scenario run start to finish        *)
(* against the database of Boss.  The main thread executes the statements  *)
(* of the script in order on its session; spawn consume starts a thread    *)
(* with a session of its own, await collects it.  Both wait for a job with *)
(* consume_wait.  The first statement that fails ends the script; the      *)
(* runner then joins what is pending and deletes the queues.               *)
(*                                                                         *)
(* The script is arbitrary: each step of the main thread picks the next    *)
(* statement, about a queue that the script names.  One that only looks    *)
(* (assert, check) appears as the failure it may end the script with.      *)
(***************************************************************************)
EXTENDS Boss

CONSTANTS Main,        \* the session of the main thread
          Threads,     \* sessions of spawned threads, each used once
          Vars,        \* variables of the script
          Withins,     \* durations of "within", NULL if there is none
          MaxSteps,    \* bound on the statements of a script
          Respawn,     \* may a script spawn into a variable it has not awaited?
          Unbound,     \* a variable before its consume
          Empty,       \* the result of a consume that found no job
          Broken       \* the result of a consume that failed

ASSUME ScenarioAssumption ==
  /\ {Main} \cup Threads \subseteq Sessions /\ {Main, NULL} \cap Threads = {}
  /\ 1 \in BatchSizes   \* fetch($1, 1)
  /\ Withins \subseteq Nat \cup {NULL}
  /\ MaxSteps \in Nat
  /\ Respawn \in BOOLEAN
  /\ {Unbound, Empty, Broken} \cap (JobIds \cup {NULL}) = {}

VARIABLES phase,     \* where the main thread is
          left,      \* statements the script may still have
          bound,     \* vars: a job, Empty, or Unbound
          pending,   \* pending: the thread spawned for a variable
          dest,      \* the variable of the consume in the foreground
          named,     \* queues: what collect_queues has found in the script
          spoiled,   \* the cleanups that have failed to delete a queue
          outcome,   \* the exit code of the scenario, NULL before there is one
          at,        \* where each session is in consume_wait
          from,      \* the queue it consumes
          within,    \* its "within"
          deadline,  \* when it gives up
          got        \* what it returned

runner  == <<phase, left, bound, pending, dest, named, spoiled, outcome>>
waiter  == <<at, from, within, deadline, got>>
svars   == <<vars, runner, waiter>>

Waiters == {Main} \cup Threads
Fetching == {"first", "second", "again"}

\* exit_code of the error that ends a scenario: of an assert or a check, of a
\* statement that makes no sense or of the database (Failed), of the parser, of
\* connecting; and success.
Ok == 0
Failed == 1
Unparsed == 2
Unconnected == 3
Codes == {Ok, Failed, Unparsed, Unconnected}

ScenarioTypeOK ==
  /\ TypeOK
  /\ phase \in {"setup", "run", "push", "consume", "join", "cleanup", "done"}
  /\ left \in 0 .. MaxSteps
  /\ bound \in [Vars -> JobIds \cup {Empty, Unbound}]
  /\ pending \in [Vars -> Threads \cup {NULL}]
  /\ dest \in Vars \cup {NULL}
  /\ named \subseteq Queues
  /\ spoiled \subseteq {"setup", "cleanup"}
  /\ outcome \in Codes \cup {NULL}
  /\ at \in [Waiters -> Fetching \cup {"idle", "loop", "wait", "done"}]
  /\ from \in [Waiters -> Queues \cup {NULL}]
  /\ within \in [Waiters -> Nat \cup {NULL}]
  /\ deadline \in [Waiters -> Nat]
  /\ got \in [Waiters -> JobIds \cup {Empty, Broken, NULL}]

\* A new Runner, with a script that names any of the queues, also in statements it
\* does not come to; an earlier run may have left queues of the same names.
ScenarioInit ==
  /\ clock = 0
  /\ queue \in [Queues -> QueueOptions \cup {NULL}]
  /\ job = [j \in JobIds |-> NULL]
  /\ issued = {}
  /\ notes = [q \in Queues |-> 0]
  /\ began = [s \in Sessions |-> NULL]
  /\ draft = [s \in Sessions |-> NULL]
  /\ hidden = [s \in Sessions |-> {}]
  /\ claim = [s \in Sessions |-> {}]
  /\ deliveries = [j \in JobIds |-> 0]
  /\ left = MaxSteps
  /\ phase = "setup"
  /\ bound = [v \in Vars |-> Unbound]
  /\ pending = [v \in Vars |-> NULL]
  /\ dest = NULL
  /\ named \in SUBSET Queues
  /\ spoiled = {}
  /\ outcome = NULL
  /\ at = [c \in Waiters |-> "idle"]
  /\ from = [c \in Waiters |-> NULL]
  /\ within = [c \in Waiters |-> NULL]
  /\ deadline = [c \in Waiters |-> 0]
  /\ got = [c \in Waiters |-> NULL]

-----------------------------------------------------------------------------
(***************************************************************************)
(* consume_wait.                                                           *)
(***************************************************************************)

Return(c, result) ==
  /\ at' = [at EXCEPT ![c] = "done"]
  /\ got' = [got EXCEPT ![c] = result]

\* fetch_one sends its statement.
ConsumeCalls(c) ==
  /\ at[c] \in Fetching
  /\ Begin(c)
  /\ UNCHANGED <<runner, waiter>>

ConsumeLocks(c) ==
  /\ at[c] \in Fetching
  /\ FetchLock(c, from[c], 1)
  /\ UNCHANGED <<runner, waiter>>

ConsumeGets(c) ==
  /\ at[c] \in Fetching
  /\ claim[c] # {}
  /\ Commit(c)
  /\ Return(c, CHOOSE j \in claim[c] : TRUE)
  /\ UNCHANGED <<runner, from, within, deadline>>

\* Nothing there: give up at once without "within", otherwise LISTEN and fetch
\* again before the loop starts, whose deadline counts from then.
\* (Bound: a deadline beyond MaxClock is MaxClock.)
Deadline(c) ==
  IF clock + within[c] > MaxClock THEN MaxClock ELSE clock + within[c]

ConsumeMisses(c) ==
  /\ at[c] \in Fetching
  /\ Fresh(c)
  /\ Claimable(from[c], began[c]) = {}
  /\ Commit(c)
  /\ \/ /\ at[c] = "first" /\ within[c] = NULL
        /\ Return(c, Empty)
        /\ UNCHANGED deadline
     \/ /\ at[c] = "first" /\ within[c] # NULL
        /\ at' = [at EXCEPT ![c] = "second"]
        /\ UNCHANGED <<got, deadline>>
     \/ /\ at[c] = "second"
        /\ at' = [at EXCEPT ![c] = "loop"]
        /\ deadline' = [deadline EXCEPT ![c] = Deadline(c)]
        /\ UNCHANGED got
     \/ /\ at[c] = "again"
        /\ at' = [at EXCEPT ![c] = "loop"]
        /\ UNCHANGED <<got, deadline>>
  /\ UNCHANGED <<runner, from, within>>

TimeUp_Never(c) == FALSE

TimeUp(c) == clock >= deadline[c]

ConsumeTimesOut(c) ==
  /\ at[c] = "loop"
  /\ TimeUp(c)
  /\ Return(c, Empty)
  /\ UNCHANGED <<vars, runner, from, within, deadline>>

AfterPoll_NoFetch == "loop"

\* Re-fetching on each wake.
AfterPoll == "again"

ConsumeSleeps(c) ==
  /\ at[c] = "loop"
  /\ ~TimeUp(c)
  /\ at' = [at EXCEPT ![c] = "wait"]
  /\ UNCHANGED <<vars, runner, from, within, deadline, got>>

\* timeout_iter returns on a NOTIFY or after the poll interval: at any time.
ConsumePolls(c) ==
  /\ at[c] = "wait"
  /\ at' = [at EXCEPT ![c] = AfterPoll]
  /\ UNCHANGED <<vars, runner, from, within, deadline, got>>

\* A statement of consume_wait fails, with its connection or without; so may the
\* connection a thread begins with.  The reply of a fetch may be lost that has
\* committed: its job stays active.
ConsumeBreaks(c) ==
  /\ at[c] \in Fetching \cup {"wait"}
  /\ \/ began[c] # NULL /\ Rollback(c)
     \/ claim[c] # {} /\ Commit(c)
     \/ began[c] = NULL /\ UNCHANGED vars
  /\ Return(c, Broken)
  /\ UNCHANGED <<runner, from, within, deadline>>

ConsumeWait(c) ==
  \/ ConsumeCalls(c)
  \/ ConsumeLocks(c)
  \/ ConsumeGets(c)
  \/ ConsumeMisses(c)
  \/ ConsumeTimesOut(c)
  \/ ConsumeSleeps(c)
  \/ ConsumePolls(c)

Start(c, q, w) ==
  /\ at' = [at EXCEPT ![c] = "first"]
  /\ from' = [from EXCEPT ![c] = q]
  /\ within' = [within EXCEPT ![c] = w]
  /\ got' = [got EXCEPT ![c] = NULL]
  /\ UNCHANGED deadline

-----------------------------------------------------------------------------
(***************************************************************************)
(* Statements.                                                             *)
(***************************************************************************)

\* The next statement of the script.
Execute == phase = "run" /\ left > 0 /\ left' = left - 1

Collects_OnlyOwners == {"CreateQueue", "DeleteQueue"}

\* The statements whose queue collect_queues takes down.
Collects == {"CreateQueue", "DeleteQueue", "Push", "Consume", "SpawnConsume"}

\* A script may have a statement of this kind about queue q.
MayName(kind, q) == kind \in Collects => q \in named

\* The script is over; after an error the rest of it is skipped.
Finish(code) ==
  /\ phase' = "join"
  /\ outcome' = code

MainBegins ==
  /\ phase = "run" /\ left > 0
  /\ Begin(Main)
  /\ UNCHANGED <<runner, waiter>>

ExecCreateQueue(q, o) ==
  /\ Execute /\ MayName("CreateQueue", q)
  /\ began[Main] = NULL
  /\ CreateQueue(q, o)
  /\ UNCHANGED <<phase, bound, pending, dest, named, spoiled, outcome, waiter>>

ExecDeleteQueue(q) ==
  /\ Execute /\ MayName("DeleteQueue", q)
  /\ began[Main] = NULL
  /\ DeleteQueue(q)
  /\ UNCHANGED <<phase, bound, pending, dest, named, spoiled, outcome, waiter>>

ExecMaintain ==
  /\ Execute
  /\ Maintain(Main)
  /\ UNCHANGED <<phase, bound, pending, dest, named, spoiled, outcome, waiter>>

\* push: boss.send, which fails if there is no such queue.
ExecPush(q) ==
  /\ Execute /\ MayName("Push", q)
  /\ Fresh(Main)
  /\ \/ SendRead(Main, q) /\ phase' = "push" /\ UNCHANGED outcome
     \/ queue[q] = NULL /\ Rollback(Main) /\ Finish(Failed)
  /\ UNCHANGED <<bound, pending, dest, named, spoiled, waiter>>

PushInserts ==
  /\ phase = "push"
  /\ \E o \in SendOptions : SendInsert(Main, o)
  /\ UNCHANGED <<runner, waiter>>

PushReturns ==
  /\ phase = "push"
  /\ hidden[Main] # {}
  /\ Commit(Main)
  /\ phase' = "run"
  /\ UNCHANGED <<left, bound, pending, dest, named, spoiled, outcome, waiter>>

\* Any database error in a push; also the bound JobIds on the uuids.
PushFails ==
  /\ phase = "push"
  /\ Rollback(Main)
  /\ Finish(Failed)
  /\ UNCHANGED <<left, bound, pending, dest, named, spoiled, waiter>>

ExecConsume(q, v, w) ==
  /\ Execute /\ MayName("Consume", q)
  /\ began[Main] = NULL
  /\ Start(Main, q, w)
  /\ dest' = v
  /\ phase' = "consume"
  /\ UNCHANGED <<vars, bound, pending, named, spoiled, outcome>>

ConsumeReturns ==
  /\ phase = "consume"
  /\ at[Main] = "done"
  /\ \/ /\ got[Main] \in JobIds
        /\ bound' = [bound EXCEPT ![dest] = got[Main]]
        /\ phase' = "run" /\ UNCHANGED outcome
     \/ got[Main] \in {Empty, Broken} /\ Finish(Failed) /\ UNCHANGED bound
  /\ dest' = NULL
  /\ at' = [at EXCEPT ![Main] = "idle"]
  /\ UNCHANGED <<vars, left, pending, from, within, deadline, got, named, spoiled>>

\* pending.insert: the handle of an earlier thread of the same variable is dropped.
ExecSpawn(q, v, w) ==
  /\ Execute /\ MayName("SpawnConsume", q)
  /\ began[Main] = NULL
  /\ Respawn \/ pending[v] = NULL
  /\ \E c \in Threads :
       /\ at[c] = "idle"
       /\ Start(c, q, w)
       /\ pending' = [pending EXCEPT ![v] = c]
  /\ UNCHANGED <<vars, phase, bound, dest, named, spoiled, outcome>>

\* await blocks until the thread has returned.
ExecAwait(v) ==
  /\ Execute
  /\ began[Main] = NULL
  /\ \/ pending[v] = NULL /\ Finish(Failed) /\ UNCHANGED <<bound, pending>>
     \/ /\ pending[v] # NULL
        /\ at[pending[v]] = "done"
        /\ pending' = [pending EXCEPT ![v] = NULL]
        /\ \/ /\ got[pending[v]] # Broken
              /\ bound' = [bound EXCEPT ![v] = got[pending[v]]]
              /\ UNCHANGED <<phase, outcome>>
           \/ got[pending[v]] = Broken /\ Finish(Failed) /\ UNCHANGED bound
  /\ UNCHANGED <<vars, dest, named, spoiled, waiter>>

\* ack and fail: the statement fails if the variable has no job or the job is
\* not active.  (A handle keeps the queue the job was fetched from, its own.)
ExecReport(v) ==
  /\ Execute
  /\ Fresh(Main)
  /\ \/ /\ bound[v] \in JobIds
        /\ \E q \in Queues : Complete(Main, q, bound[v]) \/ Fail(Main, q, bound[v])
        /\ UNCHANGED <<phase, outcome>>
     \/ /\ ~(bound[v] \in JobIds /\ \E q \in Queues : Matches(q, bound[v]))
        /\ Rollback(Main)
        /\ Finish(Failed)
  /\ UNCHANGED <<bound, pending, dest, named, spoiled, waiter>>

\* assert and check change nothing but may end the script, and any statement
\* may fail, also because the connection does or a new client gets none.
ExecFails ==
  /\ Execute
  /\ began[Main] = NULL
  /\ Finish(Failed) \/ Finish(Unconnected)
  /\ UNCHANGED <<vars, bound, pending, dest, named, spoiled, waiter>>

ScriptEnds ==
  /\ phase = "run"
  /\ began[Main] = NULL
  /\ Finish(Ok)
  /\ UNCHANGED <<vars, left, bound, pending, dest, named, spoiled, waiter>>

-----------------------------------------------------------------------------
(***************************************************************************)
(* Setup and teardown.                                                     *)
(***************************************************************************)

\* cleanup_queues, before and after the script.
CleanupDeletes(q) ==
  /\ phase \in {"setup", "cleanup"} /\ q \in named
  /\ DeleteQueue(q)
  /\ UNCHANGED <<runner, waiter>>

\* An error of delete_queue is ignored: the connection of client 1 is lost, perhaps
\* since long ago, or the call was the victim of a deadlock with maintain.  (It
\* makes no difference where there is no queue to delete.)
CleanupFails ==
  /\ phase \in {"setup", "cleanup"}
  /\ \E q \in named : queue[q] # NULL
  /\ spoiled' = spoiled \cup {phase}
  /\ UNCHANGED <<vars, phase, left, bound, pending, dest, named, outcome, waiter>>

\* Every queue of the list was tried.
CleanedUp == phase \in spoiled \/ \A q \in named : queue[q] = NULL

CleanupEnds ==
  /\ phase \in {"setup", "cleanup"}
  /\ CleanedUp
  /\ phase' = IF phase = "setup" THEN "run" ELSE "done"
  /\ UNCHANGED <<vars, left, bound, pending, dest, named, spoiled, outcome, waiter>>

JoinsAll_NoWait == pending' = [v \in Vars |-> NULL]

\* join_all_pending blocks on every handle that is left.
JoinsAll ==
  /\ \A v \in Vars : pending[v] # NULL => at[pending[v]] = "done"
  /\ pending' = [v \in Vars |-> NULL]

Join ==
  /\ phase = "join"
  /\ JoinsAll
  /\ phase' = "cleanup"
  /\ UNCHANGED <<vars, left, bound, dest, named, spoiled, outcome, waiter>>

MainStep ==
  \/ CleanupFails
  \/ CleanupEnds
  \/ MainBegins
  \/ ExecMaintain
  \/ PushInserts
  \/ PushReturns
  \/ PushFails
  \/ ConsumeReturns
  \/ ExecFails
  \/ ScriptEnds
  \/ Join
  \/ \E q \in Queues :
       \/ CleanupDeletes(q)
       \/ \E o \in QueueOptions : ExecCreateQueue(q, o)
       \/ ExecDeleteQueue(q)
       \/ ExecPush(q)
       \/ \E v \in Vars, w \in Withins : ExecConsume(q, v, w) \/ ExecSpawn(q, v, w)
  \/ \E v \in Vars : ExecReport(v) \/ ExecAwait(v)

TimePasses == Tick /\ UNCHANGED <<runner, waiter>>

ScenarioNext ==
  \/ MainStep
  \/ \E c \in Waiters : ConsumeWait(c) \/ ConsumeBreaks(c)
  \/ TimePasses

ScenarioSpec ==
  /\ ScenarioInit /\ [][ScenarioNext]_svars
  /\ WF_svars(MainStep)
  /\ \A c \in Waiters : WF_svars(ConsumeWait(c))
  /\ WF_svars(TimePasses)

-----------------------------------------------------------------------------
(***************************************************************************)
(* Properties.                                                             *)
(***************************************************************************)

\* Competing consumers of a scenario, in the foreground or spawned, never get
\* the same delivery: two variables hold one job only if it was put back in
\* between.  (What assert exactly_one_claimed relies on.)
OneDeliveryOneVariable ==
  \A u, v \in Vars :
    u # v /\ bound[u] \in Rows /\ bound[u] = bound[v] => job[bound[u]].retry_count >= 1

\* When the queues are deleted no thread of the scenario runs any more, so none
\* can fetch from, or hold a job of, a scenario that is over.
AllJoined ==
  phase \in {"cleanup", "done"} => \A c \in Threads : at[c] \in {"idle", "done"}

\* Every scenario ends: no await, join or delete_queue waits for ever.
ScenarioEnds == <>(phase = "done")

\* The free jobs of a queue that could be fetched now.
Available(q) == Ready(q, clock) \ Locked

\* A consumer that waits does not overlook a job, whether it was announced or
\* became due silently: before it gives up it gets a job, or somebody else has
\* taken, or at least locked, this one.
PollersTakeReadyJobs ==
  \A c \in Threads, j \in JobIds :
    at[c] = "wait" /\ j \in Available(from[c])
    ~> \/ got[c] \in JobIds \cup {Broken}
       \/ at[c] # "done" /\ j \notin Available(from[c])

=============================================================================
