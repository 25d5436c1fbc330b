-------------------------------- MODULE Work --------------------------------
(***************************************************************************)
(* Consumers: Client.Work of the Go client on one queue, against the       *)
(* database of Boss, with producers that send to the queue and background  *)
(* workers that run boss.maintain.                                         *)
(*                                                                         *)
(* A consumer LISTENs, drains the queue with fetch(queue, 1), handing each *)
(* job to its handler and reporting the outcome with complete or fail, and *)
(* sleeps until the next NOTIFY when a fetch comes back empty.             *)
(***************************************************************************)
EXTENDS Boss

CONSTANTS Target,    \* the queue
          Workers,   \* connections that run Work
          Producers, \* sessions that send
          Janitors,  \* background workers
          MaxStops   \* bound on the number of times a consumer stops

ASSUME RoleAssumption ==
  /\ Target \in Queues
  /\ Workers \cup Producers \cup Janitors \subseteq Sessions
  /\ Workers \cap (Producers \cup Janitors) = {}   \* Work acquires a connection of its own
  /\ 1 \in BatchSizes   \* fetch(queue, 1)
  /\ MaxStops \in Nat

VARIABLES pc,        \* where each consumer is in Work
          cur,       \* the job its handler was given
          seen,      \* notifications it has consumed, as a position in notes
          stops,     \* how often a consumer has stopped
          succeeded  \* history: jobs for which some handler returned nil

local == <<pc, cur, seen, stops, succeeded>>
wvars == <<vars, local>>

Location == {"listen", "fetch", "handle", "ack", "nack", "wait", "stopped"}

WorkTypeOK ==
  /\ TypeOK
  /\ pc \in [Workers -> Location]
  /\ cur \in [Workers -> JobIds \cup {NULL}]
  /\ seen \in [Workers -> Nat]
  /\ stops \in 0 .. MaxStops
  /\ succeeded \subseteq JobIds

\* The queue exists; no consumer has started.
WorkInit ==
  /\ clock = 0
  /\ queue \in [Queues -> QueueOptions]
  /\ job = [j \in JobIds |-> NULL]
  /\ issued = {}
  /\ notes = [q \in Queues |-> 0]
  /\ began = [s \in Sessions |-> NULL]
  /\ draft = [s \in Sessions |-> NULL]
  /\ hidden = [s \in Sessions |-> {}]
  /\ claim = [s \in Sessions |-> {}]
  /\ deliveries = [j \in JobIds |-> 0]
  /\ pc = [w \in Workers |-> "listen"]
  /\ cur = [w \in Workers |-> NULL]
  /\ seen = [w \in Workers |-> 0]
  /\ stops = 0
  /\ succeeded = {}

-----------------------------------------------------------------------------
Goto(w, l) == pc' = [pc EXCEPT ![w] = l]

\* LISTEN takes effect at its own COMMIT, before the first fetch: the session
\* receives every NOTIFY from the next one on.
Listen(w) ==
  /\ pc[w] = "listen"
  /\ seen' = [seen EXCEPT ![w] = notes[Target]]
  /\ Goto(w, "fetch")
  /\ UNCHANGED <<vars, cur, stops, succeeded>>

\* A statement sent on the consumer's connection opens its transaction.
Call(w) ==
  /\ pc[w] \in {"fetch", "ack", "nack"}
  /\ Begin(w)
  /\ UNCHANGED local

FetchOne(w) ==
  /\ pc[w] = "fetch"
  /\ FetchLock(w, Target, 1)
  /\ UNCHANGED local

FetchReturns(w) ==
  /\ pc[w] = "fetch"
  /\ claim[w] # {}
  /\ Commit(w)
  /\ cur' = [cur EXCEPT ![w] = CHOOSE j \in claim[w] : TRUE]
  /\ Goto(w, "handle")
  /\ UNCHANGED <<seen, stops, succeeded>>

\* len(jobs) == 0: the queue is drained.
FetchEmpty(w) ==
  /\ pc[w] = "fetch"
  /\ Fresh(w)
  /\ Claimable(Target, began[w]) = {}
  /\ Commit(w)
  /\ Goto(w, "wait")
  /\ UNCHANGED <<cur, seen, stops, succeeded>>

Outcome_Ignored(ok) == "ack"

\* nil completes the job, an error fails it.
Outcome(ok) == IF ok THEN "ack" ELSE "nack"

\* The handler returns nil (ok) or an error.
HandlerReturns(w, ok) ==
  /\ pc[w] = "handle"
  /\ Goto(w, Outcome(ok))
  /\ succeeded' = IF ok THEN succeeded \cup {cur[w]} ELSE succeeded
  /\ UNCHANGED <<vars, cur, seen, stops>>

\* boss.complete or boss.fail, false if the job is not active any more: process
\* looks at the error only, so the loop goes on either way.
Report(w) ==
  /\ pc[w] \in {"ack", "nack"}
  /\ \/ pc[w] = "ack" /\ Complete(w, Target, cur[w])
     \/ pc[w] = "nack" /\ Fail(w, Target, cur[w])
     \/ ~Matches(Target, cur[w]) /\ Commit(w)
  /\ cur' = [cur EXCEPT ![w] = NULL]
  /\ Goto(w, "fetch")
  /\ UNCHANGED <<seen, stops, succeeded>>

\* WaitForNotification returns the next notification of the connection.
Wake(w) ==
  /\ pc[w] = "wait"
  /\ seen[w] < notes[Target]
  /\ seen' = [seen EXCEPT ![w] = @ + 1]
  /\ Goto(w, "fetch")
  /\ UNCHANGED <<vars, cur, stops, succeeded>>

\* The context is cancelled, the connection is lost or a call returns an error:
\* Work returns, a transaction in flight is rolled back or, if only the reply
\* was lost, committed; a job in hand stays active.
Stop(w) ==
  /\ stops < MaxStops
  /\ pc[w] # "stopped"
  /\ \/ began[w] = NULL /\ UNCHANGED vars
     \/ Rollback(w)
     \/ Commit(w)
  /\ cur' = [cur EXCEPT ![w] = NULL]
  /\ stops' = stops + 1
  /\ Goto(w, "stopped")
  /\ UNCHANGED <<seen, succeeded>>

\* The caller runs Work again.
Restart(w) ==
  /\ pc[w] = "stopped"
  /\ Goto(w, "listen")
  /\ UNCHANGED <<vars, cur, seen, stops, succeeded>>

WorkerStep(w) ==
  \/ Listen(w)
  \/ Call(w)
  \/ FetchOne(w)
  \/ FetchReturns(w)
  \/ FetchEmpty(w)
  \/ \E ok \in BOOLEAN : HandlerReturns(w, ok)
  \/ Report(w)
  \/ Wake(w)

\* Client.Send, alone or in a transaction of the caller (WithRowQuerier).
Finish(p) ==
  /\ \/ SendRead(p, Target)
     \/ \E o \in SendOptions : SendInsert(p, o)
     \/ Commit(p)
     \/ Rollback(p)
  /\ UNCHANGED local

\* (Bound: no transaction starts when all of JobIds is used up.)
ProducerBegins(p) == issued # JobIds /\ Begin(p) /\ UNCHANGED local

JanitorStep(m) == (Begin(m) \/ Maintain(m)) /\ UNCHANGED local

TimePasses == Tick /\ UNCHANGED local

WorkNext ==
  \/ \E w \in Workers : WorkerStep(w) \/ Stop(w) \/ Restart(w)
  \/ \E p \in Producers : ProducerBegins(p) \/ Finish(p)
  \/ \E m \in Janitors : JanitorStep(m)
  \/ TimePasses

WorkSpec == WorkInit /\ [][WorkNext]_wvars

\* Consumers keep running, handlers return, the background worker keeps its
\* loop and time passes; nobody has to send, and nobody has to restart.
Fairness ==
  /\ \A w \in Workers : WF_wvars(WorkerStep(w))
  /\ \A m \in Janitors : WF_wvars(JanitorStep(m))
  /\ WF_wvars(TimePasses)

FairWorkSpec == WorkSpec /\ Fairness

-----------------------------------------------------------------------------
(***************************************************************************)
(* Properties.                                                             *)
(***************************************************************************)

Holds(w, j) == cur[w] = j /\ pc[w] \in {"handle", "ack", "nack"}

\* A job is in the hands of one consumer at a time.
AtMostOneHolder ==
  \A v, w \in Workers : \A j \in JobIds : Holds(v, j) /\ Holds(w, j) => v = w

Asleep(w) == pc[w] = "wait" /\ seen[w] = notes[Target]

\* The running consumers never all sleep, with nothing left to wake them, while
\* a job they could fetch is waiting: no wake-up is lost between LISTEN, the last
\* empty fetch and WaitForNotification.
NoSleepingOnWork ==
  (\E w \in Workers : Asleep(w)) /\ (\A w \in Workers : Asleep(w) \/ pc[w] = "stopped")
    => Ready(Target, clock) \ Locked = {}

\* A completed job was handled: some handler returned nil for it, be it one that
\* had lost the job to an expiry in the meantime.
CompletedOnlyAfterSuccess == \A j \in IsIn({"completed"}) : j \in succeeded

\* Every job sent is finished or given up.
EventuallySettled ==
  \A j \in JobIds :
    j \in IsIn(Waiting \cup {"active"}) \ Hidden ~> j \notin IsIn(Waiting \cup {"active"})

\* A job that is put back is taken up again.
RetriesAreTaken ==
  \A j \in JobIds :
    j \in IsIn({"retry"}) /\ job[j].start_after <= MaxClock ~> j \notin IsIn({"retry"})

\* A job whose consumer is gone does not stay active: once it is overdue the
\* background worker puts it back or gives it up.
StuckJobsReleased ==
  \A j \in JobIds :
    /\ j \in IsIn({"active"})
    /\ job[j].started_on + job[j].expire_seconds < MaxClock
    ~> j \notin IsIn({"active"})

=============================================================================
