-------------------------- MODULE StatementsProofs --------------------------
(***************************************************************************)
(* Statements, row by row, keeps its promises and implements JobLifecycle, *)
(* for any queues, sessions, uuids, rows and bounds.                       *)
(***************************************************************************)
EXTENDS Statements, FiniteSetTheorems, TLAPS

\* What statement c, in a transaction begun at t, has made of row j: of r it made v.
\* boss.maintain purges rows it may itself have finished.
Written(c, t, j, r, v) ==
  /\ r # NULL
  /\ \/ c.fn # "purge" /\ Selects(c, t, j, r) /\ v = Changed(c, t, r)
     \/ c.fn = "purge" /\ Overdue(r, t) /\ v = Expired(r, t)
     \/ c.fn = "purge" /\ Overdue(r, t) /\ Expendable(Expired(r, t), t) /\ v = NULL
     \/ c.fn = "purge" /\ Expendable(r, t) /\ v = NULL

\* One session at a time holds a row.  What it has made of a job it has made of the
\* row that is committed, so it writes back no other session's changes.
LockInv ==
  /\ \A s, t \in Sessions : s # t => DOMAIN mine[s] \cap DOMAIN mine[t] = {}
  /\ \A s \in Sessions : \A j \in DOMAIN mine[s] \cap JobIds :
       Written(stmt[s], now[s], j, job[j], mine[s][j])
  /\ \A s \in Sessions : \A q \in DOMAIN mine[s] \cap Queues :
       stmt[s].fn \in {"delete", "cascade"} /\ stmt[s].queue = q /\ q \in open

\* The cascade of delete_queue holds its queue, so no job is added, and misses none.
CascadeInv ==
  \A s \in Sessions :
    stmt[s] # NULL /\ stmt[s].fn = "cascade" =>
      /\ stmt[s].queue \in DOMAIN mine[s]
      /\ \A j \in Rows : job[j].name = stmt[s].queue => j \in todo[s] \cup DOMAIN mine[s]

\* Only delete_queue has a queue to visit, its own.
TodoInv ==
  \A s \in Sessions : \A q \in todo[s] \cap Queues :
    stmt[s].fn = "delete" /\ stmt[s].queue = q

IssuedInv == \A j \in JobIds \ issued : job[j] = NULL /\ deliveries[j] = 0

RetryInv == \A j \in Rows : job[j].retry_count = 0 \/ job[j].retry_count <= job[j].retry_limit

IInv ==
  /\ TypeOK /\ LockInv /\ CascadeInv /\ TodoInv /\ IssuedInv /\ RetryInv
  /\ OneEndPerDelivery /\ QueueOutlivesJobs

-----------------------------------------------------------------------------
(***************************************************************************)
(* Statements and rows.                                                    *)
(***************************************************************************)

LEMMA StmtType ==
  ASSUME NEW c \in Stmts
  PROVE  /\ c.fn \in {"fetch", "complete", "fail", "maintain", "delete", "purge", "cascade"}
         /\ c.fn \notin {"maintain", "purge"} => c.queue \in Queues
         /\ c.fn \in {"complete", "fail"} => c.job \in JobIds
         /\ c # NULL
BY StmtAssumption DEF Stmts, Calls, Stmt

LEMMA LockableKeys ==
  /\ NULL \notin Lockable
  /\ \A x \in Lockable : x \in JobIds <=> x \notin Queues
BY KeyAssumption DEF Lockable

LEMMA InitInv == Init => IInv
BY KeyAssumption, BoundAssumption
   DEF Init, IInv, TypeOK, LockInv, CascadeInv, TodoInv, IssuedInv, RetryInv, OneEndPerDelivery,
       QueueOutlivesJobs, Rows

\* Row w is r after a change of its state; nothing changes the queue or the limit.
NewState(w, r, state, count) ==
  /\ w \in JobRow /\ w.name = r.name /\ w.retry_limit = r.retry_limit
  /\ w.state = state /\ w.retry_count = count

\* What the functions make of a row: only what puts an active row back counts.
LEMMA RowChange ==
  ASSUME NEW r \in JobRow, NEW t \in Int
  PROVE  /\ NewState(Started(r, t), r, "active", r.retry_count)
         /\ NewState(Completed(r, t), r, "completed", r.retry_count)
         /\ \A w \in {Unfinished(r, t), Expired(r, t)} :
              /\ r.retry_count < r.retry_limit => NewState(w, r, "retry", r.retry_count + 1)
              /\ ~(r.retry_count < r.retry_limit) => NewState(w, r, "failed", r.retry_count)
<1>. USE DEF JobRow, JobState, Waiting, Terminal
<1>1. NewState(Started(r, t), r, "active", r.retry_count)
  BY DEF Started, NewState
<1>2. NewState(Completed(r, t), r, "completed", r.retry_count)
  BY DEF Completed, NewState
<1>3. NewState(GivenUp(r, t), r, "failed", r.retry_count)
  BY DEF GivenUp, NewState
<1>4. r.retry_count + 1 \in Nat /\ t + r.retry_delay \in Int
  OBVIOUS
<1>5. NewState(Retried(r, t), r, "retry", r.retry_count + 1)
  BY <1>4 DEF Retried, NewState
<1>. DEFINE x == [Retried(r, t) EXCEPT !.completed_on = NULL]
<1>6. NewState(x, r, "retry", r.retry_count + 1)
  BY <1>5 DEF NewState
<1>. HIDE DEF x
<1>7. Unfinished(r, t) = IF r.retry_count < r.retry_limit THEN Retried(r, t) ELSE GivenUp(r, t)
  BY DEF Unfinished
<1>8. Expired(r, t) = IF r.retry_count < r.retry_limit THEN x ELSE GivenUp(r, t)
  BY DEF Expired, x
<1>. QED BY <1>1, <1>2, <1>3, <1>5, <1>6, <1>7, <1>8

\* What a statement writes is a row of the same queue, or no row.
LEMMA WrittenRow ==
  ASSUME NEW c \in Stmts, NEW t \in Int, NEW j, NEW r \in JobRow, NEW v,
         Written(c, t, j, r, v)
  PROVE  /\ v # NULL => v \in JobRow /\ v.name = r.name /\ v.retry_limit = r.retry_limit
         /\ c.fn = "cascade" => v = NULL
         /\ c.fn # "delete"
<1>1. c.fn \in {"fetch", "complete", "fail", "maintain", "delete", "purge", "cascade"}
  BY StmtType
<1>2. \A w \in {Started(r, t), Completed(r, t), Unfinished(r, t), Expired(r, t)} :
        w \in JobRow /\ w.name = r.name /\ w.retry_limit = r.retry_limit
  <2>1. /\ NewState(Started(r, t), r, "active", r.retry_count)
        /\ NewState(Completed(r, t), r, "completed", r.retry_count)
    BY RowChange
  <2>2. \A w \in {Unfinished(r, t), Expired(r, t)} :
          w \in JobRow /\ w.name = r.name /\ w.retry_limit = r.retry_limit
    BY RowChange DEF NewState
  <2>. QED BY <2>1, <2>2 DEF NewState
<1>3. c.fn # "delete"
  BY DEF Written, Selects
<1>4. CASE c.fn = "purge"
  BY <1>2, <1>4 DEF Written
<1>5. CASE c.fn # "purge"
  <2>1. v = Changed(c, t, r)
    BY <1>5 DEF Written
  <2>. QED BY <1>1, <1>2, <1>3, <1>5, <2>1 DEF Changed
<1>. QED BY <1>3, <1>4, <1>5

LEMMA ChangedRow ==
  ASSUME NEW c \in Stmts, NEW t \in Int, NEW j, NEW r \in JobRow, Selects(c, t, j, r)
  PROVE  Changed(c, t, r) \in JobRow \cup {NULL}
<1>1. c.fn \in {"fetch", "complete", "fail", "maintain", "purge", "cascade"}
  BY StmtType DEF Selects
<1>. QED BY <1>1, RowChange DEF Changed, NewState

LEMMA WithEffect ==
  ASSUME NEW f, NEW x, NEW v
  PROVE  /\ DOMAIN With(f, x, v) = DOMAIN f \cup {x}
         /\ With(f, x, v)[x] = v
         /\ \A y \in DOMAIN f \ {x} : With(f, x, v)[y] = f[y]
BY DEF With

LEMMA WithType ==
  ASSUME TypeOK, NEW s \in Sessions, NEW x \in Lockable, NEW v \in JobRow \cup {NULL}
  PROVE  /\ DOMAIN With(mine[s], x, v) \subseteq Lockable
         /\ With(mine[s], x, v) \in [DOMAIN With(mine[s], x, v) -> JobRow \cup {NULL}]
<1>1. DOMAIN mine[s] \subseteq Lockable /\ \A y \in DOMAIN mine[s] : mine[s][y] \in JobRow \cup {NULL}
  BY DEF TypeOK
<1>. QED BY <1>1 DEF With

\* A session has a row to visit, or holds one, only while it runs a statement.
LEMMA Running ==
  ASSUME TypeOK, NEW s \in Sessions, todo[s] # {} \/ DOMAIN mine[s] # {} \/ stmt[s] # NULL
  PROVE  stmt[s] \in Stmts /\ now[s] \in Int
BY BoundAssumption DEF TypeOK

LEMMA VersionType ==
  ASSUME TypeOK, NEW s \in Sessions, NEW j \in JobIds
  PROVE  /\ Version(s, j) \in JobRow \cup {NULL}
         /\ j \notin DOMAIN mine[s] => Version(s, j) = job[j]
         /\ j \in DOMAIN mine[s] => Version(s, j) = mine[s][j]
BY DEF TypeOK, Version

-----------------------------------------------------------------------------
(***************************************************************************)
(* Types.                                                                  *)
(***************************************************************************)

\* A step of s that gives it what it holds and leaves the others theirs.
LEMMA HoldsType ==
  ASSUME TypeOK, NEW s \in Sessions, NEW f, mine' = [mine EXCEPT ![s] = f],
         DOMAIN f \subseteq Lockable, f \in [DOMAIN f -> JobRow \cup {NULL}]
  PROVE  /\ mine' = [t \in Sessions |-> mine'[t]]
         /\ mine'[s] = f
         /\ \A t \in Sessions \ {s} : mine'[t] = mine[t]
         /\ \A t \in Sessions : /\ DOMAIN mine'[t] \subseteq Lockable
                                /\ mine'[t] \in [DOMAIN mine'[t] -> JobRow \cup {NULL}]
BY DEF TypeOK

LEMMA ChangeRowType ==
  ASSUME TypeOK, NEW s \in Sessions, NEW j \in JobIds, ChangeRow(s, j)
  PROVE  /\ TypeOK'
         /\ mine'[s] = With(mine[s], j, Changed(stmt[s], now[s], Version(s, j)))
         /\ \A t \in Sessions \ {s} : mine'[t] = mine[t]
<1>. DEFINE v == Changed(stmt[s], now[s], Version(s, j))
<1>1. stmt[s] \in Stmts /\ stmt[s] # NULL /\ now[s] \in Int
  BY Running, StmtType DEF ChangeRow
<1>2. v \in JobRow \cup {NULL}
  <2>1. Selects(stmt[s], now[s], j, Version(s, j))
    BY DEF ChangeRow, StillSelects
  <2>2. Version(s, j) \in JobRow
    BY <2>1, VersionType DEF Selects
  <2>. QED BY <1>1, <2>1, <2>2, ChangedRow
<1>3. mine' = [mine EXCEPT ![s] = With(mine[s], j, v)]
  BY DEF ChangeRow, TypeOK
<1>. HIDE DEF v
<1>4. /\ DOMAIN With(mine[s], j, v) \subseteq Lockable
      /\ With(mine[s], j, v) \in [DOMAIN With(mine[s], j, v) -> JobRow \cup {NULL}]
  BY <1>2, WithType DEF Lockable
<1>5. /\ todo' = [todo EXCEPT ![s] = @ \ {j}] /\ want' = [want EXCEPT ![s] = NULL]
      /\ UNCHANGED <<clock, open, job, issued, deliveries, calls, stmt, now>>
  BY DEF ChangeRow, Visited
<1>6. clear' \in [Sessions -> SUBSET JobIds]
  BY DEF ChangeRow, TypeOK
<1>7. TypeOK'
  BY <1>1, <1>3, <1>4, <1>5, <1>6, HoldsType DEF TypeOK
<1>. QED BY <1>3, <1>4, <1>7, HoldsType DEF v

LEMMA DeleteQueueRowType ==
  ASSUME TypeOK, NEW s \in Sessions, NEW q \in Queues, DeleteQueueRow(s, q)
  PROVE  /\ TypeOK'
         /\ mine'[s] = With(mine[s], q, NULL)
         /\ \A t \in Sessions \ {s} : mine'[t] = mine[t]
<1>1. stmt[s] \in Stmts /\ stmt[s] # NULL
  BY Running, StmtType DEF DeleteQueueRow
<1>2. mine' = [mine EXCEPT ![s] = With(mine[s], q, NULL)]
  BY DEF DeleteQueueRow, TypeOK
<1>3. /\ DOMAIN With(mine[s], q, NULL) \subseteq Lockable
      /\ With(mine[s], q, NULL) \in [DOMAIN With(mine[s], q, NULL) -> JobRow \cup {NULL}]
  BY WithType DEF Lockable
<1>4. /\ todo' = [todo EXCEPT ![s] = @ \ {q}] /\ want' = [want EXCEPT ![s] = NULL]
      /\ UNCHANGED <<clock, open, job, issued, deliveries, calls, stmt, now, clear>>
  BY DEF DeleteQueueRow, Visited
<1>5. TypeOK'
  BY <1>1, <1>2, <1>3, <1>4, HoldsType DEF TypeOK
<1>. QED BY <1>2, <1>3, <1>5, HoldsType

\* The end of a transaction, committed or not.
LEMMA EndType ==
  ASSUME TypeOK, NEW s \in Sessions, End(s),
         open' \subseteq Queues, job' \in [JobIds -> JobRow \cup {NULL}],
         deliveries' \in [JobIds -> Nat]
  PROVE  /\ TypeOK'
         /\ stmt'[s] = NULL /\ DOMAIN mine'[s] = {}
         /\ \A t \in Sessions \ {s} :
              stmt'[t] = stmt[t] /\ todo'[t] = todo[t] /\ mine'[t] = mine[t]
<1>1. mine' = [mine EXCEPT ![s] = << >>]
  BY DEF End
<1>2. DOMAIN << >> = {} /\ << >> \in [{} -> JobRow \cup {NULL}]
  OBVIOUS
<1>3. DOMAIN mine'[s] = {} /\ mine'[s] \in [{} -> JobRow \cup {NULL}]
      /\ mine' = [t \in Sessions |-> mine'[t]]
      /\ \A t \in Sessions \ {s} : mine'[t] = mine[t]
  BY <1>1, <1>2 DEF TypeOK
<1>4. TypeOK'
  BY <1>3 DEF End, TypeOK
<1>. QED BY <1>3, <1>4 DEF End, TypeOK

LEMMA CommitType ==
  ASSUME TypeOK, NEW s \in Sessions, Commit(s)
  PROVE  /\ TypeOK'
         /\ stmt'[s] = NULL /\ DOMAIN mine'[s] = {}
         /\ \A t \in Sessions \ {s} :
              stmt'[t] = stmt[t] /\ todo'[t] = todo[t] /\ mine'[t] = mine[t]
<1>1. open' \subseteq Queues /\ job' \in [JobIds -> JobRow \cup {NULL}]
      /\ deliveries' \in [JobIds -> Nat] /\ End(s)
  BY VersionType DEF Commit, TypeOK
<1>. QED BY <1>1, EndType

LEMMA AbortType ==
  ASSUME TypeOK, NEW s \in Sessions, Abort(s)
  PROVE  /\ TypeOK'
         /\ stmt'[s] = NULL /\ DOMAIN mine'[s] = {}
         /\ \A t \in Sessions \ {s} :
              stmt'[t] = stmt[t] /\ todo'[t] = todo[t] /\ mine'[t] = mine[t]
<1>1. open' \subseteq Queues /\ job' \in [JobIds -> JobRow \cup {NULL}]
      /\ deliveries' \in [JobIds -> Nat] /\ End(s)
  BY DEF Abort, TypeOK
<1>. QED BY <1>1, EndType

LEMMA CallType ==
  ASSUME TypeOK, NEW s \in Sessions, NEW c \in Calls, Call(s, c)
  PROVE  TypeOK'
<1>1. c \in Stmts /\ c # NULL
  BY StmtType DEF Stmts
<1>2. (IF c.fn = "delete" THEN {c.queue} \cap open ELSE Selected(s, c, clock)) \subseteq Lockable
  BY DEF TypeOK, Selected, Lockable
<1>3. calls + 1 \in 0 .. MaxCalls
  BY BoundAssumption DEF Call, TypeOK
<1>4. clear' \in [Sessions -> SUBSET JobIds]
  <2>1. {j \in Selected(s, c, clock) : ~HeldByOther(s, j)} \subseteq JobIds
    BY DEF Selected
  <2>. QED BY <2>1 DEF Call, TypeOK
<1>. QED BY <1>1, <1>2, <1>3, <1>4 DEF Call, TypeOK

LEMMA FollowsStmt ==
  ASSUME NEW s \in Sessions, stmt[s] \in Stmts, NEW c \in Follows(s)
  PROVE  /\ c \in Stmts
         /\ \/ stmt[s].fn = "maintain" /\ c.fn = "purge"
            \/ /\ stmt[s].fn = "delete" /\ DOMAIN mine[s] # {}
               /\ c.fn = "cascade" /\ c.queue = stmt[s].queue
<1>1. CASE stmt[s].fn = "maintain"
  BY <1>1 DEF Follows, Stmts, Stmt
<1>2. CASE stmt[s].fn = "delete" /\ DOMAIN mine[s] # {}
  <2>1. c = Stmt("cascade", stmt[s].queue, NULL, NULL) /\ stmt[s].queue \in Queues
    BY <1>2, StmtType DEF Follows
  <2>. QED BY <1>2, <2>1 DEF Stmts, Stmt
<1>3. CASE stmt[s].fn # "maintain" /\ ~(stmt[s].fn = "delete" /\ DOMAIN mine[s] # {})
  BY <1>3 DEF Follows
<1>. QED BY <1>1, <1>2, <1>3

LEMMA NextStatementType ==
  ASSUME TypeOK, NEW s \in Sessions, NextStatement(s)
  PROVE  TypeOK'
<1>1. PICK c \in Follows(s) : /\ stmt' = [stmt EXCEPT ![s] = c]
                              /\ todo' = [todo EXCEPT ![s] = Selected(s, c, now[s])]
  BY DEF NextStatement
<1>2. c \in Stmts /\ c # NULL
  BY Running, FollowsStmt, StmtType DEF NextStatement
<1>3. Selected(s, c, now[s]) \subseteq Lockable
  BY DEF Selected, Lockable
<1>. QED BY <1>1, <1>2, <1>3 DEF NextStatement, TypeOK

\* The steps of s that change no row.
LEMMA VisitType ==
  ASSUME TypeOK, NEW s \in Sessions, NEW x \in Lockable, PassOver(s, x) \/ Wait(s, x)
  PROVE  TypeOK'
<1>1. stmt[s] # NULL
  BY DEF TypeOK, PassOver, Wait
<1>2. CASE PassOver(s, x)
  BY <1>1, <1>2 DEF PassOver, Visited, TypeOK
<1>3. CASE Wait(s, x)
  BY <1>1, <1>3 DEF Wait, TypeOK
<1>. QED BY <1>2, <1>3

\* The row that boss.send inserts.
LEMMA SentRow ==
  ASSUME TypeOK, NEW q \in Queues, NEW r \in NewRows, Send(q, r)
  PROVE  \E j \in JobIds \ issued, w \in JobRow :
           /\ issued' = issued \cup {j} /\ job' = [job EXCEPT ![j] = w]
           /\ w.name = q /\ w.state = "created" /\ w.retry_count = 0
<1>1. PICK j \in JobIds \ issued :
        /\ issued' = issued \cup {j}
        /\ job' = [job EXCEPT ![j] =
             [r EXCEPT !.name = q, !.created_on = clock, !.start_after = clock + r.start_after,
                       !.keep_until = clock + r.keep_until]]
  BY NewRowAssumption DEF Send, JobRow
<1>. DEFINE w == [r EXCEPT !.name = q, !.created_on = clock, !.start_after = clock + r.start_after,
                           !.keep_until = clock + r.keep_until]
<1>2. /\ r \in JobRow /\ r.state = "created" /\ r.retry_count = 0
      /\ clock \in Int /\ clock + r.start_after \in Int /\ clock + r.keep_until \in Int
  BY NewRowAssumption, BoundAssumption DEF TypeOK, JobRow
<1>3. w \in JobRow /\ w.name = q /\ w.state = "created" /\ w.retry_count = 0
  BY <1>2 DEF JobRow
<1>. HIDE DEF w
<1>. QED BY <1>1, <1>3 DEF w

LEMMA OtherTypes ==
  ASSUME TypeOK,
         \/ \E q \in Queues : CreateQueue(q)
         \/ \E q \in Queues, r \in NewRows : Send(q, r)
         \/ Tick \/ UNCHANGED vars
  PROVE  TypeOK'
<1>1. ASSUME NEW q \in Queues, CreateQueue(q)
      PROVE  TypeOK'
  BY <1>1 DEF CreateQueue, TypeOK
<1>2. ASSUME NEW q \in Queues, NEW r \in NewRows, Send(q, r)
      PROVE  TypeOK'
  <2>1. issued' \subseteq JobIds /\ job' \in [JobIds -> JobRow \cup {NULL}]
    BY <1>2, SentRow DEF TypeOK
  <2>. QED BY <1>2, <2>1 DEF Send, session, TypeOK
<1>3. CASE Tick
  <2>1. clock + 1 \in 0 .. MaxClock
    BY <1>3, BoundAssumption DEF Tick, TypeOK
  <2>. QED BY <1>3, <2>1 DEF Tick, session, TypeOK
<1>4. CASE UNCHANGED vars
  BY <1>4 DEF vars, session, TypeOK
<1>. QED BY <1>1, <1>2, <1>3, <1>4

-----------------------------------------------------------------------------
(***************************************************************************)
(* The inductive invariant.                                                *)
(***************************************************************************)

\* No statement but a purge changes a row a second time.
LEMMA WrittenTwice ==
  ASSUME NEW c \in Stmts, NEW t \in Int, NEW j, NEW r \in JobRow, NEW v,
         Written(c, t, j, r, v), Selects(c, t, j, v)
  PROVE  Written(c, t, j, r, Changed(c, t, v))
<1>1. CASE c.fn = "purge"
  <2>1. v # NULL /\ Expendable(v, t) /\ Changed(c, t, v) = NULL
    BY <1>1 DEF Selects, Changed
  <2>. QED BY <1>1, <2>1 DEF Written
<1>2. CASE c.fn # "purge"
  <2>1. /\ v = Changed(c, t, r) /\ Selects(c, t, j, r) /\ v # NULL
        /\ c.fn \in {"fetch", "complete", "fail", "maintain", "cascade"}
    BY <1>2, StmtType DEF Written, Selects
  <2>2. CASE c.fn = "fetch"
    <3>1. v.state = "active"
      BY <2>1, <2>2, RowChange DEF Changed, NewState
    <3>. QED BY <2>2, <3>1 DEF Selects, Waiting
  <2>3. CASE c.fn = "complete"
    <3>1. v.state = "completed"
      BY <2>1, <2>3, RowChange DEF Changed, NewState
    <3>. QED BY <2>3, <3>1 DEF Selects
  <2>4. CASE c.fn \in {"fail", "maintain"}
    <3>1. v \in {Unfinished(r, t), Expired(r, t)}
      BY <2>1, <2>4 DEF Changed
    <3>2. v.state \in {"retry", "failed"}
      BY <3>1, RowChange DEF NewState
    <3>. QED BY <2>4, <3>2 DEF Selects, Overdue
  <2>5. CASE c.fn = "cascade"
    BY <2>1, <2>5 DEF Changed
  <2>. QED BY <2>1, <2>2, <2>3, <2>4, <2>5
<1>. QED BY <1>1, <1>2

\* Steps that leave the committed rows alone.
LEMMA RowsKept ==
  ASSUME IInv, UNCHANGED <<open, job, issued, deliveries>>
  PROVE  /\ IssuedInv' /\ RetryInv' /\ OneEndPerDelivery' /\ QueueOutlivesJobs'
         /\ Rows' = Rows
BY DEF IInv, IssuedInv, RetryInv, OneEndPerDelivery, QueueOutlivesJobs, Rows

LEMMA ChangeRowInv ==
  ASSUME IInv, NEW s \in Sessions, NEW j \in JobIds, ChangeRow(s, j)
  PROVE  IInv'
<1>. DEFINE v == Changed(stmt[s], now[s], Version(s, j))
<1>1. /\ TypeOK /\ TypeOK'
      /\ mine'[s] = With(mine[s], j, v)
      /\ \A t \in Sessions \ {s} : mine'[t] = mine[t]
  BY ChangeRowType DEF IInv
<1>2. /\ UNCHANGED <<open, job, issued, deliveries, stmt, now>>
      /\ todo' = [todo EXCEPT ![s] = @ \ {j}] /\ ~HeldByOther(s, j) /\ j \in todo[s]
  BY DEF ChangeRow, Visited
<1>3. stmt[s] \in Stmts /\ now[s] \in Int
  BY <1>1, <1>2, Running
<1>4. Written(stmt[s], now[s], j, job[j], v)
  <2>1. Selects(stmt[s], now[s], j, Version(s, j)) /\ Version(s, j) \in JobRow
    BY <1>1, VersionType DEF ChangeRow, StillSelects, Selects
  <2>2. CASE j \in DOMAIN mine[s]
    <3>1. Written(stmt[s], now[s], j, job[j], mine[s][j]) /\ Version(s, j) = mine[s][j]
      BY <1>1, <2>2, VersionType DEF IInv, LockInv
    <3>2. job[j] \in JobRow
      BY <1>1, <3>1 DEF Written, TypeOK
    <3>. QED BY <1>3, <2>1, <3>1, <3>2, WrittenTwice
  <2>3. CASE j \notin DOMAIN mine[s]
    <3>1. Version(s, j) = job[j] /\ job[j] # NULL
      BY <1>1, <2>1, <2>3, VersionType, KeyAssumption
    <3>2. stmt[s].fn = "purge" => Expendable(job[j], now[s]) /\ v = NULL
      BY <2>1, <3>1 DEF Selects, Changed
    <3>. QED BY <2>1, <3>1, <3>2 DEF Written
  <2>. QED BY <2>2, <2>3
<1>. HIDE DEF v
<1>5. /\ DOMAIN mine'[s] = DOMAIN mine[s] \cup {j} /\ mine'[s][j] = v
      /\ \A y \in DOMAIN mine[s] \ {j} : mine'[s][y] = mine[s][y]
      /\ j \notin Queues
  <2>1. j \notin Queues
    BY LockableKeys DEF Lockable
  <2>. QED BY <1>1, <2>1 DEF With
<1>6. LockInv'
  BY <1>1, <1>2, <1>4, <1>5 DEF IInv, LockInv, HeldByOther, Holds
<1>7. CascadeInv' /\ TodoInv'
  BY <1>1, <1>2, <1>5 DEF IInv, CascadeInv, TodoInv, Rows, TypeOK
<1>. QED BY <1>1, <1>2, <1>6, <1>7, RowsKept DEF IInv

LEMMA DeleteQueueRowInv ==
  ASSUME IInv, NEW s \in Sessions, NEW q \in Queues, DeleteQueueRow(s, q)
  PROVE  IInv'
<1>1. /\ TypeOK /\ TypeOK'
      /\ mine'[s] = With(mine[s], q, NULL)
      /\ \A t \in Sessions \ {s} : mine'[t] = mine[t]
  BY DeleteQueueRowType DEF IInv
<1>2. /\ UNCHANGED <<open, job, issued, deliveries, stmt, now>> /\ q \in open
      /\ todo' = [todo EXCEPT ![s] = @ \ {q}] /\ ~HeldByOther(s, q) /\ q \in todo[s]
  BY DEF DeleteQueueRow, Visited
<1>3. /\ DOMAIN mine'[s] = DOMAIN mine[s] \cup {q}
      /\ \A y \in DOMAIN mine[s] \ {q} : mine'[s][y] = mine[s][y]
      /\ q \notin JobIds
  <2>1. q \notin JobIds
    BY LockableKeys DEF Lockable
  <2>. QED BY <1>1, <2>1 DEF With
<1>4. stmt[s].fn = "delete" /\ stmt[s].queue = q
  BY <1>2 DEF IInv, TodoInv
<1>5. LockInv'
  BY <1>1, <1>2, <1>3, <1>4 DEF IInv, LockInv, HeldByOther, Holds
<1>6. CascadeInv' /\ TodoInv'
  BY <1>1, <1>2, <1>3, <1>4 DEF IInv, CascadeInv, TodoInv, Rows, TypeOK
<1>. QED BY <1>1, <1>2, <1>5, <1>6, RowsKept DEF IInv

\* The cascade passes over no row of its queue.
LEMMA VisitInv ==
  ASSUME IInv, NEW s \in Sessions, NEW x \in Lockable, PassOver(s, x) \/ Wait(s, x)
  PROVE  IInv'
<1>1. TypeOK /\ TypeOK'
  BY VisitType DEF IInv
<1>2. /\ UNCHANGED <<open, job, issued, deliveries, stmt, now, mine>>
      /\ \/ UNCHANGED todo
         \/ PassOver(s, x) /\ todo' = [todo EXCEPT ![s] = @ \ {x}]
  BY DEF PassOver, Wait, Visited
<1>3. LockInv' /\ TodoInv'
  BY <1>1, <1>2 DEF IInv, LockInv, TodoInv, TypeOK
<1>4. CascadeInv'
  <2>1. ASSUME PassOver(s, x), stmt[s] # NULL, stmt[s].fn = "cascade", x \in Rows,
               job[x].name = stmt[s].queue
        PROVE  x \in DOMAIN mine[s]
    <3>1. x \in JobIds /\ x \notin Queues /\ ~StillSelects(s, x)
      BY <2>1, LockableKeys DEF PassOver, Rows, Full, Skips
    <3>. QED BY <1>1, <2>1, <3>1, VersionType DEF StillSelects, Selects, Rows
  <2>. QED BY <1>1, <1>2, <2>1 DEF IInv, CascadeInv, Rows, TypeOK
<1>. QED BY <1>1, <1>2, <1>3, <1>4, RowsKept DEF IInv

LEMMA CallInv ==
  ASSUME IInv, NEW s \in Sessions, NEW c \in Calls, Call(s, c)
  PROVE  IInv'
<1>1. TypeOK /\ TypeOK' /\ DOMAIN mine[s] = {}
  BY CallType DEF IInv, TypeOK, Call
<1>2. /\ UNCHANGED <<open, job, issued, deliveries, mine>>
      /\ stmt'[s] = c /\ \A t \in Sessions \ {s} :
           stmt'[t] = stmt[t] /\ todo'[t] = todo[t] /\ now'[t] = now[t]
  BY <1>1 DEF Call, TypeOK
<1>3. c.fn # "cascade" /\ \A q \in todo'[s] \cap Queues : c.fn = "delete" /\ c.queue = q
  BY <1>1, LockableKeys DEF Calls, Stmt, Call, TypeOK, Selected, Lockable
<1>4. LockInv' /\ CascadeInv' /\ TodoInv'
  BY <1>1, <1>2, <1>3 DEF IInv, LockInv, CascadeInv, TodoInv, Rows
<1>. QED BY <1>1, <1>2, <1>4, RowsKept DEF IInv

LEMMA NextStatementInv ==
  ASSUME IInv, NEW s \in Sessions, NextStatement(s)
  PROVE  IInv'
<1>1. TypeOK /\ TypeOK' /\ stmt[s] \in Stmts /\ now[s] \in Int /\ todo[s] = {}
  BY NextStatementType, Running DEF IInv, NextStatement
<1>2. PICK c \in Follows(s) : /\ stmt' = [stmt EXCEPT ![s] = c]
                              /\ todo' = [todo EXCEPT ![s] = Selected(s, c, now[s])]
  BY DEF NextStatement
<1>3. UNCHANGED <<open, job, issued, deliveries, mine, now>>
  BY DEF NextStatement
<1>4. /\ stmt'[s] = c /\ todo'[s] = Selected(s, c, now[s]) /\ c \in Stmts
      /\ \A t \in Sessions \ {s} : stmt'[t] = stmt[t] /\ todo'[t] = todo[t]
      /\ \/ stmt[s].fn = "maintain" /\ c.fn = "purge"
         \/ /\ stmt[s].fn = "delete" /\ DOMAIN mine[s] # {}
            /\ c.fn = "cascade" /\ c.queue = stmt[s].queue
  BY <1>1, <1>2, FollowsStmt DEF TypeOK
<1>5. ASSUME NEW j \in DOMAIN mine[s] \cap JobIds
      PROVE  Written(c, now[s], j, job[j], mine[s][j])
  <2>1. Written(stmt[s], now[s], j, job[j], mine[s][j]) /\ job[j] \in JobRow
    BY <1>1 DEF IInv, LockInv, Written, TypeOK
  <2>2. stmt[s].fn = "maintain" /\ c.fn = "purge"
    BY <1>1, <1>4, <2>1, WrittenRow
  <2>3. Overdue(job[j], now[s]) /\ mine[s][j] = Expired(job[j], now[s])
    BY <2>1, <2>2 DEF Written, Selects, Changed
  <2>. QED BY <2>1, <2>2, <2>3 DEF Written
<1>6. ASSUME NEW q \in DOMAIN mine[s] \cap Queues
      PROVE  c.fn \in {"delete", "cascade"} /\ c.queue = q /\ q \in open
  BY <1>4 DEF IInv, LockInv
<1>7. LockInv'
  <2>1. \A t \in Sessions \ {s} : stmt'[t] = stmt[t]
    BY <1>4
  <2>. QED BY <1>3, <1>4, <1>5, <1>6, <2>1 DEF IInv, LockInv
<1>8. TodoInv'
  BY <1>4, LockableKeys DEF IInv, TodoInv, Selected, Lockable
<1>9. ASSUME c.fn = "cascade"
      PROVE  /\ c.queue \in DOMAIN mine[s]
             /\ \A j \in Rows : job[j].name = c.queue => j \in todo'[s] \cup DOMAIN mine[s]
  <2>1. stmt[s].fn = "delete" /\ c.queue = stmt[s].queue
    BY <1>4, <1>9
  <2>2. ASSUME NEW j \in DOMAIN mine[s] \cap JobIds
        PROVE  FALSE
    <3>1. Written(stmt[s], now[s], j, job[j], mine[s][j]) /\ job[j] \in JobRow
      BY <1>1 DEF IInv, LockInv, Written, TypeOK
    <3>. QED BY <1>1, <2>1, <3>1, WrittenRow
  <2>3. PICK q \in DOMAIN mine[s] : q \in Queues
    BY <1>1, <1>4, <1>9, <2>2 DEF TypeOK, Lockable
  <2>4. q = c.queue
    BY <2>1, <2>3 DEF IInv, LockInv
  <2>5. ASSUME NEW j \in Rows, job[j].name = c.queue
        PROVE  j \in Selected(s, c, now[s])
    BY <1>1, <1>9, <2>2, <2>5, VersionType DEF Rows, Selected, Selects
  <2>. QED BY <1>4, <2>3, <2>4, <2>5
<1>10. CascadeInv'
  BY <1>3, <1>4, <1>9 DEF IInv, CascadeInv, Rows
<1>. QED BY <1>1, <1>3, <1>7, <1>8, <1>10, RowsKept DEF IInv

LEMMA AbortInv ==
  ASSUME IInv, NEW s \in Sessions, Abort(s)
  PROVE  IInv'
<1>1. /\ TypeOK /\ TypeOK' /\ stmt'[s] = NULL /\ DOMAIN mine'[s] = {}
      /\ \A t \in Sessions \ {s} :
           stmt'[t] = stmt[t] /\ todo'[t] = todo[t] /\ mine'[t] = mine[t]
  BY AbortType DEF IInv
<1>2. UNCHANGED <<open, job, issued, deliveries, now>> /\ todo'[s] = {}
  BY DEF Abort, End, IInv, TypeOK
<1>3. LockInv' /\ CascadeInv' /\ TodoInv'
  BY <1>1, <1>2 DEF IInv, LockInv, CascadeInv, TodoInv, Rows
<1>. QED BY <1>1, <1>2, <1>3, RowsKept DEF IInv

\* What a COMMIT of s makes of the rows.
LEMMA CommitRows ==
  ASSUME IInv, NEW s \in Sessions, Commit(s), NEW j \in JobIds
  PROVE  /\ stmt[s] \in Stmts /\ now[s] \in Int /\ Follows(s) = {} /\ todo[s] = {}
         /\ j \notin DOMAIN mine[s] => job'[j] = job[j] /\ deliveries'[j] = deliveries[j]
         /\ j \in DOMAIN mine[s] =>
              /\ job[j] \in JobRow /\ job[j] # NULL /\ job'[j] = mine[s][j]
              /\ Written(stmt[s], now[s], j, job[j], job'[j])
              /\ deliveries'[j] = IF stmt[s].fn = "fetch" THEN deliveries[j] + 1 ELSE deliveries[j]
         /\ j \in Rows' => /\ j \in Rows /\ job'[j] \in JobRow
                           /\ job'[j].name = job[j].name
                           /\ job'[j].retry_limit = job[j].retry_limit
<1>1. TypeOK /\ stmt[s] \in Stmts /\ now[s] \in Int /\ Follows(s) = {} /\ todo[s] = {}
  BY Running DEF IInv, Commit
<1>2. /\ job'[j] = Version(s, j)
      /\ deliveries'[j] = IF stmt[s].fn = "fetch" /\ j \in DOMAIN mine[s]
                          THEN deliveries[j] + 1 ELSE deliveries[j]
  BY DEF Commit, Holds
<1>3. j \notin DOMAIN mine[s] => job'[j] = job[j] /\ deliveries'[j] = deliveries[j]
  BY <1>1, <1>2, VersionType
<1>4. ASSUME j \in DOMAIN mine[s]
      PROVE  /\ job[j] \in JobRow /\ job[j] # NULL /\ job'[j] = mine[s][j]
             /\ Written(stmt[s], now[s], j, job[j], job'[j])
             /\ deliveries'[j] = IF stmt[s].fn = "fetch" THEN deliveries[j] + 1 ELSE deliveries[j]
  <2>1. job'[j] = mine[s][j]
    BY <1>1, <1>2, <1>4, VersionType
  <2>2. Written(stmt[s], now[s], j, job[j], mine[s][j])
    BY <1>4 DEF IInv, LockInv
  <2>. QED BY <1>1, <1>2, <1>4, <2>1, <2>2 DEF Written, TypeOK
<1>5. ASSUME j \in Rows'
      PROVE  /\ j \in Rows /\ job'[j] \in JobRow
             /\ job'[j].name = job[j].name /\ job'[j].retry_limit = job[j].retry_limit
  <2>1. job'[j] # NULL
    BY <1>5 DEF Rows
  <2>. QED BY <1>1, <1>3, <1>4, <2>1, WrittenRow DEF Rows, TypeOK
<1>. QED BY <1>1, <1>3, <1>4, <1>5

LEMMA CommitChange ==
  ASSUME IInv, NEW s \in Sessions, Commit(s), NEW j \in JobIds, j \in DOMAIN mine[s]
  PROVE  /\ NewState(Started(job[j], now[s]), job[j], "active", job[j].retry_count)
         /\ NewState(Completed(job[j], now[s]), job[j], "completed", job[j].retry_count)
         /\ \A w \in {Unfinished(job[j], now[s]), Expired(job[j], now[s])} :
              /\ job[j].retry_count < job[j].retry_limit =>
                   NewState(w, job[j], "retry", job[j].retry_count + 1)
              /\ ~(job[j].retry_count < job[j].retry_limit) =>
                   NewState(w, job[j], "failed", job[j].retry_count)
<1>1. job[j] \in JobRow /\ now[s] \in Int
  BY CommitRows
<1>. QED BY <1>1, RowChange

\* The row counts what has happened to its delivery.
LEMMA CommitCounts ==
  ASSUME IInv, NEW s \in Sessions, Commit(s), NEW j \in Rows'
  PROVE  /\ deliveries'[j] = job'[j].retry_count + (IF job'[j].state \in Waiting THEN 0 ELSE 1)
         /\ job'[j].retry_count = 0 \/ job'[j].retry_count <= job'[j].retry_limit
<1>1. /\ j \in JobIds /\ j \in Rows /\ job[j] \in JobRow /\ deliveries[j] \in Nat /\ job'[j] # NULL
      /\ deliveries[j] = job[j].retry_count + (IF job[j].state \in Waiting THEN 0 ELSE 1)
      /\ job[j].retry_count = 0 \/ job[j].retry_count <= job[j].retry_limit
  BY CommitRows DEF IInv, TypeOK, OneEndPerDelivery, RetryInv, Rows
<1>2. job[j].retry_count \in Nat /\ job[j].retry_limit \in Int
  BY <1>1 DEF JobRow
<1>3. CASE j \notin DOMAIN mine[s]
  BY <1>1, <1>3, CommitRows
<1>4. CASE j \in DOMAIN mine[s]
  <2>1. /\ stmt[s] \in Stmts /\ now[s] \in Int
        /\ Written(stmt[s], now[s], j, job[j], job'[j])
        /\ deliveries'[j] = IF stmt[s].fn = "fetch" THEN deliveries[j] + 1 ELSE deliveries[j]
        /\ job'[j].retry_limit = job[j].retry_limit
    BY <1>1, <1>4, CommitRows
  <2>2. stmt[s].fn \in {"fetch", "complete", "fail", "maintain", "delete", "purge", "cascade"}
    BY <2>1, StmtType
  <2>3. /\ NewState(Started(job[j], now[s]), job[j], "active", job[j].retry_count)
        /\ NewState(Completed(job[j], now[s]), job[j], "completed", job[j].retry_count)
        /\ \A w \in {Unfinished(job[j], now[s]), Expired(job[j], now[s])} :
             /\ job[j].retry_count < job[j].retry_limit =>
                  NewState(w, job[j], "retry", job[j].retry_count + 1)
             /\ ~(job[j].retry_count < job[j].retry_limit) =>
                  NewState(w, job[j], "failed", job[j].retry_count)
    BY <1>1, <1>4, CommitChange
  <2>4. CASE stmt[s].fn = "fetch"
    <3>1. job'[j] = Started(job[j], now[s]) /\ job[j].state \in Waiting
      BY <2>1, <2>4 DEF Written, Selects, Changed
    <3>2. job'[j].state = "active" /\ job'[j].retry_count = job[j].retry_count
      BY <2>3, <3>1 DEF NewState
    <3>. QED BY <1>1, <1>2, <2>1, <2>4, <3>1, <3>2 DEF Waiting
  <2>5. CASE stmt[s].fn = "complete"
    <3>1. job'[j] = Completed(job[j], now[s]) /\ job[j].state = "active"
      BY <2>1, <2>5 DEF Written, Selects, Changed
    <3>2. job'[j].state = "completed" /\ job'[j].retry_count = job[j].retry_count
      BY <2>3, <3>1 DEF NewState
    <3>. QED BY <1>1, <1>2, <2>1, <2>5, <3>1, <3>2 DEF Waiting
  <2>6. CASE stmt[s].fn \in {"fail", "maintain", "purge"}
    <3>1. job'[j] \in {Unfinished(job[j], now[s]), Expired(job[j], now[s])} /\ job[j].state = "active"
      BY <1>1, <2>1, <2>6 DEF Written, Selects, Changed, Overdue
    <3>2. CASE job[j].retry_count < job[j].retry_limit
      <4>1. job'[j].state = "retry" /\ job'[j].retry_count = job[j].retry_count + 1
        BY <2>3, <3>1, <3>2 DEF NewState
      <4>. QED BY <1>1, <1>2, <2>1, <2>6, <3>1, <3>2, <4>1 DEF Waiting
    <3>3. CASE ~(job[j].retry_count < job[j].retry_limit)
      <4>1. job'[j].state = "failed" /\ job'[j].retry_count = job[j].retry_count
        BY <2>3, <3>1, <3>3 DEF NewState
      <4>. QED BY <1>1, <1>2, <2>1, <2>6, <3>1, <3>3, <4>1 DEF Waiting
    <3>. QED BY <3>2, <3>3
  <2>7. CASE stmt[s].fn \in {"delete", "cascade"}
    BY <1>1, <2>1, <2>7, WrittenRow
  <2>. QED BY <2>2, <2>4, <2>5, <2>6, <2>7
<1>. QED BY <1>3, <1>4

\* Nobody else holds a row that s has changed, and a queue goes with its jobs.
LEMMA CommitInv ==
  ASSUME IInv, NEW s \in Sessions, Commit(s)
  PROVE  IInv'
<1>1. /\ TypeOK /\ TypeOK' /\ stmt'[s] = NULL /\ DOMAIN mine'[s] = {}
      /\ \A t \in Sessions \ {s} :
           stmt'[t] = stmt[t] /\ todo'[t] = todo[t] /\ mine'[t] = mine[t]
  BY CommitType DEF IInv
<1>2. /\ UNCHANGED <<issued, now>> /\ todo'[s] = {} /\ open' = open \ DOMAIN mine[s]
  BY <1>1 DEF Commit, End, TypeOK
<1>3. LockInv'
  <2>1. ASSUME NEW t \in Sessions, NEW j \in DOMAIN mine'[t] \cap JobIds
        PROVE  Written(stmt'[t], now'[t], j, job'[j], mine'[t][j])
    <3>1. t # s /\ j \notin DOMAIN mine[s] /\ job'[j] = job[j]
      BY <1>1, <2>1, CommitRows DEF IInv, LockInv
    <3>. QED BY <1>1, <1>2, <3>1 DEF IInv, LockInv
  <2>2. ASSUME NEW t \in Sessions, NEW q \in DOMAIN mine'[t] \cap Queues
        PROVE  stmt'[t].fn \in {"delete", "cascade"} /\ stmt'[t].queue = q /\ q \in open'
    BY <1>1, <1>2, <2>2 DEF IInv, LockInv
  <2>3. ASSUME NEW t \in Sessions, NEW u \in Sessions, t # u
        PROVE  DOMAIN mine'[t] \cap DOMAIN mine'[u] = {}
    BY <1>1, <2>3 DEF IInv, LockInv
  <2>. QED BY <2>1, <2>2, <2>3 DEF LockInv
<1>4. CascadeInv'
  <2>1. ASSUME NEW t \in Sessions, stmt'[t] # NULL, stmt'[t].fn = "cascade"
        PROVE  /\ stmt'[t].queue \in DOMAIN mine'[t]
               /\ \A j \in Rows' :
                    job'[j].name = stmt'[t].queue => j \in todo'[t] \cup DOMAIN mine'[t]
    <3>1. t # s /\ stmt'[t] = stmt[t] /\ todo'[t] = todo[t] /\ mine'[t] = mine[t]
      BY <1>1, <2>1
    <3>2. \A j \in Rows' : j \in Rows /\ job'[j].name = job[j].name
      BY CommitRows DEF Rows
    <3>. QED BY <2>1, <3>1, <3>2 DEF IInv, CascadeInv
  <2>. QED BY <2>1 DEF CascadeInv
<1>5. TodoInv'
  BY <1>1, <1>2 DEF IInv, TodoInv
<1>6. IssuedInv'
  <2>1. ASSUME NEW j \in JobIds \ issued
        PROVE  job'[j] = NULL /\ deliveries'[j] = 0
    <3>1. job[j] = NULL /\ deliveries[j] = 0
      BY DEF IInv, IssuedInv
    <3>. QED BY <3>1, CommitRows
  <2>. QED BY <1>2, <2>1 DEF IssuedInv
<1>7. RetryInv' /\ OneEndPerDelivery'
  BY CommitCounts DEF RetryInv, OneEndPerDelivery
<1>8. QueueOutlivesJobs'
  <2>1. ASSUME NEW j \in Rows', job'[j].name \in DOMAIN mine[s]
        PROVE  FALSE
    <3>1. /\ j \in JobIds /\ j \in Rows /\ job'[j] # NULL /\ job'[j] \in JobRow
          /\ job'[j].name = job[j].name /\ job'[j].name \in Queues
      BY CommitRows DEF Rows, JobRow
    <3>2. stmt[s].fn \in {"delete", "cascade"} /\ stmt[s].queue = job[j].name
      BY <2>1, <3>1 DEF IInv, LockInv
    <3>3. stmt[s] \in Stmts /\ stmt[s] # NULL /\ todo[s] = {}
      BY <3>1, CommitRows DEF Commit
    <3>4. stmt[s].fn = "cascade"
      <4>1. stmt[s].fn # "delete"
        BY <2>1 DEF Commit, Follows
      <4>. QED BY <3>2, <4>1
    <3>5. j \in DOMAIN mine[s]
      BY <3>1, <3>2, <3>3, <3>4 DEF IInv, CascadeInv
    <3>6. job'[j] = NULL
      BY <3>1, <3>4, <3>5, CommitRows, WrittenRow
    <3>. QED BY <3>1, <3>6
  <2>2. \A j \in Rows' : job'[j].name \in open
    BY CommitRows DEF IInv, QueueOutlivesJobs, Rows
  <2>. QED BY <1>2, <2>1, <2>2 DEF QueueOutlivesJobs
<1>. QED BY <1>1, <1>3, <1>4, <1>5, <1>6, <1>7, <1>8 DEF IInv

\* No send adds a job to a queue that is being deleted.
LEMMA SendInv ==
  ASSUME IInv, NEW q \in Queues, NEW r \in NewRows, Send(q, r)
  PROVE  IInv'
<1>1. TypeOK /\ TypeOK'
  BY OtherTypes DEF IInv
<1>2. PICK j \in JobIds \ issued, w \in JobRow :
        /\ issued' = issued \cup {j} /\ job' = [job EXCEPT ![j] = w]
        /\ w.name = q /\ w.state = "created" /\ w.retry_count = 0
  BY <1>1, SentRow
<1>3. /\ UNCHANGED <<open, deliveries, stmt, now, todo, mine>>
      /\ q \in open /\ \A s \in Sessions : q \notin DOMAIN mine[s]
  BY DEF Send, QueueUsable, Holds, session
<1>4. job[j] = NULL /\ deliveries[j] = 0 /\ w # NULL
  BY KeyAssumption DEF IInv, IssuedInv
<1>5. /\ job'[j] = w /\ \A i \in JobIds \ {j} : job'[i] = job[i]
      /\ Rows' = Rows \cup {j}
  BY <1>1, <1>2, <1>4 DEF TypeOK, Rows
<1>6. LockInv'
  <2>1. \A s \in Sessions : j \notin DOMAIN mine[s]
    BY <1>4 DEF IInv, LockInv, Written
  <2>. QED BY <1>3, <1>5, <2>1 DEF IInv, LockInv
<1>7. CascadeInv' /\ TodoInv'
  BY <1>2, <1>3, <1>5 DEF IInv, CascadeInv, TodoInv, Rows
<1>8. IssuedInv'
  BY <1>2, <1>3, <1>5 DEF IInv, IssuedInv
<1>9. RetryInv' /\ OneEndPerDelivery'
  BY <1>2, <1>3, <1>4, <1>5 DEF IInv, RetryInv, OneEndPerDelivery, Rows, Waiting
<1>10. QueueOutlivesJobs'
  BY <1>2, <1>3, <1>5 DEF IInv, QueueOutlivesJobs, Rows
<1>. QED BY <1>1, <1>6, <1>7, <1>8, <1>9, <1>10 DEF IInv

LEMMA CreateQueueInv ==
  ASSUME IInv, NEW q \in Queues, CreateQueue(q)
  PROVE  IInv'
<1>1. TypeOK'
  BY OtherTypes DEF IInv
<1>2. /\ UNCHANGED <<job, issued, deliveries, stmt, now, mine>> /\ open' = open \cup {q}
      /\ \A s \in Sessions : todo'[s] = todo[s] \ {q}
  BY DEF CreateQueue
<1>3. LockInv' /\ TodoInv'
  BY <1>2 DEF IInv, LockInv, TodoInv
<1>4. CascadeInv'
  <2>1. q \notin Rows
    BY LockableKeys DEF Rows, Lockable
  <2>. QED BY <1>2, <2>1 DEF IInv, CascadeInv, Rows
<1>5. IssuedInv' /\ RetryInv' /\ OneEndPerDelivery' /\ QueueOutlivesJobs'
  BY <1>2 DEF IInv, IssuedInv, RetryInv, OneEndPerDelivery, QueueOutlivesJobs, Rows
<1>. QED BY <1>1, <1>3, <1>4, <1>5 DEF IInv

LEMMA NextInv == IInv /\ [Next]_vars => IInv'
<1>. SUFFICES ASSUME IInv, [Next]_vars PROVE IInv'
  OBVIOUS
<1>1. ASSUME NEW s \in Sessions, Proceed(s)
      PROVE  IInv'
  BY <1>1, ChangeRowInv, DeleteQueueRowInv, VisitInv, NextStatementInv, CommitInv, AbortInv
     DEF Proceed, DeadlockDetected
<1>2. ASSUME NEW s \in Sessions, Disconnect(s) \/ \E c \in Calls : Call(s, c)
      PROVE  IInv'
  BY <1>2, CallInv, AbortInv DEF Disconnect
<1>3. CASE Tick \/ UNCHANGED vars
  <2>1. TypeOK'
    BY <1>3, OtherTypes DEF IInv
  <2>2. UNCHANGED <<open, job, issued, deliveries, stmt, now, todo, mine>>
    BY <1>3 DEF Tick, vars, session
  <2>3. LockInv' /\ CascadeInv' /\ TodoInv'
    BY <2>2 DEF IInv, LockInv, CascadeInv, TodoInv, Rows
  <2>. QED BY <2>1, <2>2, <2>3, RowsKept DEF IInv
<1>. QED BY <1>1, <1>2, <1>3, SendInv, CreateQueueInv DEF Next

LEMMA Invariance == Spec => []IInv
BY InitInv, NextInv, PTL DEF Spec

-----------------------------------------------------------------------------
(***************************************************************************)
(* The order of fetch.                                                     *)
(***************************************************************************)

\* The rows that nobody has touched since the fetch selected them are as it selected
\* them.
Untouched(s) ==
  \A i \in clear[s] :
    /\ stmt[s] # NULL /\ stmt[s].fn = "fetch"
    /\ Selects(stmt[s], now[s], i, job[i])
    /\ \A t \in Sessions \ {s} : i \notin DOMAIN mine[t]

\* Those it leaves out come after all that it has taken.
InOrder(s) ==
  \A i \in clear[s] \ DOMAIN mine[s] :
    /\ \A j \in DOMAIN mine[s] : Better(j, i)
    /\ i \in todo[s] \/ Cardinality(DOMAIN mine[s]) >= stmt[s].size

OrderInv == \A s \in Sessions : Untouched(s) /\ InOrder(s)

\* A step that does nothing to the rows of a fetch of t.
Undisturbed(t) ==
  /\ stmt'[t] = stmt[t] /\ now'[t] = now[t] /\ mine'[t] = mine[t]
  /\ clear'[t] \subseteq clear[t] /\ todo[t] \cap JobIds \subseteq todo'[t]
  /\ \A i \in clear'[t] \cup (DOMAIN mine[t] \cap JobIds) : job'[i] = job[i]
  /\ \A i \in clear'[t] : \A u \in Sessions \ {t} : i \notin DOMAIN mine'[u]

\* fetch locks no queue.
LEMMA FetchHolds ==
  ASSUME IInv, NEW s \in Sessions, stmt[s].fn = "fetch"
  PROVE  DOMAIN mine[s] \subseteq JobIds
BY DEF IInv, LockInv, TypeOK, Lockable

LEMMA UndisturbedOrder ==
  ASSUME IInv, NEW t \in Sessions, Untouched(t), InOrder(t), Undisturbed(t)
  PROVE  Untouched(t)' /\ InOrder(t)'
<1>1. clear[t] \subseteq JobIds /\ \A i \in clear'[t] : i \in clear[t] /\ job'[i] = job[i]
  BY DEF IInv, TypeOK, Undisturbed
<1>2. Untouched(t)'
  BY <1>1 DEF Untouched, Undisturbed
<1>3. ASSUME NEW i \in clear'[t], i \notin DOMAIN mine[t]
      PROVE  /\ \A j \in DOMAIN mine[t] : Better(j, i)'
             /\ i \in todo'[t] \/ Cardinality(DOMAIN mine[t]) >= stmt[t].size
  <2>1. stmt[t].fn = "fetch" /\ i \in JobIds
    BY <1>1, <1>3 DEF Untouched
  <2>2. \A j \in DOMAIN mine[t] : job'[j] = job[j] /\ Better(j, i)
    BY <1>1, <1>3, <2>1, FetchHolds DEF Undisturbed, InOrder
  <2>. QED BY <1>1, <1>3, <2>1, <2>2 DEF Undisturbed, InOrder, Better
<1>. QED BY <1>2, <1>3 DEF InOrder, Undisturbed

\* The next row of a fetch precedes every untouched one it still has to visit.
LEMMA NextPrecedes ==
  ASSUME IInv, OrderInv, NEW s \in Sessions, NEW j \in JobIds, ChangeRow(s, j),
         NEW i \in clear[s], i \notin DOMAIN mine[s], i # j
  PROVE  i \in todo[s] /\ Better(j, i)
<1>1. /\ stmt[s].fn = "fetch" /\ i \in JobIds /\ job[i] # NULL
      /\ TypeOK /\ stmt[s] \in Stmts
  BY Running DEF IInv, OrderInv, Untouched, Selects, TypeOK, ChangeRow
<1>2. job[j] # NULL
  BY <1>1, VersionType DEF ChangeRow, StillSelects, Selects, IInv, LockInv, Written
<1>3. i \in todo[s]
  <2>1. DOMAIN mine[s] \subseteq JobIds /\ IsFiniteSet(DOMAIN mine[s])
    BY <1>1, FetchHolds, BoundAssumption, FS_Subset
  <2>2. Cardinality(DOMAIN mine[s]) \in Nat /\ stmt[s].size \in Nat
    BY <1>1, <2>1, FS_CardinalityType, BoundAssumption DEF Stmts, Calls, Stmt
  <2>3. ~(Cardinality(DOMAIN mine[s]) >= stmt[s].size)
    BY <1>1 DEF ChangeRow, Full
  <2>. QED BY <2>3 DEF OrderInv, InOrder
<1>4. Better(j, i)
  BY <1>1, <1>2, <1>3 DEF ChangeRow, Turn, Rows
<1>. QED BY <1>3, <1>4

LEMMA ChangeRowOrder ==
  ASSUME IInv, OrderInv, NEW s \in Sessions, NEW j \in JobIds, ChangeRow(s, j)
  PROVE  OrderInv'
<1>1. /\ DOMAIN mine'[s] = DOMAIN mine[s] \cup {j}
      /\ \A t \in Sessions \ {s} : mine'[t] = mine[t]
  <2>1. /\ mine'[s] = With(mine[s], j, Changed(stmt[s], now[s], Version(s, j)))
        /\ \A t \in Sessions \ {s} : mine'[t] = mine[t]
    BY ChangeRowType DEF IInv
  <2>. QED BY <2>1 DEF With
<1>2. /\ UNCHANGED <<job, stmt, now>> /\ todo' = [todo EXCEPT ![s] = @ \ {j}]
      /\ todo \in [Sessions -> SUBSET Lockable]
      /\ clear'[s] = clear[s] /\ \A t \in Sessions \ {s} : clear'[t] = clear[t] \ {j}
  BY DEF ChangeRow, Visited, IInv, TypeOK
<1>3. ASSUME NEW t \in Sessions \ {s}
      PROVE  Untouched(t)' /\ InOrder(t)'
  <2>1. Undisturbed(t)
    BY <1>1, <1>2 DEF Undisturbed, OrderInv, Untouched
  <2>. QED BY <2>1, UndisturbedOrder DEF OrderInv
<1>4. Untouched(s)'
  BY <1>1, <1>2 DEF OrderInv, Untouched
<1>5. ASSUME NEW i \in clear[s], i \notin DOMAIN mine[s], i # j
      PROVE  /\ \A k \in DOMAIN mine[s] \cup {j} : Better(k, i)
             /\ i \in todo[s] \ {j}
  BY <1>5, NextPrecedes DEF OrderInv, InOrder
<1>6. InOrder(s)'
  <2>1. \A k, i : Better(k, i)' <=> Better(k, i)
    BY <1>2 DEF Better
  <2>. QED BY <1>1, <1>2, <1>5, <2>1 DEF InOrder
<1>. QED BY <1>3, <1>4, <1>6 DEF OrderInv

\* A fetch leaves out an untouched row only when its batch is full.
LEMMA VisitOrder ==
  ASSUME IInv, OrderInv, NEW s \in Sessions, NEW x \in Lockable, PassOver(s, x) \/ Wait(s, x)
  PROVE  OrderInv'
<1>1. /\ UNCHANGED <<job, stmt, now, mine, clear>> /\ todo \in [Sessions -> SUBSET Lockable]
      /\ UNCHANGED todo \/ (PassOver(s, x) /\ todo' = [todo EXCEPT ![s] = @ \ {x}])
  <2>1. CASE PassOver(s, x)
    <3>1. /\ UNCHANGED <<job, stmt, now, mine, clear>>
          /\ todo' = [todo EXCEPT ![s] = @ \ {x}]
      BY <2>1 DEF PassOver, Visited
    <3>. QED BY <2>1, <3>1 DEF IInv, TypeOK
  <2>2. CASE Wait(s, x)
    BY <2>2 DEF Wait, IInv, TypeOK
  <2>. QED BY <2>1, <2>2
<1>2. ASSUME PassOver(s, x), x \in clear[s], x \notin DOMAIN mine[s]
      PROVE  Cardinality(DOMAIN mine[s]) >= stmt[s].size
  <2>1. /\ x \in JobIds /\ x \notin Queues /\ stmt[s].fn = "fetch"
        /\ Selects(stmt[s], now[s], x, job[x]) /\ ~HeldByOther(s, x)
    BY <1>2, LockableKeys DEF OrderInv, Untouched, HeldByOther, Holds, IInv, TypeOK, Lockable
  <2>2. StillSelects(s, x)
    BY <1>2, <2>1, VersionType DEF StillSelects, IInv
  <2>. QED BY <1>2, <2>1, <2>2 DEF PassOver, Full
<1>3. \A k, i : Better(k, i)' <=> Better(k, i)
  BY <1>1 DEF Better
<1>4. ASSUME NEW t \in Sessions
      PROVE  Untouched(t)' /\ InOrder(t)'
  <2>1. Untouched(t)'
    BY <1>1 DEF OrderInv, Untouched
  <2>2. InOrder(t)'
    BY <1>1, <1>2, <1>3 DEF OrderInv, InOrder
  <2>. QED BY <2>1, <2>2
<1>. QED BY <1>4 DEF OrderInv

LEMMA CallOrder ==
  ASSUME IInv, OrderInv, NEW s \in Sessions, NEW c \in Calls, Call(s, c)
  PROVE  OrderInv'
<1>1. /\ DOMAIN mine[s] = {} /\ UNCHANGED <<job, mine>>
      /\ stmt'[s] = c /\ now'[s] = clock
      /\ c \in Stmts /\ c # NULL
      /\ c.fn = "fetch" => todo'[s] = Selected(s, c, clock)
      /\ clear'[s] = IF c.fn = "fetch" THEN {j \in Selected(s, c, clock) : ~HeldByOther(s, j)} ELSE {}
      /\ \A t \in Sessions \ {s} : /\ stmt'[t] = stmt[t] /\ now'[t] = now[t]
                                   /\ todo'[t] = todo[t] /\ clear'[t] = clear[t]
  BY StmtType DEF Call, IInv, TypeOK, Stmts
<1>2. ASSUME NEW t \in Sessions \ {s}
      PROVE  Untouched(t)' /\ InOrder(t)'
  <2>1. Undisturbed(t)
    BY <1>1 DEF Undisturbed, OrderInv, Untouched
  <2>. QED BY <2>1, UndisturbedOrder DEF OrderInv
<1>3. ASSUME NEW i \in clear'[s]
      PROVE  /\ c.fn = "fetch" /\ Selects(c, clock, i, job[i]) /\ i \in todo'[s]
             /\ \A t \in Sessions \ {s} : i \notin DOMAIN mine[t]
  <2>1. c.fn = "fetch" /\ i \in Selected(s, c, clock) /\ ~HeldByOther(s, i)
    BY <1>1, <1>3
  <2>2. i \in JobIds /\ Selects(c, clock, i, Version(s, i)) /\ Version(s, i) = job[i]
    BY <1>1, <2>1 DEF Selected, Version
  <2>. QED BY <1>1, <2>1, <2>2 DEF HeldByOther, Holds
<1>4. Untouched(s)'
  BY <1>1, <1>3 DEF Untouched
<1>5. InOrder(s)'
  BY <1>1, <1>3 DEF InOrder
<1>. QED BY <1>2, <1>4, <1>5 DEF OrderInv

\* The steps of s that neither take nor keep a row of a fetch.
LEMMA OtherOrder ==
  ASSUME IInv, OrderInv, NEW s \in Sessions, clear'[s] = {},
         \A t \in Sessions \ {s} :
           /\ stmt'[t] = stmt[t] /\ now'[t] = now[t] /\ todo'[t] = todo[t]
           /\ mine'[t] = mine[t] /\ clear'[t] = clear[t],
         DOMAIN mine'[s] \cap JobIds \subseteq DOMAIN mine[s],
         \A i \in JobIds \ DOMAIN mine[s] : job'[i] = job[i]
  PROVE  OrderInv'
<1>1. ASSUME NEW t \in Sessions \ {s}
      PROVE  Untouched(t)' /\ InOrder(t)'
  <2>1. clear[t] \subseteq JobIds /\ DOMAIN mine[t] \cap DOMAIN mine[s] = {}
    BY DEF IInv, TypeOK, LockInv
  <2>2. \A i \in clear[t] : \A u \in Sessions \ {t} : i \in JobIds /\ i \notin DOMAIN mine[u]
    BY <2>1 DEF OrderInv, Untouched
  <2>3. Undisturbed(t)
    BY <2>1, <2>2 DEF Undisturbed
  <2>. QED BY <2>3, UndisturbedOrder DEF OrderInv
<1>2. Untouched(s)' /\ InOrder(s)'
  BY DEF Untouched, InOrder
<1>. QED BY <1>1, <1>2 DEF OrderInv

LEMMA SendOrder ==
  ASSUME IInv, OrderInv, NEW q \in Queues, NEW r \in NewRows, Send(q, r)
  PROVE  OrderInv'
<1>1. PICK j \in JobIds \ issued, w \in JobRow : job' = [job EXCEPT ![j] = w]
  BY SentRow DEF IInv
<1>2. UNCHANGED <<stmt, now, todo, mine, clear>>
  BY DEF Send, session
<1>3. job[j] = NULL /\ job \in [JobIds -> JobRow \cup {NULL}]
  BY DEF IInv, IssuedInv, TypeOK
<1>4. \A i \in JobIds \ {j} : job'[i] = job[i]
  BY <1>1, <1>3
<1>5. ASSUME NEW t \in Sessions
      PROVE  Untouched(t)' /\ InOrder(t)'
  <2>1. j \notin clear[t]
    BY <1>3 DEF OrderInv, Untouched, Selects
  <2>2. j \notin DOMAIN mine[t]
    BY <1>3, KeyAssumption DEF IInv, LockInv, Written
  <2>3. clear[t] \subseteq JobIds
    BY DEF IInv, TypeOK
  <2>4. Undisturbed(t)
    BY <1>2, <1>4, <2>1, <2>2, <2>3 DEF Undisturbed, OrderInv, Untouched
  <2>. QED BY <2>4, UndisturbedOrder DEF OrderInv
<1>. QED BY <1>5 DEF OrderInv

\* Nothing else is a step of a fetch.
LEMMA StillOrder ==
  ASSUME IInv, OrderInv, NEW X, X \cap JobIds = {},
         UNCHANGED <<job, stmt, now, mine, clear>>,
         \A t \in Sessions : todo'[t] = todo[t] \ X
  PROVE  OrderInv'
<1>1. ASSUME NEW t \in Sessions
      PROVE  Undisturbed(t)
  BY DEF Undisturbed, OrderInv, Untouched
<1>. QED BY <1>1, UndisturbedOrder DEF OrderInv

LEMMA ProceedOrder ==
  ASSUME IInv, OrderInv, NEW s \in Sessions, Proceed(s) \/ Disconnect(s)
  PROVE  OrderInv'
<1>1. ASSUME NEW q \in Queues, DeleteQueueRow(s, q)
      PROVE  OrderInv'
  <2>1. stmt[s].fn = "delete" /\ q \notin JobIds
    BY <1>1, KeyAssumption DEF DeleteQueueRow, IInv, TodoInv
  <2>2. clear[s] = {}
    BY <2>1 DEF OrderInv, Untouched
  <2>3. /\ UNCHANGED <<job, stmt, now, clear>>
        /\ todo' = [todo EXCEPT ![s] = @ \ {q}]
        /\ mine' = [mine EXCEPT ![s] = With(@, q, NULL)]
    BY <1>1 DEF DeleteQueueRow, Visited
  <2>4. DOMAIN mine'[s] = DOMAIN mine[s] \cup {q}
    BY <2>3 DEF With, IInv, TypeOK
  <2>. QED BY <2>1, <2>2, <2>3, <2>4, OtherOrder DEF IInv, TypeOK
<1>2. ASSUME NextStatement(s)
      PROVE  OrderInv'
  <2>1. stmt[s].fn # "fetch" /\ UNCHANGED <<job, now, mine, clear>>
    BY <1>2 DEF NextStatement, Follows
  <2>2. clear[s] = {}
    BY <2>1 DEF OrderInv, Untouched
  <2>3. \A t \in Sessions \ {s} : stmt'[t] = stmt[t] /\ todo'[t] = todo[t]
    BY <1>2 DEF NextStatement, IInv, TypeOK
  <2>. QED BY <2>1, <2>2, <2>3, OtherOrder
<1>3. ASSUME End(s), \A i \in JobIds \ DOMAIN mine[s] : job'[i] = job[i]
      PROVE  OrderInv'
  BY <1>3, OtherOrder DEF End, IInv, TypeOK
<1>4. ASSUME Commit(s) \/ Abort(s)
      PROVE  OrderInv'
  <2>1. CASE Commit(s)
    <3>1. \A i \in JobIds \ DOMAIN mine[s] : job'[i] = job[i]
      BY <2>1, CommitRows
    <3>. QED BY <1>3, <2>1, <3>1 DEF Commit
  <2>2. CASE Abort(s)
    BY <1>3, <2>2 DEF Abort
  <2>. QED BY <1>4, <2>1, <2>2
<1>. QED BY <1>1, <1>2, <1>4, ChangeRowOrder, VisitOrder
         DEF Proceed, Disconnect, DeadlockDetected

LEMMA NextOrder == IInv /\ OrderInv /\ [Next]_vars => OrderInv'
<1>. SUFFICES ASSUME IInv, OrderInv, [Next]_vars PROVE OrderInv'
  OBVIOUS
<1>1. ASSUME NEW s \in Sessions, NEW c \in Calls, Call(s, c)
      PROVE  OrderInv'
  BY <1>1, CallOrder
<1>2. ASSUME NEW q \in Queues, CreateQueue(q)
      PROVE  OrderInv'
  BY <1>2, StillOrder, KeyAssumption DEF CreateQueue
<1>3. CASE Tick \/ UNCHANGED vars
  <2>1. UNCHANGED <<job, stmt, now, mine, clear>> /\ \A t \in Sessions : todo'[t] = todo[t] \ {}
    BY <1>3 DEF Tick, vars, session
  <2>. QED BY <2>1, StillOrder
<1>. QED BY <1>1, <1>2, <1>3, ProceedOrder, SendOrder DEF Next

LEMMA OrderInvariance == Spec => []OrderInv
<1>1. Init => OrderInv
  BY DEF Init, OrderInv, Untouched, InOrder
<1>. QED BY <1>1, NextOrder, Invariance, PTL DEF Spec

\* A fetch takes no job while it leaves out one that outranks it, is due and has been
\* free all along, and leaves one out only when its batch is full.
THEOREM FetchTakesBest == Spec => []BestFirst
<1>1. IInv /\ OrderInv => BestFirst
  <2>. SUFFICES ASSUME IInv, OrderInv, NEW s \in Sessions, NEW i \in clear[s] \ DOMAIN mine[s],
                       NEW j \in DOMAIN mine[s]
                PROVE  ~Outranks(i, j)
    BY DEF BestFirst, OrderInv, InOrder
  <2>1. stmt[s].fn = "fetch" /\ i \in JobIds /\ job[i] # NULL /\ Better(j, i)
    BY DEF OrderInv, Untouched, InOrder, Selects, IInv, TypeOK
  <2>2. j \in JobIds /\ job[j] # NULL
    BY <2>1, FetchHolds, KeyAssumption DEF IInv, LockInv, Written
  <2>3. job[i] \in JobRow /\ job[j] \in JobRow
    BY <2>1, <2>2 DEF IInv, TypeOK
  <2>4. /\ job[i].priority \in Int /\ job[j].priority \in Int
        /\ job[i].created_on \in Int /\ job[j].created_on \in Int
    BY <2>3 DEF JobRow
  <2>. QED BY <2>1, <2>4 DEF Better, Outranks
<1>. QED BY <1>1, Invariance, OrderInvariance, PTL

-----------------------------------------------------------------------------
(***************************************************************************)
(* Waiting in a circle.                                                    *)
(***************************************************************************)

\* A session waits for a row it still has to visit, and fetch waits for none.  complete,
\* fail and the first statement of delete_queue visit one row and hold none before it.
WaitInv(s) ==
  /\ want[s] # NULL => want[s] \in todo[s] /\ stmt[s].fn # "fetch"
  /\ stmt[s] # NULL =>
       /\ stmt[s].fn \in {"complete", "fail"} => todo[s] \subseteq {stmt[s].job}
       /\ stmt[s].fn = "delete" => todo[s] \subseteq {stmt[s].queue}
       /\ stmt[s].fn \in {"complete", "fail", "delete"} => todo[s] = {} \/ DOMAIN mine[s] = {}

CircleInv == \A s \in Sessions : WaitInv(s)

\* A session that the step leaves alone, but for rows it need not visit any more.
LEMMA SameWait ==
  ASSUME NEW s, WaitInv(s), stmt'[s] = stmt[s], mine'[s] = mine[s],
         todo'[s] \subseteq todo[s], want'[s] = NULL \/ (want'[s] = want[s] /\ want[s] \in todo'[s])
                                   \/ (want'[s] = want[s] /\ todo'[s] = todo[s])
  PROVE  WaitInv(s)'
BY DEF WaitInv

LEMMA CallWait ==
  ASSUME IInv, CircleInv, NEW s \in Sessions, NEW c \in Calls, Call(s, c)
  PROVE  CircleInv'
<1>1. /\ DOMAIN mine[s] = {} /\ want[s] = NULL /\ UNCHANGED <<want, mine>>
      /\ stmt'[s] = c
      /\ todo'[s] = IF c.fn = "delete" THEN {c.queue} \cap open ELSE Selected(s, c, clock)
      /\ \A t \in Sessions \ {s} : stmt'[t] = stmt[t] /\ todo'[t] = todo[t]
  BY DEF Call, IInv, TypeOK
<1>2. c.fn \in {"complete", "fail"} => Selected(s, c, clock) \subseteq {c.job}
  BY DEF Selected, Selects
<1>3. WaitInv(s)'
  BY <1>1, <1>2 DEF WaitInv
<1>. QED BY <1>1, <1>3, SameWait DEF CircleInv

\* The steps of a call of s.
LEMMA ProceedWait ==
  ASSUME IInv, CircleInv, NEW s \in Sessions, Proceed(s) \/ Disconnect(s)
  PROVE  CircleInv'
<1>. DEFINE Others(t) == /\ stmt'[t] = stmt[t] /\ todo'[t] = todo[t] /\ want'[t] = want[t]
                         /\ mine'[t] = mine[t]
<1>1. ASSUME WaitInv(s)', \A t \in Sessions \ {s} : Others(t)
      PROVE  CircleInv'
  BY <1>1, SameWait DEF CircleInv
<1>2. ASSUME NEW x \in Lockable, Visited(s, x), x \in todo[s],
             \A t \in Sessions \ {s} : mine'[t] = mine[t],
             mine'[s] # mine[s] /\ stmt[s].fn \in {"complete", "fail", "delete"} => todo[s] = {x}
      PROVE  CircleInv'
  <2>1. /\ stmt' = stmt /\ todo'[s] = todo[s] \ {x} /\ want'[s] = NULL
        /\ \A t \in Sessions \ {s} : todo'[t] = todo[t] /\ want'[t] = want[t]
    BY <1>2 DEF Visited, IInv, TypeOK
  <2>2. WaitInv(s)'
    BY <1>2, <2>1 DEF CircleInv, WaitInv
  <2>. QED BY <1>1, <1>2, <2>1, <2>2
<1>3. ASSUME NEW j \in JobIds, ChangeRow(s, j)
      PROVE  CircleInv'
  <2>1. stmt[s] # NULL /\ j \in todo[s] /\ Visited(s, j) /\ j \in Lockable
    BY <1>3 DEF ChangeRow, IInv, TypeOK, Lockable
  <2>2. \A t \in Sessions \ {s} : mine'[t] = mine[t]
    BY <1>3, ChangeRowType DEF IInv
  <2>3. stmt[s].fn \in {"complete", "fail", "delete"} => todo[s] = {j}
    BY <2>1 DEF CircleInv, WaitInv
  <2>. QED BY <1>2, <2>1, <2>2, <2>3
<1>4. ASSUME NEW q \in Queues, DeleteQueueRow(s, q)
      PROVE  CircleInv'
  <2>1. stmt[s] # NULL /\ q \in todo[s] /\ Visited(s, q) /\ q \in Lockable
    BY <1>4 DEF DeleteQueueRow, IInv, TypeOK, Lockable
  <2>2. \A t \in Sessions \ {s} : mine'[t] = mine[t]
    BY <1>4, DeleteQueueRowType DEF IInv
  <2>3. stmt[s].fn \in {"complete", "fail", "delete"} => todo[s] = {q}
    BY <2>1 DEF CircleInv, WaitInv
  <2>. QED BY <1>2, <2>1, <2>2, <2>3
<1>5. ASSUME NEW x \in Lockable, PassOver(s, x)
      PROVE  CircleInv'
  BY <1>2, <1>5 DEF PassOver
<1>6. ASSUME NEW x \in Lockable, Wait(s, x)
      PROVE  CircleInv'
  <2>1. /\ UNCHANGED <<stmt, todo, mine>> /\ want'[s] = x /\ x \in todo[s] /\ stmt[s].fn # "fetch"
        /\ \A t \in Sessions \ {s} : want'[t] = want[t]
    BY <1>6 DEF Wait, Skips, IInv, TypeOK
  <2>2. WaitInv(s)'
    BY <2>1 DEF CircleInv, WaitInv
  <2>. QED BY <1>1, <2>1, <2>2
<1>7. ASSUME NextStatement(s)
      PROVE  CircleInv'
  <2>1. PICK c \in Follows(s) : stmt' = [stmt EXCEPT ![s] = c]
    BY <1>7 DEF NextStatement
  <2>2. stmt'[s].fn \in {"purge", "cascade"}
    <3>1. stmt[s] \in Stmts
      BY <1>7 DEF NextStatement, IInv, TypeOK
    <3>. QED BY <2>1, <3>1, FollowsStmt DEF IInv, TypeOK
  <2>3. /\ todo[s] = {} /\ UNCHANGED <<want, mine>>
        /\ \A t \in Sessions \ {s} : stmt'[t] = stmt[t] /\ todo'[t] = todo[t]
    BY <1>7 DEF NextStatement, IInv, TypeOK
  <2>4. want'[s] = NULL
    BY <2>3 DEF CircleInv, WaitInv
  <2>5. WaitInv(s)'
    BY <2>2, <2>4 DEF WaitInv
  <2>. QED BY <1>1, <2>3, <2>5
<1>8. ASSUME End(s)
      PROVE  CircleInv'
  <2>1. /\ stmt'[s] = NULL /\ want'[s] = NULL
        /\ \A t \in Sessions \ {s} : Others(t)
    BY <1>8 DEF End, IInv, TypeOK
  <2>2. WaitInv(s)'
    BY <2>1 DEF WaitInv
  <2>. QED BY <1>1, <2>1, <2>2
<1>. QED BY <1>3, <1>4, <1>5, <1>6, <1>7, <1>8
         DEF Proceed, Disconnect, DeadlockDetected, Commit, Abort

LEMMA NextWait == IInv /\ CircleInv /\ [Next]_vars => CircleInv'
<1>. SUFFICES ASSUME IInv, CircleInv, [Next]_vars PROVE CircleInv'
  OBVIOUS
<1>1. ASSUME NEW q \in Queues, CreateQueue(q)
      PROVE  CircleInv'
  <2>1. ASSUME NEW s \in Sessions
        PROVE  WaitInv(s)'
    <3>1. /\ UNCHANGED <<stmt, mine>> /\ todo'[s] = todo[s] \ {q}
          /\ want'[s] = IF want[s] = q THEN NULL ELSE want[s]
      BY <1>1 DEF CreateQueue
    <3>. QED BY <3>1, SameWait DEF CircleInv, WaitInv
  <2>. QED BY <2>1 DEF CircleInv
<1>2. ASSUME UNCHANGED <<stmt, todo, want, mine>>
      PROVE  CircleInv'
  BY <1>2 DEF CircleInv, WaitInv
<1>3. CASE Tick \/ UNCHANGED vars \/ \E q \in Queues, r \in NewRows : Send(q, r)
  BY <1>2, <1>3 DEF Tick, Send, vars, session
<1>. QED BY <1>1, <1>3, CallWait, ProceedWait DEF Next

\* No deadlock ever ends a fetch, a complete, a fail or the first statement of
\* delete_queue: none of them holds one row while it waits for another.
THEOREM ReportsNeverDeadlock == Spec => []OnlySweepsDeadlock
<1>1. Init => CircleInv
  BY DEF Init, CircleInv, WaitInv
<1>2. IInv /\ CircleInv => OnlySweepsDeadlock
  <2>. SUFFICES ASSUME IInv, CircleInv, NEW s \in Sessions, stmt[s] # NULL, Deadlocked(s)
                PROVE  stmt[s].fn \in {"maintain", "purge", "cascade"}
    BY DEF OnlySweepsDeadlock
  <2>1. want[s] # NULL /\ DOMAIN mine[s] # {}
    BY DEF Deadlocked, Holds
  <2>2. stmt[s] \in Stmts
    BY DEF IInv, TypeOK
  <2>3. stmt[s].fn \in {"fetch", "complete", "fail", "maintain", "delete", "purge", "cascade"}
    BY <2>2, StmtType
  <2>. QED BY <2>1, <2>3 DEF CircleInv, WaitInv
<1>. QED BY <1>1, <1>2, NextWait, Invariance, PTL DEF Spec

-----------------------------------------------------------------------------
(***************************************************************************)
(* The mapping.                                                            *)
(***************************************************************************)

\* The job that the mapping makes of j, before and after a step.
LEMMA View ==
  ASSUME IInv, IInv', NEW j \in JobIds
  PROVE  /\ j \in Rows => task[j] = RowTask(job[j], deliveries[j])
         /\ j \in Rows' => task'[j] = RowTask(job'[j], deliveries'[j])
         /\ j \in issued \ Rows => task[j] = NoTask("gone", deliveries[j])
         /\ j \in issued' \ Rows' => task'[j] = NoTask("gone", deliveries'[j])
         /\ j \notin issued => task[j] = NoTask("none", 0)
         /\ j \in Rows => j \in issued
BY DEF task, IInv, IssuedInv, Rows

LEMMA SameTask ==
  ASSUME IInv, IInv', NEW j \in JobIds, job'[j] = job[j], deliveries'[j] = deliveries[j],
         j \in issued' <=> j \in issued
  PROVE  task'[j] = task[j]
BY DEF task

LEMMA RowTaskType ==
  ASSUME NEW r \in JobRow, NEW n \in Nat
  PROVE  RowTask(r, n) \in Lifecycle!Task
<1>1. LimitOf(r) \in Nat
  BY DEF LimitOf, JobRow
<1>2. r.name \in Queues /\ r.state \in JobState
  BY DEF JobRow
<1>. QED BY <1>1, <1>2
     DEF RowTask, Lifecycle!Task, Lifecycle!Status, JobState, Waiting, Terminal

LEMMA TaskType ==
  ASSUME IInv'
  PROVE  task' \in [JobIds -> Lifecycle!Task]
<1>1. ASSUME NEW j \in JobIds
      PROVE  task'[j] \in Lifecycle!Task
  <2>1. deliveries'[j] \in Nat /\ (job'[j] # NULL => job'[j] \in JobRow)
    BY DEF IInv, TypeOK
  <2>2. NoTask("none", 0) \in Lifecycle!Task /\ NoTask("gone", deliveries'[j]) \in Lifecycle!Task
    BY <2>1 DEF NoTask, Lifecycle!Task, Lifecycle!Status
  <2>3. job'[j] # NULL => RowTask(job'[j], deliveries'[j]) \in Lifecycle!Task
    BY <2>1, RowTaskType
  <2>. QED BY <2>2, <2>3 DEF task
<1>. QED BY <1>1 DEF task

LEMMA InitMaps == Init => Lifecycle!Init
BY DEF Init, Lifecycle!Init, task, NoTask, Lifecycle!NoTask

\* A row that changed its state, as the mapping sees it.
LEMMA ChangedTask ==
  ASSUME NEW r \in JobRow, NEW w \in JobRow, w.name = r.name, w.retry_limit = r.retry_limit, NEW n
  PROVE  /\ w.state \in Waiting => RowTask(w, n) = [RowTask(r, n) EXCEPT !.status = "waiting"]
         /\ w.state \notin Waiting => RowTask(w, n) = [RowTask(r, n) EXCEPT !.status = w.state]
BY DEF RowTask, LimitOf

\* A job that s has changed, before and after the COMMIT.
LEMMA CommitView ==
  ASSUME IInv, IInv', NEW s \in Sessions, Commit(s), NEW j \in DOMAIN mine[s] \cap JobIds
  PROVE  /\ job[j] \in JobRow /\ now[s] \in Int /\ stmt[s] \in Stmts
         /\ Written(stmt[s], now[s], j, job[j], job'[j])
         /\ task[j] = RowTask(job[j], deliveries[j])
         /\ task[j].attempts = deliveries[j] /\ task[j].limit = LimitOf(job[j])
         /\ job'[j] = NULL => task'[j] = NoTask("gone", deliveries'[j])
         /\ job'[j] # NULL => task'[j] = RowTask(job'[j], deliveries'[j])
<1>1. /\ job[j] \in JobRow /\ now[s] \in Int /\ stmt[s] \in Stmts /\ j \in Rows
      /\ Written(stmt[s], now[s], j, job[j], job'[j]) /\ issued' = issued
  BY CommitRows DEF Rows, Commit, End
<1>2. task[j] = RowTask(job[j], deliveries[j]) /\ j \in issued
  BY <1>1, View
<1>3. task[j].attempts = deliveries[j] /\ task[j].limit = LimitOf(job[j])
  BY <1>2 DEF RowTask
<1>4. j \in Rows' <=> job'[j] # NULL
  BY DEF Rows
<1>. QED BY <1>1, <1>2, <1>3, <1>4, View

\* COMMIT of boss.fetch
LEMMA FetchMaps ==
  ASSUME IInv, IInv', NEW s \in Sessions, Commit(s), stmt[s].fn = "fetch"
  PROVE  Lifecycle!Claim(stmt[s].queue)
<1>. DEFINE q == stmt[s].queue
<1>1. ASSUME NEW j \in JobIds, j \in DOMAIN mine[s]
      PROVE  /\ task[j].status = "waiting" /\ task[j].home = q
             /\ task'[j] = [status |-> "active", home |-> q,
                            attempts |-> task[j].attempts + 1, limit |-> task[j].limit]
  <2>1. /\ job[j] \in JobRow /\ now[s] \in Int
        /\ Written(stmt[s], now[s], j, job[j], job'[j])
        /\ task[j] = RowTask(job[j], deliveries[j])
        /\ job'[j] # NULL => task'[j] = RowTask(job'[j], deliveries'[j])
        /\ deliveries'[j] = deliveries[j] + 1
    BY <1>1, CommitView, CommitRows
  <2>2. job'[j] = Started(job[j], now[s]) /\ job[j].state \in Waiting /\ job[j].name = q
    BY <2>1 DEF Written, Selects, Changed
  <2>3. /\ job'[j] \in JobRow /\ job'[j].name = q /\ job'[j].state = "active"
        /\ job'[j].retry_limit = job[j].retry_limit
    BY <1>1, <2>2, CommitChange DEF NewState
  <2>. QED BY <2>1, <2>2, <2>3, KeyAssumption DEF RowTask, LimitOf, Waiting
<1>2. ASSUME NEW j \in JobIds, j \notin DOMAIN mine[s]
      PROVE  task'[j] = task[j]
  BY <1>2, CommitRows, SameTask DEF Commit, End
<1>. QED BY <1>1, <1>2 DEF Lifecycle!Claim, Lifecycle!Stays

\* COMMIT of boss.complete
LEMMA CompleteMaps ==
  ASSUME IInv, IInv', NEW s \in Sessions, Commit(s), stmt[s].fn = "complete"
  PROVE  task' = task \/ \E i \in JobIds : Lifecycle!Finish(i)
<1>1. ASSUME NEW j \in JobIds, j \in DOMAIN mine[s]
      PROVE  /\ j = stmt[s].job /\ task[j].status = "active"
             /\ task'[j] = [task[j] EXCEPT !.status = "completed"]
  <2>1. /\ job[j] \in JobRow /\ now[s] \in Int
        /\ Written(stmt[s], now[s], j, job[j], job'[j])
        /\ task[j] = RowTask(job[j], deliveries[j])
        /\ job'[j] # NULL => task'[j] = RowTask(job'[j], deliveries'[j])
        /\ deliveries'[j] = deliveries[j]
    BY <1>1, CommitView, CommitRows
  <2>2. job'[j] = Completed(job[j], now[s]) /\ job[j].state = "active" /\ j = stmt[s].job
    BY <2>1 DEF Written, Selects, Changed
  <2>3. /\ job'[j] \in JobRow /\ job'[j].name = job[j].name /\ job'[j].state = "completed"
        /\ job'[j].retry_limit = job[j].retry_limit
    BY <1>1, <2>2, CommitChange DEF NewState
  <2>4. RowTask(job'[j], deliveries[j]) = [task[j] EXCEPT !.status = "completed"]
    BY <2>1, <2>3, ChangedTask DEF Waiting
  <2>5. task[j].status = "active"
    BY <2>1, <2>2 DEF RowTask, Waiting
  <2>. QED BY <2>1, <2>2, <2>3, <2>4, <2>5, KeyAssumption
<1>2. ASSUME NEW j \in JobIds, j \notin DOMAIN mine[s]
      PROVE  task'[j] = task[j]
  BY <1>2, CommitRows, SameTask DEF Commit, End
<1>3. CASE \E j \in JobIds : j \in DOMAIN mine[s]
  <2>1. PICK j \in JobIds : j \in DOMAIN mine[s]
    BY <1>3
  <2>2. \A i \in JobIds \ {j} : i \notin DOMAIN mine[s]
    BY <1>1, <2>1
  <2>. QED BY <1>1, <1>2, <2>1, <2>2 DEF Lifecycle!Finish, Lifecycle!Moves, Lifecycle!Stays
<1>4. CASE \A j \in JobIds : j \notin DOMAIN mine[s]
  BY <1>2, <1>4 DEF task
<1>. QED BY <1>3, <1>4

\* COMMIT of boss.fail and boss.maintain: the attempts of a job are used up
\* exactly when it is given up.
LEMMA SweepMaps ==
  ASSUME IInv, IInv', NEW s \in Sessions, Commit(s), stmt[s].fn \in {"fail", "purge"}
  PROVE  Lifecycle!Sweep
<1>1. ASSUME NEW j \in JobIds, j \in DOMAIN mine[s], job[j].state = "active"
      PROVE  \/ /\ ~Lifecycle!Exhausted(j)
                /\ task'[j] = [task[j] EXCEPT !.status = "waiting"]
             \/ /\ Lifecycle!Exhausted(j)
                /\ \/ task'[j] = [task[j] EXCEPT !.status = "failed"]
                   \/ task'[j] = NoTask("gone", task[j].attempts)
  <2>1. /\ job[j] \in JobRow /\ now[s] \in Int /\ j \in Rows
        /\ Written(stmt[s], now[s], j, job[j], job'[j])
        /\ task[j] = RowTask(job[j], deliveries[j])
        /\ task[j].attempts = deliveries[j] /\ task[j].limit = LimitOf(job[j])
        /\ job'[j] = NULL => task'[j] = NoTask("gone", deliveries[j])
        /\ job'[j] # NULL => task'[j] = RowTask(job'[j], deliveries[j])
    BY <1>1, CommitView, CommitRows DEF Rows
  <2>2. /\ deliveries[j] = job[j].retry_count + 1
        /\ job[j].retry_count = 0 \/ job[j].retry_count <= job[j].retry_limit
        /\ job[j].retry_count \in Nat /\ job[j].retry_limit \in Int
    BY <1>1, <2>1 DEF IInv, OneEndPerDelivery, RetryInv, JobRow, Waiting
  <2>3. Lifecycle!Exhausted(j) <=> ~(job[j].retry_count < job[j].retry_limit)
    BY <2>1, <2>2 DEF Lifecycle!Exhausted, LimitOf
  <2>. DEFINE Ends == {Unfinished(job[j], now[s]), Expired(job[j], now[s])}
  <2>4. \/ job'[j] \in Ends
        \/ job'[j] = NULL /\ Expired(job[j], now[s]).state \in Terminal
    BY <1>1, <2>1 DEF Written, Selects, Changed, Expendable, Terminal
  <2>5. \A w \in Ends :
          /\ w \in JobRow /\ w.name = job[j].name /\ w.retry_limit = job[j].retry_limit
          /\ job[j].retry_count < job[j].retry_limit => w.state = "retry"
          /\ ~(job[j].retry_count < job[j].retry_limit) => w.state = "failed"
    BY <1>1, CommitChange DEF NewState
  <2>6. Expired(job[j], now[s]) \in Ends
    OBVIOUS
  <2>. HIDE DEF Ends
  <2>7. CASE job'[j] \in Ends
    <3>1. job'[j] # NULL /\ job'[j] \in JobRow
      BY <2>5, <2>7, KeyAssumption
    <3>2. /\ job'[j].state \in Waiting => task'[j] = [task[j] EXCEPT !.status = "waiting"]
          /\ job'[j].state \notin Waiting => task'[j] = [task[j] EXCEPT !.status = job'[j].state]
      BY <2>1, <2>5, <2>7, <3>1, ChangedTask
    <3>. QED BY <2>3, <2>5, <2>7, <3>2 DEF Waiting
  <2>8. CASE job'[j] = NULL /\ Expired(job[j], now[s]).state \in Terminal
    <3>1. ~(job[j].retry_count < job[j].retry_limit)
      BY <2>5, <2>6, <2>8 DEF Terminal
    <3>. QED BY <2>1, <2>3, <2>8, <3>1
  <2>. QED BY <2>4, <2>7, <2>8
<1>2. ASSUME NEW j \in JobIds, j \in DOMAIN mine[s], job[j].state # "active"
      PROVE  /\ task[j].status \in {"completed", "failed", "cancelled"}
             /\ task'[j] = NoTask("gone", task[j].attempts)
  <2>1. /\ Written(stmt[s], now[s], j, job[j], job'[j])
        /\ task[j] = RowTask(job[j], deliveries[j]) /\ task[j].attempts = deliveries[j]
        /\ job'[j] = NULL => task'[j] = NoTask("gone", deliveries[j])
    BY <1>2, CommitView, CommitRows
  <2>2. job[j].state \in Terminal /\ job'[j] = NULL
    BY <1>2, <2>1 DEF Written, Selects, Overdue, Expendable
  <2>. QED BY <2>1, <2>2 DEF RowTask, Terminal, Waiting
<1>3. ASSUME NEW j \in JobIds, j \notin DOMAIN mine[s]
      PROVE  task'[j] = task[j]
  BY <1>3, CommitRows, SameTask DEF Commit, End
<1>4. ASSUME NEW j \in JobIds, j \in DOMAIN mine[s], job[j].state = "active"
      PROVE  task[j].status = "active"
  <2>1. task[j] = RowTask(job[j], deliveries[j])
    BY <1>4, CommitView
  <2>. QED BY <1>4, <2>1 DEF RowTask, Waiting
<1>. QED BY <1>1, <1>2, <1>3, <1>4
     DEF Lifecycle!Sweep, Lifecycle!Stays, Lifecycle!Moves, Lifecycle!Vanishes, Lifecycle!NoTask,
         NoTask

\* COMMIT of boss.delete_queue: all jobs of the queue go, and no others.
LEMMA CascadeMaps ==
  ASSUME IInv, IInv', NEW s \in Sessions, Commit(s), stmt[s].fn = "cascade"
  PROVE  Lifecycle!Drop(stmt[s].queue)
<1>. DEFINE q == stmt[s].queue
<1>1. q \in Queues /\ stmt[s] \in Stmts /\ stmt[s] # NULL /\ todo[s] = {}
  BY Running, StmtType DEF IInv, Commit
<1>2. ASSUME NEW j \in JobIds, j \in DOMAIN mine[s]
      PROVE  task[j].home = q /\ task'[j] = NoTask("gone", task[j].attempts)
  <2>1. /\ Written(stmt[s], now[s], j, job[j], job'[j])
        /\ task[j] = RowTask(job[j], deliveries[j]) /\ task[j].attempts = deliveries[j]
        /\ job'[j] = NULL => task'[j] = NoTask("gone", deliveries[j])
    BY <1>2, CommitView, CommitRows
  <2>2. job[j].name = q /\ job'[j] = NULL
    BY <2>1 DEF Written, Selects, Changed
  <2>. QED BY <2>1, <2>2 DEF RowTask
<1>3. ASSUME NEW j \in JobIds, j \notin DOMAIN mine[s]
      PROVE  task[j].home # q /\ task'[j] = task[j]
  <2>1. task'[j] = task[j]
    BY <1>3, CommitRows, SameTask DEF Commit, End
  <2>2. j \in Rows => job[j].name # q
    BY <1>1, <1>3 DEF IInv, CascadeInv
  <2>. QED BY <1>1, <2>1, <2>2, KeyAssumption DEF task, NoTask, RowTask, Rows
<1>. QED BY <1>2, <1>3 DEF Lifecycle!Drop, Lifecycle!Stays, Lifecycle!Vanishes,
                           Lifecycle!NoTask, NoTask

LEMMA CommitMaps ==
  ASSUME IInv, IInv', NEW s \in Sessions, Commit(s)
  PROVE  Lifecycle!Next \/ task' = task
<1>1. task' \in [JobIds -> Lifecycle!Task]
  BY TaskType
<1>2. stmt[s] \in Stmts /\ Follows(s) = {} /\ TypeOK
  BY Running DEF IInv, Commit
<1>3. /\ stmt[s].fn \in {"fetch", "complete", "fail", "maintain", "delete", "purge", "cascade"}
      /\ stmt[s].fn \notin {"maintain", "purge"} => stmt[s].queue \in Queues
  BY <1>2, StmtType
<1>4. stmt[s].fn # "maintain"
  BY <1>2 DEF Follows
<1>5. CASE stmt[s].fn = "delete"
  <2>1. DOMAIN mine[s] = {}
    BY <1>2, <1>5 DEF Follows
  <2>2. \A j \in JobIds : task'[j] = task[j]
    BY <2>1, CommitRows, SameTask DEF Commit, End
  <2>. QED BY <2>2 DEF task
<1>. QED BY <1>1, <1>3, <1>4, <1>5, FetchMaps, CompleteMaps, SweepMaps, CascadeMaps
     DEF Lifecycle!Next

LEMMA SendMaps ==
  ASSUME IInv, IInv', NEW q \in Queues, NEW r \in NewRows, Send(q, r)
  PROVE  Lifecycle!Next
<1>1. PICK j \in JobIds \ issued, w \in JobRow :
        /\ issued' = issued \cup {j} /\ job' = [job EXCEPT ![j] = w]
        /\ w.name = q /\ w.state = "created" /\ w.retry_count = 0
  BY SentRow DEF IInv
<1>2. deliveries' = deliveries /\ deliveries[j] = 0 /\ w # NULL /\ job'[j] = w
  BY <1>1, KeyAssumption DEF Send, IInv, IssuedInv, TypeOK
<1>3. /\ task[j].status = "none"
      /\ task'[j].status = "waiting" /\ task'[j].attempts = 0
      /\ task'[j].home \in Queues /\ task'[j].limit \in Nat
  <2>1. task[j] = NoTask("none", 0) /\ task'[j] = RowTask(w, 0)
    BY <1>1, <1>2, View DEF Rows
  <2>2. LimitOf(w) \in Nat
    BY DEF LimitOf, JobRow
  <2>. QED BY <1>1, <2>1, <2>2 DEF NoTask, RowTask, Waiting
<1>4. \A i \in JobIds \ {j} : task'[i] = task[i]
  BY <1>1, <1>2, SameTask DEF IInv, TypeOK
<1>. QED BY <1>3, <1>4, TaskType DEF Lifecycle!Next, Lifecycle!Enqueue, Lifecycle!Stays

LEMMA NextMaps ==
  ASSUME IInv, IInv', [Next]_vars
  PROVE  [Lifecycle!Next]_task
<1>1. ASSUME UNCHANGED <<job, issued, deliveries>>
      PROVE  task' = task
  BY <1>1 DEF task
<1>2. ASSUME NEW s \in Sessions, Proceed(s) \/ Disconnect(s) \/ \E c \in Calls : Call(s, c)
      PROVE  Lifecycle!Next \/ task' = task
  <2>1. CASE Commit(s)
    BY <2>1, CommitMaps
  <2>2. CASE ~Commit(s)
    <3>1. UNCHANGED <<job, issued, deliveries>>
      BY <1>2, <2>2 DEF Proceed, ChangeRow, DeleteQueueRow, PassOver, Visited, Wait,
           NextStatement, DeadlockDetected, Disconnect, Abort, End, Call
    <3>. QED BY <1>1, <3>1
  <2>. QED BY <2>1, <2>2
<1>3. CASE \E q \in Queues, r \in NewRows : Send(q, r)
  BY <1>3, SendMaps
<1>4. CASE (\E q \in Queues : CreateQueue(q)) \/ Tick \/ UNCHANGED vars
  BY <1>1, <1>4 DEF CreateQueue, Tick, vars
<1>. QED BY <1>2, <1>3, <1>4 DEF Next

-----------------------------------------------------------------------------
(***************************************************************************)
(* The theorems.                                                           *)
(***************************************************************************)

\* Every variable keeps its type.
THEOREM StatementTypes == Spec => []TypeOK
<1>1. IInv => TypeOK
  BY DEF IInv
<1>. QED BY <1>1, Invariance, PTL

\* A delivery ends once, however complete, fail and maintain meet on its row: the row
\* is locked, and looked at again once it is.
THEOREM DeliveriesEndOnce == Spec => []OneEndPerDelivery
<1>1. IInv => OneEndPerDelivery
  BY DEF IInv
<1>. QED BY <1>1, Invariance, PTL

\* The cascade of delete_queue misses no job, of sends that overlap it either.
THEOREM CascadeMissesNone == Spec => []QueueOutlivesJobs
<1>1. IInv => QueueOutlivesJobs
  BY DEF IInv
<1>. QED BY <1>1, Invariance, PTL

\* Run row by row, the functions do to a job only what JobLifecycle allows.
THEOREM RowByRowRefinement == Spec => CallsImplementLifecycle
<1>1. IInv /\ IInv' /\ [Next]_vars => [Lifecycle!Next]_task
  BY NextMaps
<1>. QED BY <1>1, Invariance, InitMaps, PTL DEF Spec, CallsImplementLifecycle, Lifecycle!Spec

=============================================================================
