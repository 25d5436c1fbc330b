---------------------------- MODULE Maintenance ----------------------------
(***************************************************************************)
(* The background worker: registered by _PG_init when the library is       *)
(* preloaded, started and restarted by the postmaster, connected to one    *)
(* database, and running boss.maintain whenever wait_latch returns.        *)
(*                                                                         *)
(* Around it the database and the extension are created and dropped, the   *)
(* configuration is reloaded, signals arrive and maintain fails.  Of the   *)
(* jobs only the one that has been overdue longest matters; what maintain  *)
(* does to it is in Boss.  Steps of the worker take no time compared with  *)
(* the second in which its timers count, so time stops while it can run.   *)
(***************************************************************************)
EXTENDS Integers

CONSTANTS Settings,   \* values of taskboss.maintenance_interval
          Slowest,    \* the greatest of them
          MaxClock,   \* bound on time, in seconds
          MaxEvents,  \* bound on reloads, signals, drops, failures and restarts
          NULL

ASSUME SettingAssumption ==
  /\ Settings \subseteq Nat \ {0}   \* 1 to 86400, so max(1) changes nothing
  /\ Slowest \in Nat /\ \A v \in Settings : v <= Slowest
  /\ NULL \notin Nat
  /\ MaxClock \in Nat /\ MaxEvents \in Nat

VARIABLES clock,
          preloaded,  \* is taskboss in shared_preload_libraries?
          exists,     \* does the database taskboss.database names exist?
          installed,  \* is the extension installed in it?
          setting,    \* taskboss.maintenance_interval, as last loaded
          worker,     \* where the worker is
          interval,   \* the interval it has read, NULL before it first did
          wakeAt,     \* when its wait times out, or the postmaster starts it
          sighup, sigterm,  \* signals that arrived
          overdue,    \* since when an overdue job waits for the worker, or NULL
          setbacks,   \* how often the worker has had to start since then
          events,     \* how often something disturbed the worker
          crashes     \* how often a run of maintain ended the worker

server   == <<preloaded, exists, installed, setting>>
process  == <<worker, interval, wakeAt, sighup, sigterm>>
history  == <<overdue, setbacks, events, crashes>>
vars     == <<clock, server, process, history>>

RestartTime == 5

Running == {"waiting", "begun", "checked"}

\* The postmaster runs the worker or is going to start it.
Registered == worker \in {"registered"} \cup Running

TypeOK ==
  /\ clock \in 0 .. MaxClock
  /\ preloaded \in BOOLEAN /\ exists \in BOOLEAN /\ installed \in BOOLEAN
  /\ setting \in Settings
  /\ worker \in {"none", "registered", "ended"} \cup Running
  /\ interval \in Settings \cup {NULL}
  /\ worker \in Running => interval # NULL
  /\ wakeAt \in Nat
  /\ sighup \in BOOLEAN /\ sigterm \in BOOLEAN
  /\ overdue \in 0 .. MaxClock \cup {NULL}
  /\ setbacks \in Nat
  /\ events \in 0 .. MaxEvents
  /\ crashes \in Nat

-----------------------------------------------------------------------------
\* _PG_init registers nothing outside shared_preload_libraries.
PgInit(pre) == IF pre THEN "registered" ELSE "none"

Init ==
  /\ clock = 0
  /\ preloaded \in BOOLEAN /\ exists \in BOOLEAN /\ installed \in BOOLEAN
  /\ installed => exists
  /\ setting \in Settings
  /\ worker = PgInit(preloaded)
  /\ interval = NULL
  /\ wakeAt = 0
  /\ sighup = FALSE /\ sigterm = FALSE
  /\ overdue = NULL
  /\ setbacks = 0 /\ events = 0 /\ crashes = 0

Disturb == events < MaxEvents /\ events' = events + 1

\* The postmaster starts the worker again RestartTime after an exit code of 1.
Crash ==
  /\ worker' = "registered"
  /\ wakeAt' = clock + RestartTime

\* wait_latch(n) from now on.
Wait(n) ==
  /\ worker' = "waiting"
  /\ wakeAt' = clock + n

Connect_KeepsInterval ==
  /\ worker = "registered" /\ clock >= wakeAt
  /\ \/ exists /\ Wait(setting) /\ UNCHANGED interval
     \/ ~exists /\ Crash /\ UNCHANGED interval
  /\ sighup' = FALSE /\ sigterm' = FALSE
  /\ UNCHANGED <<clock, server, history>>

\* background_worker_main up to its loop, the only place that reads the setting.
\* A database that does not exist is a FATAL error.  A new process starts without
\* signals.
Connect ==
  /\ worker = "registered" /\ clock >= wakeAt
  /\ \/ exists /\ interval' = setting /\ Wait(setting)
     \/ ~exists /\ Crash /\ UNCHANGED interval
  /\ sighup' = FALSE /\ sigterm' = FALSE
  /\ UNCHANGED <<clock, server, history>>

CanWake_OnSignal == worker = "waiting" /\ (sighup \/ sigterm)

CanWake == worker = "waiting" /\ (clock >= wakeAt \/ sighup \/ sigterm)

\* wait_latch returns at its timeout or when a signal handler sets the latch;
\* after SIGTERM it returns false, the worker exits with 0 and is forgotten.
Wake ==
  /\ CanWake
  /\ worker' = IF sigterm THEN "ended" ELSE "begun"
  /\ sighup' = FALSE
  /\ UNCHANGED <<clock, server, interval, wakeAt, sigterm, history>>

Guarded_Not(present) == TRUE

\* IF to_regproc('boss.maintain') IS NOT NULL
Guarded(present) == present

Check ==
  /\ worker = "begun"
  /\ \/ /\ Guarded(installed)
        /\ worker' = "checked"
        /\ UNCHANGED <<interval, wakeAt>>
     \/ ~Guarded(installed) /\ Wait(interval) /\ UNCHANGED interval
  /\ UNCHANGED <<clock, server, sighup, sigterm, history>>

Maintain ==
  /\ worker = "checked" /\ installed
  /\ overdue' = NULL /\ setbacks' = 0
  /\ Wait(interval)
  /\ UNCHANGED <<clock, server, interval, sighup, sigterm, events, crashes>>

\* PERFORM boss.maintain() raises an error: the function was dropped after the
\* check, or it fails for a reason of its own (a deadlock with delete_queue).
MaintainFails ==
  /\ worker = "checked"
  /\ \/ ~installed /\ UNCHANGED events
     \/ installed /\ Disturb
  /\ Crash
  /\ crashes' = crashes + 1
  /\ setbacks' = setbacks + 1
  /\ UNCHANGED <<clock, server, interval, sighup, sigterm, overdue>>

-----------------------------------------------------------------------------
(***************************************************************************)
(* The surroundings.                                                       *)
(***************************************************************************)

Tick ==
  /\ clock < MaxClock
  /\ worker \notin {"begun", "checked"} /\ ~CanWake
  /\ worker = "registered" => clock < wakeAt
  /\ clock' = clock + 1
  /\ UNCHANGED <<server, process, history>>

\* The configuration is reloaded: SIGHUP to everybody.
Reload(v) ==
  /\ Disturb
  /\ setting' = v
  /\ sighup' = (worker \in Running)
  /\ UNCHANGED <<clock, preloaded, exists, installed, worker, interval, wakeAt, sigterm,
                 overdue, setbacks, crashes>>

\* pg_terminate_backend
Terminate ==
  /\ Disturb
  /\ worker \in Running
  /\ sigterm' = TRUE
  /\ UNCHANGED <<clock, server, worker, interval, wakeAt, sighup, overdue, setbacks, crashes>>

\* The server is restarted and loads its libraries again.  A job that waited for
\* a worker that was not there waits from now on.
ServerRestarts ==
  /\ Disturb
  /\ preloaded' \in BOOLEAN
  /\ worker' = PgInit(preloaded')
  /\ wakeAt' = clock
  /\ sighup' = FALSE /\ sigterm' = FALSE
  /\ setbacks' = setbacks + 1
  /\ overdue' = IF overdue = NULL \/ Registered THEN overdue ELSE clock
  /\ UNCHANGED <<clock, exists, installed, setting, interval, crashes>>

CreateDatabase ==
  /\ ~exists
  /\ exists' = TRUE
  /\ UNCHANGED <<clock, preloaded, installed, setting, process, history>>

CreateExtension ==
  /\ exists /\ ~installed
  /\ installed' = TRUE
  /\ UNCHANGED <<clock, preloaded, exists, setting, process, history>>

\* The jobs go with the extension.
DropExtension ==
  /\ installed
  /\ Disturb
  /\ installed' = FALSE
  /\ overdue' = NULL /\ setbacks' = 0
  /\ UNCHANGED <<clock, preloaded, exists, setting, process, crashes>>

\* A job becomes overdue.
JobOverdue ==
  /\ installed /\ overdue = NULL
  /\ overdue' = clock
  /\ setbacks' = IF worker = "registered" THEN 1 ELSE 0
  /\ UNCHANGED <<clock, server, process, events, crashes>>

Next ==
  \/ Connect \/ Wake \/ Check \/ Maintain \/ MaintainFails
  \/ Tick
  \/ \E v \in Settings : Reload(v)
  \/ Terminate \/ ServerRestarts
  \/ CreateDatabase \/ CreateExtension \/ DropExtension \/ JobOverdue

Spec == Init /\ [][Next]_vars

-----------------------------------------------------------------------------
(***************************************************************************)
(* Properties.                                                             *)
(***************************************************************************)

\* An overdue job is swept within the interval the worker has read when it
\* started, however often the setting is changed or the latch is set meanwhile
\* and however late the extension was installed; every start of the worker since
\* then, after a crash or with the server, adds its own delay.
SweptInTime ==
  overdue # NULL /\ Registered =>
    clock <= overdue + (IF setbacks = 0 THEN interval
                        ELSE Slowest + setbacks * (RestartTime + Slowest))

\* The worker does not crash in a loop where the extension is not installed: every
\* run of maintain that ends it goes back to a drop or a failure of its own.
NoCrashLoop == crashes <= events

=============================================================================
