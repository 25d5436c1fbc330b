------------------------- MODULE MaintenanceProofs -------------------------
(***************************************************************************)
(* Maintenance is punctual for every set of settings and every schedule.   *)
(***************************************************************************)
EXTENDS Maintenance, TLAPS

\* What one start of the worker may cost, and k of them.
Delay == RestartTime + Slowest
Cost(k) == k * Delay

\* When a job overdue since overdue is going to be swept.
Latest == overdue + (IF setbacks = 0 THEN interval ELSE Slowest + Cost(setbacks))

\* The timer that is running fires soon after now, and early enough for the job
\* that waits; a job waits only where the extension, so the database, exists.
TimerInv ==
  /\ installed => exists
  /\ overdue # NULL => installed /\ overdue <= clock
  /\ worker \in Running => wakeAt <= clock + interval
  /\ worker = "registered" => wakeAt <= clock + RestartTime
  /\ Registered => clock <= wakeAt
  /\ overdue # NULL /\ worker \in Running => wakeAt <= Latest
  /\ overdue # NULL /\ worker = "registered" =>
       setbacks > 0 /\ wakeAt <= overdue + Cost(setbacks)

\* A worker that found the function and will not find it any more owes its crash to
\* an event that has been counted.
CrashInv ==
  crashes + (IF worker = "checked" /\ ~installed THEN 1 ELSE 0) <= events

MInv == TypeOK /\ TimerInv /\ CrashInv

LEMMA SettingBound ==
  ASSUME NEW v \in Settings
  PROVE  v \in Nat /\ v >= 1 /\ v <= Slowest
BY SettingAssumption

LEMMA CostType ==
  ASSUME NEW k \in Nat
  PROVE  Cost(k) \in Nat /\ Cost(k + 1) = Cost(k) + RestartTime + Slowest
BY SettingAssumption DEF Cost, Delay, RestartTime

LEMMA CostOne == Cost(1) = RestartTime + Slowest
BY SettingAssumption DEF Cost, Delay, RestartTime

LEMMA MInit == Init => MInv
<1>. SUFFICES ASSUME Init PROVE MInv
  OBVIOUS
<1>. USE DEF Init
<1>1. worker \in {"none", "registered"} /\ worker \notin Running
  BY DEF PgInit, Running
<1>2. TypeOK
  <2>1. clock \in 0 .. MaxClock /\ events \in 0 .. MaxEvents
    BY SettingAssumption
  <2>2. interval \in Settings \cup {NULL} /\ overdue \in 0 .. MaxClock \cup {NULL}
    OBVIOUS
  <2>3. wakeAt \in Nat /\ setbacks \in Nat /\ crashes \in Nat
    OBVIOUS
  <2>. QED BY <1>1, <2>1, <2>2, <2>3 DEF TypeOK
<1>3. TimerInv /\ CrashInv
  BY <1>1 DEF TimerInv, Running, RestartTime, CrashInv
<1>. QED BY <1>2, <1>3 DEF MInv

LEMMA MType == MInv /\ [Next]_vars => TypeOK'
<1>. SUFFICES ASSUME MInv, [Next]_vars PROVE TypeOK'
  OBVIOUS
<1>. USE SettingAssumption DEF MInv, TypeOK, Running, server, process, history
<1>1. CASE Connect
  <2>1. UNCHANGED <<clock, preloaded, exists, installed, setting, overdue, setbacks, events, crashes>>
    BY <1>1 DEF Connect
  <2>2. sighup' \in BOOLEAN /\ sigterm' \in BOOLEAN
    BY <1>1 DEF Connect
  <2>3. CASE exists
    BY <1>1, <2>1, <2>2, <2>3 DEF Connect, Wait
  <2>4. CASE ~exists
    BY <1>1, <2>1, <2>2, <2>4 DEF Connect, Crash, RestartTime
  <2>. QED BY <2>3, <2>4
<1>2. CASE Wake
  <2>1. UNCHANGED <<clock, preloaded, exists, installed, setting, interval, wakeAt, sigterm,
                    overdue, setbacks, events, crashes>>
    BY <1>2 DEF Wake
  <2>2. worker = "waiting" /\ worker' \in {"ended", "begun"} /\ sighup' = FALSE
    BY <1>2 DEF Wake, CanWake
  <2>. QED BY <2>1, <2>2
<1>3. CASE Check
  BY <1>3 DEF Check, Wait
<1>4. CASE Maintain
  BY <1>4 DEF Maintain, Wait
<1>5. CASE MaintainFails
  BY <1>5 DEF MaintainFails, Crash, RestartTime, Disturb
<1>6. CASE Tick
  BY <1>6 DEF Tick
<1>7. ASSUME NEW v \in Settings, Reload(v) PROVE TypeOK'
  BY <1>7 DEF Reload, Disturb
<1>8. CASE Terminate
  BY <1>8 DEF Terminate, Disturb
<1>9. CASE ServerRestarts
  <2>1. UNCHANGED <<clock, exists, installed, setting, interval, crashes>>
    BY <1>9 DEF ServerRestarts
  <2>2. preloaded' \in BOOLEAN /\ worker' \in {"none", "registered"} /\ worker' \notin Running
    BY <1>9 DEF ServerRestarts, PgInit
  <2>3. wakeAt' = clock /\ setbacks' = setbacks + 1 /\ overdue' \in {overdue, clock}
    BY <1>9 DEF ServerRestarts
  <2>4. events' \in 0 .. MaxEvents /\ sighup' = FALSE /\ sigterm' = FALSE
    BY <1>9 DEF ServerRestarts, Disturb
  <2>5. overdue' \in 0 .. MaxClock \cup {NULL}
    BY <2>3
  <2>6. wakeAt' \in Nat /\ setbacks' \in Nat
    BY <2>3
  <2>. QED BY <2>1, <2>2, <2>4, <2>5, <2>6
<1>10. CASE CreateDatabase
  BY <1>10 DEF CreateDatabase
<1>11. CASE CreateExtension
  BY <1>11 DEF CreateExtension
<1>12. CASE DropExtension
  <2>1. UNCHANGED <<clock, preloaded, exists, setting, worker, interval, wakeAt, sighup,
                    sigterm, crashes>>
    BY <1>12 DEF DropExtension
  <2>2. installed' = FALSE /\ overdue' = NULL /\ setbacks' = 0
    BY <1>12 DEF DropExtension
  <2>3. events' \in 0 .. MaxEvents
    BY <1>12 DEF DropExtension, Disturb
  <2>. QED BY <2>1, <2>2, <2>3
<1>13. CASE JobOverdue
  BY <1>13 DEF JobOverdue
<1>14. CASE UNCHANGED vars
  BY <1>14 DEF vars
<1>. QED
  BY <1>1, <1>2, <1>3, <1>4, <1>5, <1>6, <1>7, <1>8, <1>9, <1>10, <1>11, <1>12, <1>13, <1>14
  DEF Next

\* Steps that leave the worker alone.
LEMMA MTimerAround ==
  ASSUME MInv, TypeOK', UNCHANGED <<worker, interval, wakeAt>>,
         UNCHANGED clock,
         installed' => exists',
         overdue' # NULL => installed',
         overdue' = NULL \/ UNCHANGED <<overdue, setbacks>>
  PROVE  TimerInv'
<1>. USE DEF MInv, TimerInv, Registered, Running
<1>1. CASE overdue' = NULL
  BY <1>1
<1>2. CASE UNCHANGED <<overdue, setbacks>>
  BY <1>2 DEF Latest
<1>. QED BY <1>1, <1>2

LEMMA MTimer == MInv /\ [Next]_vars => TimerInv'
<1>. SUFFICES ASSUME MInv, [Next]_vars PROVE TimerInv'
  OBVIOUS
<1>0. TypeOK'
  BY MType
<1>. USE DEF MInv, server, process, history
<1>1. CASE Connect
  <2>1. UNCHANGED <<clock, exists, installed, overdue, setbacks>>
    BY <1>1 DEF Connect
  <2>2. clock = wakeAt /\ worker = "registered"
    BY <1>1 DEF Connect, TimerInv, Registered, TypeOK
  <2>3. CASE exists
    <3>1. worker' = "waiting" /\ wakeAt' = clock + setting /\ interval' = setting
      BY <1>1, <2>3 DEF Connect, Wait
    <3>2. setting \in Nat /\ setting <= Slowest
      BY SettingBound DEF TypeOK
    <3>3. ASSUME overdue # NULL PROVE wakeAt' <= Latest'
      <4>1. setbacks > 0 /\ wakeAt <= overdue + Cost(setbacks)
        BY <3>3, <2>2 DEF TimerInv
      <4>2. Latest' = overdue + (Slowest + Cost(setbacks))
        BY <2>1, <4>1 DEF Latest, TypeOK, Cost, Delay
      <4>. QED
        BY <3>1, <3>2, <3>3, <4>1, <4>2, <2>2, CostType, SettingAssumption DEF TypeOK
    <3>. QED
      BY <2>1, <3>1, <3>2, <3>3 DEF TimerInv, Running, Registered, TypeOK
  <2>4. CASE ~exists
    <3>1. worker' = "registered" /\ wakeAt' = clock + RestartTime
      BY <1>1, <2>4 DEF Connect, Crash
    <3>2. ~installed /\ overdue = NULL
      BY <2>4 DEF TimerInv
    <3>. QED
      BY <2>1, <3>1, <3>2 DEF TimerInv, Running, Registered, RestartTime, TypeOK
  <2>. QED BY <2>3, <2>4
<1>2. CASE Wake
  <2>1. UNCHANGED <<clock, exists, installed, interval, wakeAt, overdue, setbacks>>
    BY <1>2 DEF Wake
  <2>2. worker = "waiting" /\ worker' \in {"ended", "begun"}
    BY <1>2 DEF Wake, CanWake
  <2>. QED BY <2>1, <2>2 DEF TimerInv, Running, Registered, Latest
<1>3. CASE Check
  <2>1. UNCHANGED <<clock, exists, installed, interval, overdue, setbacks>>
    BY <1>3 DEF Check
  <2>2. CASE installed
    BY <1>3, <2>1, <2>2 DEF Check, Guarded, TimerInv, Running, Registered, Latest
  <2>3. CASE ~installed
    <3>1. worker' = "waiting" /\ wakeAt' = clock + interval
      BY <1>3, <2>3 DEF Check, Wait, Guarded
    <3>2. overdue = NULL /\ interval \in Nat
      BY <1>3, <2>3, SettingBound DEF TimerInv, TypeOK, Check, Running
    <3>. QED
      BY <2>1, <2>3, <3>1, <3>2 DEF TimerInv, Running, Registered, TypeOK
  <2>. QED BY <2>2, <2>3
<1>4. CASE Maintain
  <2>1. UNCHANGED <<clock, exists, installed, interval>> /\ overdue' = NULL
    BY <1>4 DEF Maintain
  <2>2. worker' = "waiting" /\ wakeAt' = clock + interval
    BY <1>4 DEF Maintain, Wait
  <2>3. interval \in Nat
    BY <1>4, SettingBound DEF TypeOK, Maintain, Running
  <2>. QED
    BY <2>1, <2>2, <2>3 DEF TimerInv, Running, Registered, TypeOK
<1>5. CASE MaintainFails
  <2>1. UNCHANGED <<clock, exists, installed, interval, overdue>>
    BY <1>5 DEF MaintainFails
  <2>2. worker' = "registered" /\ wakeAt' = clock + RestartTime /\ setbacks' = setbacks + 1
    BY <1>5 DEF MaintainFails, Crash
  <2>3. worker \in Running /\ clock <= wakeAt
    BY <1>5 DEF MaintainFails, Running, TimerInv, Registered
  <2>4. ASSUME overdue # NULL PROVE wakeAt' <= overdue + Cost(setbacks')
    <3>1. interval \in Nat /\ interval <= Slowest
      BY <2>3, SettingBound DEF TypeOK
    <3>2. wakeAt <= Latest /\ Latest <= overdue + Slowest + Cost(setbacks)
      BY <2>3, <2>4, <3>1, CostType, SettingAssumption DEF TimerInv, Latest, TypeOK
    <3>. QED
      BY <2>2, <2>3, <2>4, <3>1, <3>2, CostType, SettingAssumption
      DEF TypeOK, RestartTime, Latest
  <2>. QED
    BY <2>1, <2>2, <2>4 DEF TimerInv, Running, Registered, RestartTime, TypeOK
<1>6. CASE Tick
  <2>1. UNCHANGED <<exists, installed, worker, interval, wakeAt, overdue, setbacks>>
    BY <1>6 DEF Tick
  <2>2. clock' = clock + 1 /\ worker \notin {"begun", "checked"}
    BY <1>6 DEF Tick
  <2>3. Registered => clock < wakeAt
    BY <1>6 DEF Tick, CanWake, Registered, Running, TypeOK
  <2>4. worker \in Running => interval \in Nat
    BY SettingBound DEF TypeOK
  <2>5. overdue # NULL => overdue <= clock'
    BY <2>2 DEF TimerInv, TypeOK
  <2>6. worker \in Running => wakeAt <= clock' + interval
    BY <2>2, <2>4 DEF TimerInv, TypeOK
  <2>7. worker = "registered" => wakeAt <= clock' + RestartTime
    BY <2>2 DEF TimerInv, TypeOK, RestartTime
  <2>8. Registered => clock' <= wakeAt
    BY <2>2, <2>3 DEF TypeOK
  <2>. QED
    BY <2>1, <2>5, <2>6, <2>7, <2>8 DEF TimerInv, Running, Registered, Latest
<1>7. ASSUME NEW v \in Settings, Reload(v) PROVE TimerInv'
  BY <1>0, <1>7, MTimerAround DEF Reload, TimerInv
<1>8. CASE Terminate
  BY <1>0, <1>8, MTimerAround DEF Terminate, TimerInv
<1>9. CASE ServerRestarts
  <2>1. UNCHANGED <<clock, exists, installed>> /\ wakeAt' = clock /\ setbacks' = setbacks + 1
    BY <1>9 DEF ServerRestarts
  <2>2. worker' \in {"none", "registered"}
    BY <1>9 DEF ServerRestarts, PgInit
  <2>3. overdue' # NULL => overdue # NULL /\ overdue' <= clock
    BY <1>9 DEF ServerRestarts, TimerInv, TypeOK
  <2>4. ASSUME overdue' # NULL PROVE clock <= overdue' + Cost(setbacks')
    <3>1. setbacks \in Nat /\ overdue \in Nat /\ overdue' \in Nat /\ clock \in Nat /\ Slowest \in Nat
      BY <1>0, <2>3, <2>4, SettingAssumption DEF TypeOK
    <3>2. Cost(setbacks) \in Nat /\ Cost(setbacks') = Cost(setbacks) + RestartTime + Slowest
      BY <2>1, <3>1, CostType
    <3>3. CASE ~Registered
      <4>1. overdue' = clock
        BY <1>9, <2>3, <2>4, <3>3 DEF ServerRestarts
      <4>. QED BY <3>1, <3>2, <4>1 DEF RestartTime
    <3>4. CASE worker \in Running
      <4>1. interval \in Nat /\ interval <= Slowest
        BY <3>4, SettingBound DEF TypeOK
      <4>2. overdue' = overdue
        BY <1>9, <3>4 DEF ServerRestarts, Registered
      <4>3. clock <= wakeAt /\ wakeAt <= Latest
        BY <2>3, <2>4, <3>4 DEF TimerInv, Registered
      <4>. QED
        BY <3>1, <3>2, <4>1, <4>2, <4>3 DEF RestartTime, Latest, TypeOK
    <3>5. CASE worker = "registered"
      <4>1. overdue' = overdue
        BY <1>9, <3>5 DEF ServerRestarts, Registered
      <4>2. clock <= wakeAt /\ wakeAt <= overdue + Cost(setbacks)
        BY <2>3, <2>4, <3>5 DEF TimerInv, Registered
      <4>. QED
        BY <3>1, <3>2, <4>1, <4>2 DEF RestartTime, TypeOK
    <3>. QED BY <3>3, <3>4, <3>5 DEF Registered
  <2>5. setbacks' > 0
    BY <2>1 DEF TypeOK
  <2>. QED
    BY <2>1, <2>2, <2>3, <2>4, <2>5 DEF TimerInv, Running, Registered, RestartTime, TypeOK
<1>10. CASE CreateDatabase
  BY <1>0, <1>10, MTimerAround DEF CreateDatabase, TimerInv
<1>11. CASE CreateExtension
  BY <1>0, <1>11, MTimerAround DEF CreateExtension, TimerInv
<1>12. CASE DropExtension
  BY <1>0, <1>12, MTimerAround DEF DropExtension, TimerInv
<1>13. CASE JobOverdue
  <2>1. UNCHANGED <<clock, exists, installed, worker, interval, wakeAt>>
    BY <1>13 DEF JobOverdue
  <2>2. installed /\ overdue' = clock /\ setbacks' = IF worker = "registered" THEN 1 ELSE 0
    BY <1>13 DEF JobOverdue
  <2>3. worker \in Running => wakeAt <= Latest'
    BY <2>1, <2>2 DEF Latest, TimerInv, Running
  <2>4. worker = "registered" => setbacks' > 0 /\ wakeAt <= clock + Cost(setbacks')
    BY <2>2, CostOne, SettingAssumption DEF TimerInv, RestartTime, TypeOK
  <2>. QED
    BY <2>1, <2>2, <2>3, <2>4 DEF TimerInv, Registered, Running, TypeOK
<1>14. CASE UNCHANGED vars
  BY <1>0, <1>14, MTimerAround DEF vars, TimerInv
<1>. QED
  BY <1>1, <1>2, <1>3, <1>4, <1>5, <1>6, <1>7, <1>8, <1>9, <1>10, <1>11, <1>12, <1>13, <1>14
  DEF Next

LEMMA MCrashes == MInv /\ [Next]_vars => CrashInv'
<1>. SUFFICES ASSUME MInv, [Next]_vars PROVE CrashInv'
  OBVIOUS
<1>1. crashes \in Nat /\ events \in Nat /\ crashes <= events
      /\ (worker = "checked" /\ ~installed => crashes + 1 <= events)
  BY DEF MInv, TypeOK, CrashInv
<1>. USE DEF CrashInv, server, process, history
<1>2. CASE MaintainFails
  <2>1. crashes' = crashes + 1 /\ worker' = "registered" /\ worker = "checked"
    BY <1>2 DEF MaintainFails, Crash
  <2>2. \/ ~installed /\ events' = events
        \/ events' = events + 1
    BY <1>2 DEF MaintainFails, Disturb
  <2>. QED BY <1>1, <2>1, <2>2
<1>3. CASE DropExtension
  <2>1. crashes' = crashes /\ events' = events + 1
    BY <1>3 DEF DropExtension, Disturb
  <2>. QED BY <1>1, <2>1
<1>4. CASE Check
  <2>1. crashes' = crashes /\ events' = events /\ installed' = installed
    BY <1>4 DEF Check
  <2>2. worker' = "checked" => installed
    BY <1>4 DEF Check, Guarded, Wait
  <2>. QED BY <1>1, <2>1, <2>2
<1>5. CASE \/ \E v \in Settings : Reload(v)
           \/ Terminate
  <2>1. crashes' = crashes /\ events' = events + 1
    BY <1>5 DEF Reload, Terminate, Disturb
  <2>. QED BY <1>1, <2>1
<1>6. CASE ServerRestarts
  <2>1. crashes' = crashes /\ events' = events + 1
    BY <1>6 DEF ServerRestarts, Disturb
  <2>. QED BY <1>1, <2>1
<1>7. CASE Connect \/ Wake \/ Maintain
  <2>1. crashes' = crashes /\ events' = events /\ worker' # "checked"
    BY <1>7 DEF Connect, Wake, Maintain, Wait, Crash
  <2>. QED BY <1>1, <2>1
<1>8. CASE Tick \/ CreateDatabase \/ CreateExtension \/ JobOverdue \/ UNCHANGED vars
  <2>1. crashes' = crashes /\ events' = events /\ worker' = worker
        /\ (installed => installed')
    BY <1>8 DEF Tick, CreateDatabase, CreateExtension, JobOverdue, vars
  <2>. QED BY <1>1, <2>1
<1>. QED
  BY <1>2, <1>3, <1>4, <1>5, <1>6, <1>7, <1>8 DEF Next

LEMMA MInvariant == Spec => []MInv
<1>1. MInv /\ [Next]_vars => MInv'
  BY MType, MTimer, MCrashes DEF MInv
<1>. QED
  BY MInit, <1>1, PTL DEF Spec

\* The types of the worker's state and of what surrounds it.
THEOREM WorkerTypes == Spec => []TypeOK
<1>1. MInv => TypeOK
  BY DEF MInv
<1>. QED BY MInvariant, <1>1, PTL

\* An overdue job is swept in time, for every set of settings, however often the
\* worker is signalled, crashes or is restarted and the extension comes and goes.
THEOREM MaintenancePunctual == Spec => []SweptInTime
<1>1. ASSUME MInv PROVE SweptInTime
  <2>. SUFFICES ASSUME overdue # NULL, Registered
                PROVE  clock <= overdue + (IF setbacks = 0 THEN interval
                                           ELSE Slowest + setbacks * (RestartTime + Slowest))
    BY DEF SweptInTime
  <2>1. clock <= wakeAt /\ clock \in Nat /\ wakeAt \in Nat /\ overdue \in Nat /\ setbacks \in Nat
    BY <1>1 DEF MInv, TimerInv, TypeOK
  <2>2. CASE worker \in Running
    <3>1. wakeAt <= overdue + (IF setbacks = 0 THEN interval ELSE Slowest + Cost(setbacks))
      BY <1>1, <2>2 DEF MInv, TimerInv, Latest
    <3>2. interval \in Nat
      BY <1>1, <2>2, SettingBound DEF MInv, TypeOK
    <3>. QED
      BY <2>1, <3>1, <3>2, CostType, SettingAssumption DEF Cost, Delay
  <2>3. CASE worker = "registered"
    <3>1. setbacks > 0 /\ wakeAt <= overdue + Cost(setbacks)
      BY <1>1, <2>3 DEF MInv, TimerInv
    <3>2. Cost(setbacks) \in Nat /\ Cost(setbacks) = setbacks * (RestartTime + Slowest)
      BY <2>1, CostType DEF Cost, Delay
    <3>. QED
      BY <2>1, <3>1, <3>2, SettingAssumption
  <2>. QED BY <2>2, <2>3 DEF Registered
<1>. QED BY MInvariant, <1>1, PTL

\* The worker never crashes more often than something went wrong.
THEOREM CrashesHaveCauses == Spec => []NoCrashLoop
<1>1. MInv => NoCrashLoop
  BY DEF MInv, CrashInv, NoCrashLoop, TypeOK
<1>. QED BY MInvariant, <1>1, PTL
=============================================================================
