-------------------------------- MODULE Suite --------------------------------
(***************************************************************************)
(* The command line of dsltest: the files are run one after the other,     *)
(* each by a Runner of its own against the one database, and the worst     *)
(* result is the exit code.                                                *)
(***************************************************************************)
EXTENDS Scenario

CONSTANT MaxFiles   \* bound on the files given

\* What a Runner leaves running where a script may spawn twice into one variable
\* is the matter of Scenario.
ASSUME SuiteAssumption == ~Respawn /\ MaxFiles \in Nat

VARIABLES files,    \* the files found, NULL if that failed
          started,  \* how many of them have been started
          running,  \* is a scenario running?
          worst,    \* the worst exit code so far
          code,     \* the exit code, NULL before main returns
          earlier,  \* history: the jobs issued before the running scenario
          standing, \* history: the queues that existed before it
          verdicts  \* history: the results so far

suite    == <<files, started, running, worst, code, earlier, standing, verdicts>>
allvars  == <<svars, suite>>

SuiteTypeOK ==
  /\ ScenarioTypeOK
  /\ files \in 0 .. MaxFiles \cup {NULL}
  /\ started \in 0 .. MaxFiles
  /\ running \in BOOLEAN
  /\ worst \in Codes
  /\ code \in Codes \cup {NULL}
  /\ earlier \subseteq JobIds
  /\ standing \subseteq Queues
  /\ verdicts \subseteq Codes

\* collect_files may fail, or find nothing.
SuiteInit ==
  /\ ScenarioInit
  /\ files \in 0 .. MaxFiles \cup {NULL}
  /\ started = 0
  /\ running = FALSE
  /\ worst = 0
  /\ code = NULL
  /\ earlier = {}
  /\ standing = {}
  /\ verdicts = {}

-----------------------------------------------------------------------------
Worse_Last(a, b) == b

Worse(a, b) == IF a > b THEN a ELSE b

Report(result) ==
  /\ worst' = Worse(worst, result)
  /\ verdicts' = verdicts \cup {result}

NextFile ==
  /\ files # NULL /\ started < files
  /\ ~running /\ code = NULL
  /\ started' = started + 1

\* The file cannot be read, which counts as a connection error, or parsed, or
\* session 1 cannot be opened.
FileFails ==
  /\ NextFile
  /\ Report(Unconnected) \/ Report(Unparsed)
  /\ UNCHANGED <<svars, files, running, code, earlier, standing>>

\* Runner::new: no variable, no thread, no session; the queues that the new script
\* names.  (left bounds the statements of all files together.)
FileStarts ==
  /\ NextFile
  /\ running' = TRUE
  /\ earlier' = issued
  /\ standing' = {q \in Queues : queue[q] # NULL}
  /\ phase' = "setup"
  /\ bound' = [v \in Vars |-> Unbound]
  /\ pending' = [v \in Vars |-> NULL]
  /\ dest' = NULL
  /\ named' \in SUBSET Queues
  /\ spoiled' = {}
  /\ outcome' = NULL
  /\ at' = [c \in Waiters |-> "idle"]
  /\ from' = [c \in Waiters |-> NULL]
  /\ within' = [c \in Waiters |-> NULL]
  /\ deadline' = [c \in Waiters |-> 0]
  /\ got' = [c \in Waiters |-> NULL]
  /\ UNCHANGED <<vars, left, files, worst, code, verdicts>>

ScenarioStep ==
  /\ running
  /\ ScenarioNext
  /\ UNCHANGED suite

FileEnds ==
  /\ running /\ phase = "done"
  /\ running' = FALSE
  /\ Report(outcome)
  /\ UNCHANGED <<svars, files, started, code, earlier, standing>>

MainReturns ==
  /\ ~running /\ code = NULL
  /\ \/ files \in {NULL, 0} /\ code' = 3
     \/ files # NULL /\ files > 0 /\ started = files /\ code' = worst
  /\ UNCHANGED <<svars, files, started, running, worst, earlier, standing, verdicts>>

SuiteStep == FileFails \/ FileStarts \/ FileEnds \/ MainReturns

SuiteNext == SuiteStep \/ ScenarioStep

SuiteSpec ==
  /\ SuiteInit /\ [][SuiteNext]_allvars
  /\ WF_allvars(SuiteStep)
  /\ WF_allvars(running /\ MainStep /\ UNCHANGED suite)
  /\ \A c \in Waiters : WF_allvars(running /\ ConsumeWait(c) /\ UNCHANGED suite)
  /\ WF_allvars(running /\ TimePasses /\ UNCHANGED suite)

-----------------------------------------------------------------------------
(***************************************************************************)
(* Properties.                                                             *)
(***************************************************************************)

\* The exit code tells what happened to any of the files, wherever it is among
\* them: 0 only if there were scenarios and all passed, 1 only if some ran and
\* did not hold, 3 whenever one had no database to run against.
ExitTellsAll ==
  code # NULL =>
    /\ code = Ok <=> verdicts = {Ok}
    /\ code = Unconnected <=> Unconnected \in verdicts \/ verdicts = {}
    /\ code \in {Failed, Unparsed} => code \in verdicts

\* However the script ends, the scenario leaves no queue it did not find, none that
\* its script names, and no job of its own, sent to whichever queue and still held by
\* whichever thread, unless its last cleanup failed.
LeavesNothing ==
  running /\ phase = "done" /\ "cleanup" \notin spoiled =>
    /\ \A q \in Queues : queue[q] # NULL => q \in standing \ named
    /\ Rows \subseteq earlier

\* A scenario only ever gets jobs it has sent itself, whatever an earlier one or
\* an earlier run of the same files has left behind, if its first cleanup worked.
OwnJobsOnly ==
  running /\ "setup" \notin spoiled => \A v \in Vars : bound[v] \notin earlier

\* main returns: no scenario stops the ones after it.
SuiteEnds == <>(code # NULL)

=============================================================================
