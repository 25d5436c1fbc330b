---------------------------- MODULE BossLifecycle ----------------------------
(***************************************************************************)
(* The refinement mapping from the tables of Boss to the jobs of           *)
(* JobLifecycle: a job is there once its INSERT is committed, it is active *)
(* once the fetch that took it is, and its attempts are the deliveries.    *)
(***************************************************************************)
EXTENDS Boss

task ==
  [j \in JobIds |->
     IF j \notin issued \/ j \in Hidden THEN NoTask("none", deliveries[j])
     ELSE IF job[j] = NULL THEN NoTask("gone", deliveries[j])
     ELSE RowTask(job[j], deliveries[j])]

Lifecycle ==
  INSTANCE JobLifecycle WITH
    Ids <- JobIds, Homes <- Queues, Limits <- Nat, NULL <- NULL, task <- task

\* Boss, with its transactions, locks and counters, implements the life of a job
\* that JobLifecycle promises.
ImplementsLifecycle == Lifecycle!Spec

-----------------------------------------------------------------------------
\* What the implementation rests on besides IInv: a transaction of boss.fetch
\* does nothing else and takes jobs of one queue, and nobody has received a job
\* whose INSERT is not committed.
OnePurpose ==
  \A s \in Sessions :
    /\ claim[s] # {} =>
         /\ draft[s] = NULL /\ hidden[s] = {}
         /\ \E q \in Queues : \A j \in claim[s] : job[j].name = q
    /\ \A j \in hidden[s] : deliveries[j] = 0

=============================================================================
