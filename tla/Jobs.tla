--------------------------------- MODULE Jobs ---------------------------------
(***************************************************************************)
(* Who runs the periodic jobs: intervals of the server, or EventBridge by  *)
(* a Lambda and POST /internal/jobs/:name.                                 *)
(*                                                                         *)
(* JOBS_EXTERNAL_SCHEDULER turns off the intervals of the jobs that have a *)
(* rule outside; a few always run in the process.  A job that is in none   *)
(* of the lists of the mode it runs in does not run, and nothing shows it. *)
(* What each job does is in the module of its component.                   *)
(***************************************************************************)
EXTENDS Integers, FiniteSets

CONSTANTS
  Job,         \* the jobs looked at, of those below
  RulesOn,     \* EventBridge's rules have been created
  Slow,        \* a run may last longer than the Lambda waits (120 s)
  MaxRetries,  \* EventBridge's retries of a failed invocation
  MaxRestarts

(* The jobs whose interval is only set without the external scheduler.     *)
Migrable ==
  {"cleanup-orphans", "kyc-monitor", "reconcile-harbor", "reconcile-vita", "reconcile-stellar",
   "ros-monitor", "ros-monitor-wallet", "reclamos-vencimientos", "auth-anomalies",
   "reconcile-bank-qr", "reconcile-bec-disbursements", "alert-pending-withdrawals",
   "audit-wallet-reserves", "refresh-rates", "refresh-sanctions", "reseal-audit-trails"}

(* And those it is always set for.                                         *)
AlwaysInProcess ==
  {"reconcile-custodial-accounts", "monitor-channel-xlm", "monitor-usdc-deposits",
   "reconcile-treasury-funding", "anchor-admin-alerts", "ledger-sync"}

(* Those an interval or a rule runs by running another one.                *)
InKycMonitor == {"kyc-stale-sessions", "kyc-retry-nudge"}

(* Mutant: an entry forgotten, as it was with the bank's two jobs.         *)
JOBS_Incomplete == {"cleanup-orphans", "kyc-monitor"}

JOBS == Migrable \cup InKycMonitor \cup {"reconcile-custodial-accounts"}

RULES == Migrable

(* The jobs with an _isRunning of their own.                               *)
Guarded ==
  {"reconcile-harbor", "reconcile-vita", "reconcile-stellar", "ros-monitor", "ros-monitor-wallet",
   "reconcile-bank-qr", "reconcile-bec-disbursements", "reconcile-custodial-accounts",
   "monitor-usdc-deposits", "reconcile-treasury-funding", "anchor-admin-alerts"}

VARIABLES
  external, \* JOBS_EXTERNAL_SCHEDULER
  serving,  \* the server is up and past its start
  due,      \* jobs whose interval, or whose rule's schedule, has come
  lambda,   \* of a job: "idle", "posting" or "failed", and its retries
  running,  \* runs of a job in the process, and how many of them a POST waits for
  job_runs, \* jobs with a run recorded since
  restarts

jobVars == <<external, serving, due, lambda, running, job_runs, restarts>>

JobsInit ==
  /\ external \in IF RulesOn THEN BOOLEAN ELSE {FALSE}
  /\ serving = FALSE
  /\ due = {}
  /\ lambda = [j \in Job |-> [step |-> "idle", retries |-> 0]]
  /\ running = [j \in Job |-> [all |-> 0, recorded |-> 0]]
  /\ job_runs = {}
  /\ restarts = 0

-----------------------------------------------------------------------------
(* The start, after the checks that end the process: production against a  *)
(* provider's sandbox, against another environment's database or origins.  *)
startServer ==
  /\ ~serving
  /\ serving' = TRUE
  /\ UNCHANGED <<external, due, lambda, running, job_runs, restarts>>

serverStops ==
  /\ serving /\ restarts < MaxRestarts
  /\ serving' = FALSE
  /\ due' = {}
  /\ running' = [j \in Job |-> [all |-> 0, recorded |-> 0]]
  /\ restarts' = restarts + 1
  /\ UNCHANGED <<external, lambda, job_runs>>

Intervals == AlwaysInProcess \cup (IF external THEN {} ELSE Migrable)

(* A run begins, unless the job itself sees that one is under way.  Two at *)
(* once are the bound of the actions that call it.                         *)
(* Mutant: no job looks whether it is running.                             *)
Counted(j, recorded) ==
  [running EXCEPT ![j].all = @ + 1, ![j].recorded = IF recorded THEN @ + 1 ELSE @]

BeginsUnguarded(j, recorded) == running' = Counted(j, recorded)

Begins(j, recorded) ==
  running' = IF j \in Guarded /\ running[j].all > 0 THEN running ELSE Counted(j, recorded)

(* The interval calls the job itself, except for the custodial accounts,   *)
(* which it calls by runJob: that run is recorded.                         *)
intervalFires(j) ==
  /\ serving /\ j \in Intervals
  /\ running[j].all < 2
  /\ Begins(j, j = "reconcile-custodial-accounts")
  /\ UNCHANGED <<external, serving, due, lambda, job_runs, restarts>>

-----------------------------------------------------------------------------
(* EventBridge and the Lambda.                                             *)
ruleComes(j) ==
  /\ RulesOn /\ j \in RULES
  /\ lambda[j].step = "idle" /\ j \notin due
  /\ due' = due \cup {j}
  /\ UNCHANGED <<external, serving, lambda, running, job_runs, restarts>>

(* A job that is not registered gets 404, and so does one whose server is  *)
(* not there: the invocation failed.                                       *)
jobTrigger(j) ==
  /\ \/ j \in due
     \/ lambda[j].step = "failed" /\ lambda[j].retries <= MaxRetries
  /\ due' = due \ {j}
  /\ running[j].all < 2
  /\ IF serving /\ j \in JOBS
     THEN /\ Begins(j, TRUE)
          /\ lambda' = [lambda EXCEPT ![j].step = "posting"]
     ELSE /\ UNCHANGED running
          /\ lambda' = [lambda EXCEPT ![j] = [step |-> "failed", retries |-> @.retries + 1]]
  /\ UNCHANGED <<external, serving, job_runs, restarts>>

(* The POST waits for the run, and the Lambda for the POST: 120 seconds.   *)
lambdaGivesUp(j) ==
  /\ lambda[j].step = "posting"
  /\ (running[j].all > 0 /\ Slow) \/ ~serving
  /\ lambda' = [lambda EXCEPT ![j] = [step |-> "failed", retries |-> @.retries + 1]]
  /\ UNCHANGED <<external, serving, due, running, job_runs, restarts>>

retriesEnd(j) ==
  /\ lambda[j].step = "failed" /\ lambda[j].retries > MaxRetries
  /\ lambda' = [lambda EXCEPT ![j] = [step |-> "idle", retries |-> 0]]
  /\ UNCHANGED <<external, serving, due, running, job_runs, restarts>>

answered(j) ==
  /\ lambda[j].step = "posting" /\ running[j].recorded = 0
  /\ lambda' = [lambda EXCEPT ![j] = [step |-> "idle", retries |-> 0]]
  /\ UNCHANGED <<external, serving, due, running, job_runs, restarts>>

-----------------------------------------------------------------------------
(* A run ends; runJob records it, well or badly.                           *)
runJob(j) ==
  /\ running[j].recorded > 0
  /\ running' = [running EXCEPT ![j] = [all |-> @.all - 1, recorded |-> @.recorded - 1]]
  /\ job_runs' = job_runs \cup {j}
  /\ UNCHANGED <<external, serving, due, lambda, restarts>>

runEnds(j) ==
  /\ running[j].all > running[j].recorded
  /\ running' = [running EXCEPT ![j].all = @ - 1]
  /\ UNCHANGED <<external, serving, due, lambda, job_runs, restarts>>

Lambda(j) == jobTrigger(j) \/ lambdaGivesUp(j) \/ retriesEnd(j) \/ answered(j)
Ends(j) == runJob(j) \/ runEnds(j)

JobsNext ==
  \/ startServer \/ serverStops
  \/ \E j \in Job : intervalFires(j) \/ ruleComes(j) \/ Lambda(j) \/ Ends(j)

JobsSpec == JobsInit /\ [][JobsNext]_jobVars

(* The server starts again, timers and rules come round, the Lambda that   *)
(* was invoked goes on, and runs end.                                      *)
JobsFairness ==
  /\ WF_jobVars(startServer)
  /\ \A j \in Job :
       /\ WF_jobVars(intervalFires(j)) /\ WF_jobVars(ruleComes(j))
       /\ WF_jobVars(Lambda(j)) /\ WF_jobVars(Ends(j))

-----------------------------------------------------------------------------
JobsTypeOK ==
  /\ external \in BOOLEAN /\ serving \in BOOLEAN
  /\ due \subseteq Job /\ job_runs \subseteq Job
  /\ \A j \in Job :
       /\ lambda[j].step \in {"idle", "posting", "failed"}
       /\ lambda[j].retries \in 0 .. MaxRetries + 1
       /\ 0 <= running[j].recorded /\ running[j].recorded <= running[j].all /\ running[j].all <= 2

(* A job that says it does not run next to itself does not, though a rule  *)
(* and an interval may both start it and a slow run is invoked again.      *)
GuardedRunsAlone == \A j \in Guarded \cap Job : running[j].all <= 1

(* The others may: refuted by Slow, and while the rules are on and the     *)
(* intervals not yet off.                                                  *)
NoneRunsTwice == \A j \in Job : running[j].all <= 1

(* Every job runs again and again, whichever scheduler has it; those the   *)
(* monitor of incomplete verifications calls run with it.                  *)
RunsAgain == \A j \in Job : []<>(running[j].all > 0)

(* Its runs leave a trace: refuted for every interval but one, so a job    *)
(* that stopped and one that had nothing to do look the same.              *)
RunIsRecorded == \A j \in Job : <>(j \in job_runs)
=============================================================================
