-------------------------------- MODULE Jobs --------------------------------
(***************************************************************************)
(* Backtest jobs: POST /api/v1/backtests stores a row and starts a run_job *)
(* task in the API process, which runs the child in a thread of the        *)
(* default executor; the bot's follow-up task polls the row and answers    *)
(* the user.  The API is restarted at any time, by hand or by /restart,    *)
(* and takes its tasks and children with it.                               *)
(*                                                                         *)
(* Definitions named Bug... are faulty variants of the definition below    *)
(* them, kept to show that the properties can fail.                        *)
(***************************************************************************)
EXTENDS Naturals, FiniteSets

CONSTANTS JobIds,
          Threads,      \* workers of the executor
          ChildLimit,   \* TIMEOUT_S
          FollowLimit,  \* the deadline of the follow-up
          JobEnd, MaxApiCrashes, MaxJobErrs \* bounds

ASSUME JobsAssumption ==
    {Threads, ChildLimit, FollowLimit, JobEnd, MaxApiCrashes, MaxJobErrs} \subseteq Nat

Final == {"completed", "failed", "timeout"}

VARIABLES jnow,
          row,       \* [JobIds -> status in research.backtest_jobs, or "none"]
          task,      \* [JobIds -> where run_job is]
          result,    \* [JobIds -> the status the child ended with]
          childAge,  \* [JobIds -> time since Popen]
          follow,    \* [JobIds -> time of the submission, or what was told]
          abandoned, \* history: jobs whose task died before its last update
          finished,  \* history: jobs whose final status was written
          apiCrashes, jobErrs

jobVars == <<jnow, row, task, result, childAge, follow, abandoned, finished, apiCrashes, jobErrs>>

JobsInit ==
    /\ jnow = 0 /\ row = [j \in JobIds |-> "none"] /\ task = [j \in JobIds |-> "none"]
    /\ result = [j \in JobIds |-> "none"] /\ childAge = [j \in JobIds |-> 0]
    /\ follow = [j \in JobIds |-> [at |-> 0, told |-> "none"]]
    /\ abandoned = {} /\ finished = {} /\ apiCrashes = 0 /\ jobErrs = 0

\* create_job and update_job
CreateJob(j) == row' = [row EXCEPT ![j] = "queued"]
WriteStatus(j, s) == row' = [row EXCEPT ![j] = s]

Fault == jobErrs < MaxJobErrs /\ jobErrs' = jobErrs + 1

\* api_run_backtest, called by _cmd_backtest, which then
\* starts the follow-up.
Submit(j) ==
    /\ row[j] = "none" /\ CreateJob(j)
    /\ task' = [task EXCEPT ![j] = "start"]
    /\ follow' = [follow EXCEPT ![j] = [at |-> jnow, told |-> "polling"]]
    /\ UNCHANGED <<jnow, result, childAge, abandoned, finished, apiCrashes, jobErrs>>

\* run_job up to the executor.  A query that raises ends the task, unseen.
RunJob(j) ==
    /\ task[j] = "start"
    /\ \/ /\ WriteStatus(j, "running") /\ task' = [task EXCEPT ![j] = "waiting"]
          /\ UNCHANGED <<abandoned, jobErrs>>
       \/ /\ Fault /\ task' = [task EXCEPT ![j] = "none"]
          /\ row' \in {row, [row EXCEPT ![j] = "running"]}
          /\ abandoned' = abandoned \union {j}
    /\ UNCHANGED <<jnow, result, childAge, follow, finished, apiCrashes>>

\* A thread is free and starts the child.
StartChild(j) ==
    /\ task[j] = "waiting" /\ Cardinality({i \in JobIds : task[i] = "child"}) < Threads
    /\ task' = [task EXCEPT ![j] = "child"] /\ childAge' = [childAge EXCEPT ![j] = 0]
    /\ UNCHANGED <<jnow, row, result, follow, abandoned, finished, apiCrashes, jobErrs>>

\* _run_backtest_subprocess: it exits, or is killed at the limit.
ChildEnds(j) ==
    /\ task[j] = "child" /\ task' = [task EXCEPT ![j] = "ended"]
    /\ \E s \in Final : /\ s = "timeout" <=> childAge[j] >= ChildLimit
                        /\ result' = [result EXCEPT ![j] = s]
    /\ UNCHANGED <<jnow, row, childAge, follow, abandoned, finished, apiCrashes, jobErrs>>

\* The last update_job.
BugUpdateJob(j) ==
    /\ task[j] = "ended" /\ task' = [task EXCEPT ![j] = "none"]
    /\ WriteStatus(j, "completed") /\ finished' = finished \union {j}
    /\ UNCHANGED <<jnow, result, childAge, follow, abandoned, apiCrashes, jobErrs>>
UpdateJob(j) ==
    /\ task[j] = "ended" /\ task' = [task EXCEPT ![j] = "none"]
    /\ \/ /\ WriteStatus(j, result[j]) /\ finished' = finished \union {j}
          /\ UNCHANGED <<abandoned, jobErrs>>
       \/ /\ Fault /\ abandoned' = abandoned \union {j} /\ UNCHANGED <<row, finished>>
    /\ UNCHANGED <<jnow, result, childAge, follow, apiCrashes>>

\* The API process ends; its rows stay as they are and no one looks at them.
ApiCrash ==
    /\ apiCrashes < MaxApiCrashes /\ apiCrashes' = apiCrashes + 1
    /\ abandoned' = abandoned \union {j \in JobIds : task[j] # "none"}
    /\ task' = [j \in JobIds |-> "none"]
    /\ UNCHANGED <<jnow, row, result, childAge, follow, finished, jobErrs>>

\* A poll of _followup_backtest: a final status is told, another answer is
\* ignored, a connection that fails ends the task, unseen.
Followup(j) ==
    /\ follow[j].told = "polling"
    /\ \/ /\ jnow < follow[j].at + FollowLimit /\ row[j] \in Final
          /\ follow' = [follow EXCEPT ![j].told = row[j]] /\ UNCHANGED jobErrs
       \/ /\ jnow >= follow[j].at + FollowLimit
          /\ follow' = [follow EXCEPT ![j].told = "still_running"] /\ UNCHANGED jobErrs
       \/ Fault /\ follow' = [follow EXCEPT ![j].told = "nothing"]
    /\ UNCHANGED <<jnow, row, task, result, childAge, abandoned, finished, apiCrashes>>

JobTick ==
    /\ jnow < JobEnd /\ jnow' = jnow + 1
    /\ \A j \in JobIds : task[j] = "child" => childAge[j] < ChildLimit
    /\ childAge' = [j \in JobIds |-> IF task[j] = "child" THEN childAge[j] + 1 ELSE childAge[j]]
    /\ UNCHANGED <<row, task, result, follow, abandoned, finished, apiCrashes, jobErrs>>

JobsNext ==
    \/ \E j \in JobIds : \/ Submit(j) \/ RunJob(j) \/ StartChild(j) \/ ChildEnds(j)
                         \/ UpdateJob(j) \/ Followup(j)
    \/ ApiCrash \/ JobTick

JobsSpec == JobsInit /\ [][JobsNext]_jobVars

-----------------------------------------------------------------------------
\* A job without a task has a final status, the one its child ended with, or
\* was abandoned by a crash or a failed query and says queued or running for
\* ever; a user who is told a result is told that one.
JobsSound ==
    \A j \in JobIds :
       /\ row[j] # "none" /\ task[j] = "none" => j \in finished \/ j \in abandoned
       /\ j \in finished => row[j] = result[j]
       /\ j \notin finished => row[j] \notin Final
       /\ follow[j].told \in Final => follow[j].told = result[j]
=============================================================================
