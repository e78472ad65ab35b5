--------------------------- MODULE OracleCommand ---------------------------
(***************************************************************************)
(* scripts/run_oracle_reader.py, one invocation after another, against     *)
(* SageMaker jobs that age: guards, the state file latest.json, the        *)
(* submission, SageMakerTrainingMonitor.wait and the artifact gate.  Any   *)
(* invocation may be interrupted, killed or refused by AWS at any step     *)
(* while the job it paid for goes on.  Time is in units of Tick; a monitor *)
(* whose sleep is over polls before time passes.  A create request takes   *)
(* effect, if at all, before the command that sent it ends.                *)
(***************************************************************************)
EXTENDS ArtifactGate

CONSTANTS Plans,       \* what --model-key, --mode and --limit may ask for
          Wanted,      \* values of --max-monitor-seconds; 0 when it is absent
          Artifacts,   \* what a container that exits with 0 may leave, by mode
          HourlyCeiling, MaximumTotal,
          PendingLimit, HourLimit, UploadLimit, PollTime, SafetyMargin,
          MaxCommands, MaxJobs

ASSUME TimesAssumption ==
  /\ {PendingLimit, HourLimit, UploadLimit, PollTime, SafetyMargin} \subseteq Nat \ {0}
  /\ SafetyMargin >= UploadLimit + PollTime
  /\ Wanted \cup {MaxCommands, MaxJobs} \subseteq Nat

VARIABLES cmd,     \* the invocation that runs, or the last one
          jobs,    \* the training jobs, in the order of their creation
          writers, \* for each output prefix, the jobs whose objects are in it
          latest   \* artifacts/oracle_reader/runtime/latest.json

vars == <<cmd, jobs, writers, latest>>

Modes == {"smoke", "benchmark"}

ASSUME PlansAssumption ==
  /\ Plans # {}
  /\ Plans \subseteq [mode : Modes, limit : Nat, runtime : Nat \ {0}, instances : Nat,
                      fits : BOOLEAN, endpoint : BOOLEAN, spot : BOOLEAN]

\* The smoke prefix ends at the commit, and the benchmark prefix lies below it.
Under(mode) == IF mode = "smoke" THEN Modes ELSE {"benchmark"}

InProgress == {"Pending", "Running", "Uploading"}
Terminal   == {"Completed", "Failed", "Stopped"}
Status(j)  == IF j.phase \in InProgress THEN "InProgress" ELSE j.phase
Live(j)    == Status(j) \notin Terminal
Limit(j)   == CASE j.phase = "Pending" -> PendingLimit
                [] j.phase = "Running" -> j.runtime
                [] OTHER               -> UploadLimit

Idle == [pc |-> "idle", count |-> 0, plan |-> CHOOSE p \in Plans : TRUE, ceiling |-> 0, tries |-> 0,
         listed |-> 0, active |-> FALSE, job |-> 0, elapsed |-> 0, slept |-> 0,
         cause |-> "none", outcome |-> "none"]

Init ==
  /\ cmd = Idle
  /\ jobs = << >>
  /\ writers = [m \in Modes |-> {}]
  /\ latest = [job |-> 0, status |-> "absent"]

Goto(pc) == cmd' = [cmd EXCEPT !.pc = pc]
\* main() returns or raises; nothing of the invocation is left but its outcome.
End(outcome) == cmd' = [Idle EXCEPT !.count = cmd.count, !.job = cmd.job, !.outcome = outcome]

-----------------------------------------------------------------------------
(* The guards in front of the payment.                                     *)

\* validate_first_smoke_plan and validate_evaluation_plan
Bounded(p) ==
  /\ p.instances = 1 /\ p.fits /\ ~p.endpoint /\ ~p.spot
  /\ IF p.mode = "smoke" THEN p.limit = 1 /\ p.runtime <= HourLimit
                         ELSE p.limit = Cardinality(Questions)

\* validate_submission_guardrails asks again, with the hour limit for both.
Guardrails(p) == Bounded(p) /\ p.runtime <= HourLimit

\* estimate_maximum_cost with its contingency of 1.25, and enforce_cost_cap
Affordable(p) == 5 * HourlyCeiling * p.runtime * p.instances <= 4 * MaximumTotal

\* A fault: the time in the queue is forgotten.
CeilingWithoutQueue(p) == p.runtime + SafetyMargin

MonitorCeiling(p) == PendingLimit + p.runtime + SafetyMargin

Start ==
  /\ cmd.pc = "idle" /\ cmd.count < MaxCommands
  /\ \E p \in Plans, wanted \in Wanted, submit \in BOOLEAN :
       LET begun == [Idle EXCEPT !.count = cmd.count + 1]
       IN cmd' = IF /\ Bounded(p)
                    /\ wanted = 0 \/ wanted >= MonitorCeiling(p)
                    /\ Affordable(p)
                    /\ submit
                   THEN [begun EXCEPT !.pc = "quota", !.plan = p,
                                      !.ceiling = IF wanted = 0 THEN MonitorCeiling(p) ELSE wanted]
                   ELSE [begun EXCEPT !.outcome = "refused"]
  /\ UNCHANGED <<jobs, writers, latest>>

\* verify_training_quota: a throttled request is repeated, up to five times.
Throttled ==
  /\ cmd.pc = "quota"
  /\ IF cmd.tries < 4 THEN cmd' = [cmd EXCEPT !.tries = @ + 1] ELSE End("refused")
  /\ UNCHANGED <<jobs, writers, latest>>

QuotaAnswer ==
  /\ cmd.pc = "quota"
  /\ cmd' = [cmd EXCEPT !.pc = "list", !.tries = 0] \/ End("refused")
  /\ UNCHANGED <<jobs, writers, latest>>

\* A fault: a job that is stopped between the two requests is in neither answer.
StoppingFirst == <<"Stopping", "InProgress">>

Statuses == <<"InProgress", "Stopping">>

\* list_training_job_names: one request for each status.
List ==
  /\ cmd.pc = "list"
  /\ LET next   == cmd.listed + 1
         active == cmd.active \/ \E i \in DOMAIN jobs : Status(jobs[i]) = Statuses[next]
     IN IF next < Len(Statuses) THEN cmd' = [cmd EXCEPT !.listed = next, !.active = active]
        ELSE IF active THEN End("refused")
        ELSE cmd' = [cmd EXCEPT !.listed = 0, !.pc = "prefix"]
  /\ UNCHANGED <<jobs, writers, latest>>

\* A fault: the job list is taken for enough.
TrustTheList ==
  /\ cmd.pc = "prefix"
  /\ Goto("launching")
  /\ UNCHANGED <<jobs, writers, latest>>

\* _assert_output_prefix_empty
CheckPrefix ==
  /\ cmd.pc = "prefix"
  /\ IF \E m \in Under(cmd.plan.mode) : writers[m] # {} THEN End("refused") ELSE Goto("launching")
  /\ UNCHANGED <<jobs, writers, latest>>

-----------------------------------------------------------------------------
(* The submission and the state file.                                      *)

SaveLaunching ==
  /\ cmd.pc = "launching"
  /\ latest' = [job |-> 0, status |-> "launching"]
  /\ Goto("submit")
  /\ UNCHANGED <<jobs, writers>>

NewJob == [mode |-> cmd.plan.mode, runtime |-> cmd.plan.runtime, phase |-> "Pending", age |-> 0,
           named |-> FALSE, artifact |-> << >>]

SubmitRefused ==
  /\ cmd.pc = "submit"
  /\ End("refused")
  /\ UNCHANGED <<jobs, writers, latest>>

\* The job exists; the command may never learn it.
Submit ==
  /\ cmd.pc = "submit"
  /\ Guardrails(cmd.plan)
  /\ Len(jobs) < MaxJobs
  /\ jobs' = Append(jobs, NewJob)
  /\ \/ cmd' = [cmd EXCEPT !.pc = "named", !.job = Len(jobs')]
     \/ End("lost")
  /\ UNCHANGED <<writers, latest>>

SaveNamed ==
  /\ cmd.pc = "named"
  /\ latest' = [job |-> cmd.job, status |-> "InProgress"]
  /\ jobs' = [jobs EXCEPT ![cmd.job].named = TRUE]
  /\ cmd' = [cmd EXCEPT !.pc = "monitor", !.slept = PollTime]
  /\ UNCHANGED writers

-----------------------------------------------------------------------------
(* SageMakerTrainingMonitor.wait(stop_on_timeout=False) and what follows.  *)

Raise(cause) == cmd' = [cmd EXCEPT !.pc = "failed", !.cause = cause]

Poll ==
  /\ cmd.pc = "monitor" /\ cmd.slept = PollTime
  /\ LET status == Status(jobs[cmd.job]) IN
     IF cmd.elapsed > cmd.ceiling THEN Raise("timed_out")
     ELSE IF status = "Completed" THEN Goto("save")
     ELSE IF status \in Terminal THEN Raise("job_failed")
     ELSE cmd' = [cmd EXCEPT !.slept = 0]
  /\ UNCHANGED <<jobs, writers, latest>>

PollFails ==
  /\ cmd.pc = "monitor" /\ cmd.slept = PollTime
  /\ Raise("aws_error")
  /\ UNCHANGED <<jobs, writers, latest>>

\* KeyboardInterrupt
Detach ==
  /\ cmd.pc = "monitor"
  /\ latest' = [job |-> cmd.job, status |-> "detached"]
  /\ End("detached")
  /\ UNCHANGED <<jobs, writers>>

\* except Exception: one more look at the job.
Recheck ==
  /\ cmd.pc = "failed"
  /\ latest' = [job |-> cmd.job, status |-> Status(jobs[cmd.job])]
  /\ End(cmd.cause)
  /\ UNCHANGED <<jobs, writers>>

RecheckFails ==
  /\ cmd.pc = "failed"
  /\ End("unavailable")
  /\ UNCHANGED <<jobs, writers, latest>>

SaveCompleted ==
  /\ cmd.pc = "save"
  /\ latest' = [job |-> cmd.job, status |-> "Completed"]
  /\ Goto("gate")
  /\ UNCHANGED <<jobs, writers>>

Verify ==
  /\ cmd.pc = "gate"
  /\ End(IF Gate(cmd.plan.mode, jobs[cmd.job].artifact) THEN "verified" ELSE "unverified")
  /\ UNCHANGED <<jobs, writers, latest>>

\* The process is killed, interrupted outside the monitor, or a request fails.
Crash ==
  /\ cmd.pc \notin {"idle", "failed"}
  /\ End("died")
  /\ UNCHANGED <<jobs, writers, latest>>

-----------------------------------------------------------------------------
(* SageMaker: the limits it enforces are those of the plan.                *)

Become(i, phase) == jobs' = [jobs EXCEPT ![i].phase = phase, ![i].age = 0]

JobStarts(i) == jobs[i].phase = "Pending" /\ Become(i, "Running") /\ UNCHANGED writers

JobStopped(i) == jobs[i].phase \in {"Pending", "Running"} /\ Become(i, "Stopping") /\ UNCHANGED writers

JobFails(i) == jobs[i].phase \in InProgress /\ Become(i, "Failed") /\ UNCHANGED writers

\* The container has a grace period while its job stops.
JobWrites(i) ==
  /\ jobs[i].phase \in {"Running", "Stopping"}
  /\ writers' = [writers EXCEPT ![jobs[i].mode] = @ \cup {i}]
  /\ UNCHANGED jobs

JobExits(i) ==
  /\ jobs[i].phase = "Running" /\ i \in writers[jobs[i].mode]
  /\ \E a \in Artifacts[jobs[i].mode] :
       jobs' = [jobs EXCEPT ![i].phase = "Uploading", ![i].age = 0, ![i].artifact = a]
  /\ UNCHANGED writers

JobEnds(i) ==
  /\ \/ jobs[i].phase = "Uploading" /\ Become(i, "Completed")
     \/ jobs[i].phase = "Stopping" /\ Become(i, "Stopped")
  /\ UNCHANGED writers

Job(i) ==
  /\ JobStarts(i) \/ JobStopped(i) \/ JobFails(i) \/ JobWrites(i) \/ JobExits(i) \/ JobEnds(i)
  /\ UNCHANGED <<cmd, latest>>

Waiting == cmd.pc = "monitor"

Tick ==
  /\ \E i \in DOMAIN jobs : Live(jobs[i])
  /\ \A i \in DOMAIN jobs : Live(jobs[i]) => jobs[i].age < Limit(jobs[i])
  /\ Waiting => cmd.slept < PollTime
  /\ jobs' = [i \in DOMAIN jobs |-> IF Live(jobs[i]) THEN [jobs[i] EXCEPT !.age = @ + 1] ELSE jobs[i]]
  /\ cmd' = IF Waiting THEN [cmd EXCEPT !.elapsed = @ + 1, !.slept = @ + 1] ELSE cmd
  /\ UNCHANGED <<writers, latest>>

\* The monitor's clock when no job runs any more.
Sleep ==
  /\ Waiting /\ cmd.slept < PollTime
  /\ \A i \in DOMAIN jobs : ~Live(jobs[i])
  /\ cmd' = [cmd EXCEPT !.elapsed = @ + 1, !.slept = @ + 1]
  /\ UNCHANGED <<jobs, writers, latest>>

-----------------------------------------------------------------------------
Command == \/ Start \/ Throttled \/ QuotaAnswer \/ List \/ CheckPrefix
           \/ SaveLaunching \/ SubmitRefused \/ Submit \/ SaveNamed
           \/ Poll \/ PollFails \/ Detach \/ Recheck \/ RecheckFails
           \/ SaveCompleted \/ Verify \/ Crash

Next == Command \/ Tick \/ Sleep \/ \E i \in DOMAIN jobs : Job(i)

Spec == Init /\ [][Next]_vars

-----------------------------------------------------------------------------
Pcs == {"idle", "quota", "list", "prefix", "launching", "submit", "named", "monitor",
        "failed", "save", "gate"}
Causes == {"timed_out", "job_failed", "aws_error"}
Outcomes == Causes \cup {"refused", "lost", "died", "detached", "unavailable", "verified", "unverified"}

\* Types, and the bounds main() keeps: at most five questions to Service
\* Quotas, and no limit or plan that the guards refuse once it is past them.
TypeOK ==
  /\ cmd.pc \in Pcs
  /\ cmd.count \in 0..MaxCommands
  /\ cmd.plan \in Plans /\ cmd.ceiling \in Nat
  /\ cmd.tries \in 0..4 /\ cmd.listed \in 0..1 /\ cmd.active \in BOOLEAN
  /\ cmd.job \in 0..Len(jobs)
  /\ cmd.elapsed \in Nat /\ cmd.slept \in 0..PollTime
  /\ cmd.cause \in Causes \cup {"none"} /\ cmd.outcome \in Outcomes \cup {"none"}
  /\ cmd.pc # "idle" => Bounded(cmd.plan) /\ Affordable(cmd.plan)
  /\ Len(jobs) <= MaxJobs
  /\ \A i \in DOMAIN jobs :
       /\ jobs[i].phase \in InProgress \cup Terminal \cup {"Stopping"}
       /\ jobs[i].age \in 0..Limit(jobs[i])
       /\ jobs[i].runtime <= HourLimit
  /\ writers \in [Modes -> SUBSET DOMAIN jobs]
  /\ latest.job \in 0..Len(jobs)
  /\ latest.status \in {"absent", "launching", "InProgress", "Stopping", "detached"} \cup Terminal

\* The objects under an output prefix are those of one job, although an
\* earlier job may be starting, stopping or ending, unknown to the command,
\* while the guards look (run_oracle_reader.py:250-262, sagemaker_monitor.py:113).
PrefixHasOneWriter == \A m \in Modes : Cardinality(writers[m]) <= 1

\* A paid job that runs can be found in latest.json: it is named there, or, if
\* the command died or lost the answer before it could name it, the state
\* still says that a launch was under way (run_oracle_reader.py:264-301).
LiveJobIsOnRecord ==
  \A i \in DOMAIN jobs : Live(jobs[i]) =>
    /\ latest.job = (IF jobs[i].named THEN i ELSE 0)
    /\ latest.status # "absent"

\* The local monitor never gives up on a job that SageMaker still holds, and a
\* command that ends by itself leaves the job's last status on record
\* (run_oracle_reader.py:111-127, 303-373).
MonitorSeesTheEnd ==
  /\ cmd.outcome # "timed_out"
  /\ cmd.outcome \in {"verified", "unverified", "job_failed"} =>
       /\ jobs[cmd.job].phase \in Terminal
       /\ latest = [job |-> cmd.job, status |-> jobs[cmd.job].phase]
=============================================================================
