------------------------------ MODULE Pipeline ------------------------------
(***************************************************************************)
(* The launcher and the inference it pays for: the jobs of JobLaunch run   *)
(* the loop of SystemInference, one container for each attempt, on one     *)
(* bucket.  A job is not restarted by SageMaker (no spot training, no      *)
(* retry strategy): whatever it leaves is left to the next attempt.        *)
(***************************************************************************)
EXTENDS JobLaunch

CONSTANTS N, Manifests, Generations

VARIABLES
  inputs, answer, result,           \* the durable objects of SystemInference
  step, manifest, saved, records,   \* where the container of each attempt is
  crashes,                          \* containers that died
  calls                             \* calls of the model, in all jobs: what is paid for

loop     == <<inputs, answer, result, step, manifest, saved, records, crashes>>
pipeline == <<vars, loop, calls>>

\* A container dies at most once.
Loop == INSTANCE SystemInference WITH
          Runs <- Attempts, MaxCrashes <- MaxAttempt, inference <- result, pc <- step

ASSUME PipelineAssumption ==
  /\ N \in Nat \ {0}
  /\ None \notin Manifests \cup Loop!Answers \cup Loop!Results

\* A contract is launched when its inputs are prepared.
PipelineInit == /\ Init
                /\ inputs \in Manifests
                /\ answer = [q \in Loop!Questions |-> None] /\ result = None
                /\ step = [a \in Attempts |-> "idle"]
                /\ manifest = [a \in Attempts |-> None]
                /\ saved = [a \in Attempts |-> None]
                /\ records = [a \in Attempts |-> << >>]
                /\ crashes = 0 /\ calls = 0

\* A launcher shares nothing with containers but the objects it reads.
LauncherMoves == /\ \E l \in Launchers : \/ \E a \in Attempts : Invoke(l, a)
                                         \/ LauncherStep(l) \/ Timeout(l) \/ Fail(l)
                 /\ UNCHANGED <<loop, calls>>

\* A job that is being stopped has its container for a while.
ContainerMoves(n) ==
  LET a == job[n].attempt IN
  /\ job[n].status \in {"InProgress", "Stopping"}
  /\ Loop!Step(a)
  /\ inference' = (result' # None)
  /\ calls' = IF step[a] = "generate" THEN calls + 1 ELSE calls
  /\ UNCHANGED <<intent, receipt, job, launcher>>

\* A fault: the entry point does not pass on the exit status of a loop that died.
ExitIgnored(n) ==
  /\ JobCompletesEmpty(n)
  /\ \/ Loop!Crash(job[n].attempt)
     \/ step[job[n].attempt] = "done" /\ UNCHANGED loop
  /\ UNCHANGED calls

\* The entry point ends with status 0 when the loop is done; the launcher's
\* view of it, that inference is complete, is to be shown.
ContainerExits(n) ==
  /\ job[n].status = "InProgress" /\ step[job[n].attempt] = "done"
  /\ Becomes(n, "Completed")
  /\ UNCHANGED <<loop, calls>>

\* The end of a job in any other way is the end of its container wherever it is:
\* before the loop, amid it, or after it when the outputs are uploaded.
ContainerEnds(n) ==
  LET a == job[n].attempt IN
  /\ JobFails(n) \/ JobStops(n)
  /\ \/ step[a] \in Loop!Active /\ Loop!Crash(a)
     \/ step[a] \notin Loop!Active /\ UNCHANGED loop
  /\ UNCHANGED calls

PipelineNext ==
  \/ LauncherMoves
  \/ \E n \in DOMAIN job : \/ ContainerMoves(n) \/ ContainerExits(n) \/ ContainerEnds(n)
                           \/ StopJob(n) /\ UNCHANGED <<loop, calls>>

\* The fairness of JobLaunch and no more: nothing is assumed of a container.
PipelineSpec == PipelineInit /\ [][PipelineNext]_pipeline /\ LaunchFairness

-----------------------------------------------------------------------------
\* The job of JobLaunch, which publishes at some time and completes only when
\* inference is there, is what a container with the question loop does: each
\* behaviour of the whole is one of the launcher's model (execute_prepared,
\* run_inference, run.sh).
ImplementsLaunch == Spec

\* With one launcher a model call is paid for once.  Each call beyond the
\* durable answers belongs to a job of its own that has not completed: the call
\* it is at, or the one it died in.  It takes the listing of active jobs, the
\* reuse of answers, and the write before the next question (ensure_job,
\* infer_requests): a call per question and per lost job, over all attempts.
WorkIsPaidOnce ==
  calls <= Cardinality({q \in Loop!Questions : answer[q] # None})
           + Cardinality({n \in DOMAIN job : job[n].status # "Completed"})
=============================================================================
