----------------------------- MODULE JobLaunch -----------------------------
(***************************************************************************)
(* Launching, reattaching to and monitoring the GPU job of a contract:     *)
(* execute_prepared and ensure_job of lava/readers/system_execution.py,    *)
(* for one contract whose inputs are prepared.  A launcher is a command    *)
(* invocation; several may run, each for any attempt number, from any      *)
(* checkout.  The durable intent and receipt of an attempt are slots of    *)
(* SlotStore, used through its write-once promise.  SageMaker keeps jobs   *)
(* by name and is external: it accepts one job per name, may lose the      *)
(* answer to a create request, and ends a job in its own time.             *)
(***************************************************************************)
EXTENDS Naturals, FiniteSets

CONSTANTS Launchers,    \* concurrent invocations of execute_prepared
          MaxAttempt,   \* attempt numbers in use: the code allows 1..99
          Sources,      \* commits a launcher's checkout may be at
          Instances,    \* approved instance types
          None

Attempts == 1..MaxAttempt
Requests == [source : Sources, instance : Instances]

ASSUME LaunchAssumption == /\ MaxAttempt \in 1..99
                           /\ None \notin Requests

TERMINAL == {"Completed", "Failed", "Stopped"}
Statuses == TERMINAL \cup {"InProgress", "Stopping"}
Receipts == [status : TERMINAL, request : Requests]

ASSUME NoReceipt == None \notin Receipts

VARIABLES
  intent,     \* intent[a]: jobs/attempt-<a>/request.json
  receipt,    \* receipt[a]: jobs/attempt-<a>/receipt.json
  inference,  \* is inference.json complete
  job,        \* the training jobs of SageMaker, by name
  pc,         \* pc[l]: the step launcher l takes next, or how it ended
  attempt,    \* attempt[l]: the attempt number it was invoked with
  request,    \* request[l]: the request it holds
  seen        \* seen[l]: the status in its last description of the job

durable  == <<intent, receipt, inference>>
launcher == <<pc, attempt, request, seen>>
vars     == <<durable, job, launcher>>

Ended  == {"idle", "already", "success", "failed", "differs", "incomplete"}
Active == {"guard", "intent", "save", "describe", "list", "stopping", "create",
           "recheck", "monitor", "verify"}

TypeOK ==
  /\ intent \in [Attempts -> Requests \cup {None}]
  /\ receipt \in [Attempts -> Receipts \cup {None}]
  /\ inference \in BOOLEAN
  /\ \A n \in DOMAIN job :
       job[n] \in [attempt : Attempts, request : Requests, status : Statuses]
  /\ pc \in [Launchers -> Ended \cup Active]
  /\ attempt \in [Launchers -> Attempts]
  /\ request \in [Launchers -> Requests \cup {None}]
  /\ seen \in [Launchers -> Statuses \cup {None}]

Init == /\ intent = [a \in Attempts |-> None]
        /\ receipt = [a \in Attempts |-> None]
        /\ inference = FALSE
        /\ job = [n \in {} |-> None]
        /\ pc = [l \in Launchers |-> "idle"]
        /\ attempt = [l \in Launchers |-> 1]
        /\ request = [l \in Launchers |-> None]
        /\ seen = [l \in Launchers |-> None]

-----------------------------------------------------------------------------
\* A fault: a name made up for every invocation, as by a timestamp.
JobNameUnique(l) == <<attempt[l], l>>

\* The name of a job is its contract and attempt, and nothing else: whoever
\* asks again, from whichever commit, asks for the same job.
JobName(l) == <<attempt[l]>>

Exists(l) == JobName(l) \in DOMAIN job

Goto(l, s) == pc' = [pc EXCEPT ![l] = s]

Invoke(l, a) == /\ pc[l] \in Ended
                /\ attempt' = [attempt EXCEPT ![l] = a]
                /\ request' = [request EXCEPT ![l] = None]
                /\ seen' = [seen EXCEPT ![l] = None]
                /\ Goto(l, "guard")
                /\ UNCHANGED <<durable, job>>

\* Inference that is already complete needs no job.
Guard(l) == /\ pc[l] = "guard"
            /\ Goto(l, IF inference THEN "already" ELSE "intent")
            /\ UNCHANGED <<durable, job, attempt, request, seen>>

\* A fault: the request of this checkout is used although another is stored.
ReadOwnIntent(l, own) ==
  /\ pc[l] = "intent"
  /\ request' = [request EXCEPT ![l] = own]
  /\ Goto(l, IF intent[attempt[l]] = None THEN "save" ELSE "describe")
  /\ UNCHANGED <<durable, job, attempt, seen>>

\* A stored request is taken instead of the one this checkout would make (own),
\* unless the attempt would change its instance type.
ReadIntent(l, own) ==
  /\ pc[l] = "intent"
  /\ LET stored == intent[attempt[l]] IN
       \/ /\ stored = None
          /\ request' = [request EXCEPT ![l] = own]
          /\ Goto(l, "save")
       \/ /\ stored # None /\ stored.instance = own.instance
          /\ request' = [request EXCEPT ![l] = stored]
          /\ Goto(l, "describe")
       \/ /\ stored # None /\ stored.instance # own.instance
          /\ Goto(l, "failed")
          /\ UNCHANGED request
  /\ UNCHANGED <<durable, job, attempt, seen>>

\* A fault: the intent is not made durable.
SkipIntent(l) ==
  /\ pc[l] = "save"
  /\ Goto(l, "describe")
  /\ UNCHANGED <<durable, job, attempt, request, seen>>

\* The intent is durable, and read back, before any job is asked for.
SaveIntent(l) ==
  /\ pc[l] = "save"
  /\ LET stored == intent[attempt[l]] IN
       /\ intent' = [intent EXCEPT ![attempt[l]] = IF @ = None THEN request[l] ELSE @]
       /\ Goto(l, IF stored \in {None, request[l]} THEN "describe" ELSE "failed")
  /\ UNCHANGED <<receipt, inference, job, attempt, request, seen>>

\* validate_remote, then monitoring: only a job that runs this very request.
Attach(l) == /\ Goto(l, IF job[JobName(l)].request = request[l] THEN "monitor" ELSE "differs")
             /\ seen' = [seen EXCEPT ![l] = job[JobName(l)].status]

\* An existing job is attached to.  A new one needs CHARGES=YES, and RETRY=YES
\* after the first attempt: the operator's settings, optIn.
Describe(l) ==
  /\ pc[l] = "describe"
  /\ \/ Exists(l) /\ Attach(l)
     \/ /\ ~Exists(l)
        /\ \E optIn \in SUBSET {"CHARGES", "RETRY"} :
             Goto(l, IF "CHARGES" \in optIn /\ (attempt[l] > 1 => "RETRY" \in optIn)
                     THEN "list" ELSE "failed")
        /\ UNCHANGED seen
  /\ UNCHANGED <<durable, job, attempt, request>>

\* "Another LAVA training job is active": the jobs in progress are listed,
\* then the ones being stopped.
AnyJob(status) == \E n \in DOMAIN job : job[n].status = status

\* A fault: only the jobs being stopped are listed.
ListNothing(l) ==
  /\ pc[l] = "list"
  /\ Goto(l, "stopping")
  /\ UNCHANGED <<durable, job, attempt, request, seen>>

ListInProgress(l) == /\ pc[l] = "list"
                     /\ Goto(l, IF AnyJob("InProgress") THEN "failed" ELSE "stopping")
                     /\ UNCHANGED <<durable, job, attempt, request, seen>>

ListStopping(l) == /\ pc[l] = "stopping"
                   /\ Goto(l, IF AnyJob("Stopping") THEN "failed" ELSE "create")
                   /\ UNCHANGED <<durable, job, attempt, request, seen>>

\* create_training_job: a job in progress, answered or not; or an error, the
\* only outcome when the name is taken.
NewJob(l) == [attempt |-> attempt[l], request |-> request[l], status |-> "InProgress"]

Create(l) ==
  /\ pc[l] = "create"
  /\ \/ /\ ~Exists(l)
        /\ job' = [n \in DOMAIN job \cup {JobName(l)} |->
                     IF n = JobName(l) THEN NewJob(l) ELSE job[n]]
        /\ \/ Goto(l, "monitor") /\ seen' = [seen EXCEPT ![l] = "InProgress"]
           \/ Goto(l, "recheck") /\ UNCHANGED seen
     \/ /\ Goto(l, "recheck")
        /\ UNCHANGED <<job, seen>>
  /\ UNCHANGED <<durable, attempt, request>>

\* After an error the same name is described once more.
Recheck(l) == /\ pc[l] = "recheck"
              /\ \/ Exists(l) /\ Attach(l)
                 \/ ~Exists(l) /\ Goto(l, "failed") /\ UNCHANGED seen
              /\ UNCHANGED <<durable, job, attempt, request>>

Monitoring(l) == pc[l] = "monitor" /\ seen[l] \notin TERMINAL

Poll(l) == /\ Monitoring(l)
           /\ seen' = [seen EXCEPT ![l] = job[JobName(l)].status]
           /\ UNCHANGED <<durable, job, pc, attempt, request>>

\* A fault: the ceiling never passes.
NoTimeout(l) == FALSE /\ UNCHANGED vars

\* The monitor's own ceiling: the job is not cancelled.
Timeout(l) == /\ Monitoring(l)
              /\ Goto(l, "failed")
              /\ UNCHANGED <<durable, job, attempt, request, seen>>

\* A fault: a receipt is written for a job that has not ended.
SettleEarly(l) ==
  /\ pc[l] = "monitor"
  /\ LET mine == [status |-> seen[l], request |-> request[l]] IN
       /\ receipt' = [receipt EXCEPT ![attempt[l]] = IF @ = None THEN mine ELSE @]
       /\ Goto(l, IF seen[l] = "Completed" THEN "verify" ELSE "failed")
  /\ UNCHANGED <<intent, inference, job, attempt, request, seen>>

\* A terminal job is validated again and its receipt made durable, whatever
\* the outcome; a job that did not complete is an error all the same.
Settle(l) ==
  /\ pc[l] = "monitor" /\ seen[l] \in TERMINAL
  /\ IF job[JobName(l)].request # request[l]
       THEN Goto(l, "differs") /\ UNCHANGED receipt
       ELSE LET mine == [status |-> seen[l], request |-> request[l]]
                old  == receipt[attempt[l]] IN
            /\ receipt' = [receipt EXCEPT ![attempt[l]] = IF @ = None THEN mine ELSE @]
            /\ Goto(l, IF old \in {None, mine} /\ seen[l] = "Completed"
                       THEN "verify" ELSE "failed")
  /\ UNCHANGED <<intent, inference, job, attempt, request, seen>>

\* "AWS completion alone is insufficient".
VerifyInference(l) == /\ pc[l] = "verify"
                      /\ Goto(l, IF inference THEN "success" ELSE "incomplete")
                      /\ UNCHANGED <<durable, job, attempt, request, seen>>

\* Any request raises, or the launcher is interrupted.
Fail(l) == /\ pc[l] \in Active
           /\ Goto(l, "failed")
           /\ UNCHANGED <<durable, job, attempt, request, seen>>

-----------------------------------------------------------------------------
(***************************************************************************)
(* The job.  Its container runs the loop of SystemInference: it exits with *)
(* success only after publishing inference.json or finding it published.   *)
(***************************************************************************)
Becomes(n, s) == /\ job' = [job EXCEPT ![n].status = s]
                 /\ UNCHANGED <<durable, launcher>>

JobPublishes(n) == /\ job[n].status \in {"InProgress", "Stopping"}
                   /\ ~inference
                   /\ inference' = TRUE
                   /\ UNCHANGED <<intent, receipt, job, launcher>>

\* A fault: the container exits 0 whatever it did.
JobCompletesEmpty(n) ==
  /\ job[n].status = "InProgress"
  /\ Becomes(n, "Completed")

JobCompletes(n) == /\ job[n].status = "InProgress"
                   /\ inference
                   /\ Becomes(n, "Completed")

JobFails(n) == job[n].status = "InProgress" /\ Becomes(n, "Failed")
StopJob(n)  == job[n].status = "InProgress" /\ Becomes(n, "Stopping")
JobStops(n) == job[n].status = "Stopping" /\ Becomes(n, "Stopped")

LauncherStep(l) == \/ Guard(l) \/ SaveIntent(l) \/ Describe(l)
                   \/ \E own \in Requests : ReadIntent(l, own)
                   \/ ListInProgress(l) \/ ListStopping(l)
                   \/ Create(l) \/ Recheck(l)
                   \/ Poll(l) \/ Settle(l) \/ VerifyInference(l)

JobStep(n) == \/ JobPublishes(n) \/ JobCompletes(n) \/ JobFails(n)
              \/ StopJob(n) \/ JobStops(n)

Next == \/ \E l \in Launchers : \/ \E a \in Attempts : Invoke(l, a)
                                \/ LauncherStep(l) \/ Timeout(l) \/ Fail(l)
        \/ \E n \in DOMAIN job : JobStep(n)

Spec == Init /\ [][Next]_vars

\* A launcher goes on, and its clock passes the ceiling.  Nothing is assumed
\* of the job: SageMaker may keep it in progress for ever.
LaunchFairness == \A l \in Launchers : WF_vars(LauncherStep(l)) /\ WF_vars(Timeout(l))

-----------------------------------------------------------------------------
\* Every job runs the request stored for its attempt, although the launchers
\* are at different commits and any of them may create it.
JobsFollowIntent == \A n \in DOMAIN job : intent[job[n].attempt] = job[n].request

\* "A lost API response or disconnected monitor must not create a duplicate job."
OneJobPerAttempt == \A m, n \in DOMAIN job : job[m].attempt = job[n].attempt => m = n

\* A launcher is never refused the job of its attempt as "different".
ReattachNeverRefused == \A l \in Launchers : pc[l] # "differs"

\* A receipt says how its job really ended, and no launcher that comes later
\* has another receipt to write.
ReceiptsAreTrue == \A a \in Attempts : receipt[a] # None =>
  \E n \in DOMAIN job : /\ job[n].attempt = a
                        /\ receipt[a] = [status |-> job[n].status, request |-> job[n].request]

\* A launcher that reports success has durable inference and the receipt of a
\* completed job; a completed job never lacks its inference.
SuccessIsDurable == \A l \in Launchers :
  /\ pc[l] = "success" => inference /\ receipt[attempt[l]].status = "Completed"
  /\ pc[l] # "incomplete"

\* One launcher at a time never pays for two jobs at once, whatever attempts it
\* is invoked for and wherever it detached from the last one.
OneActiveJob == Cardinality({n \in DOMAIN job : job[n].status \in {"InProgress", "Stopping"}}) <= 1

\* Every invocation ends: the monitor does not wait for a job for ever.
LaunchersEnd == \A l \in Launchers : (pc[l] = "guard") ~> (pc[l] \in Ended)
=============================================================================
