--------------------------- MODULE PipelineProofs ---------------------------
(***************************************************************************)
(* Proofs about JobLaunch and Pipeline.  The launcher alone, for any       *)
(* launchers, attempts, commits and instance types: jobs run the stored    *)
(* request, there is one for each attempt, a launcher always recognises    *)
(* its own, and receipts and successes are true although SageMaker may     *)
(* lose answers and end jobs at any time.  Then the launcher with the      *)
(* question loop in its jobs: it implements the launcher's model, whose    *)
(* job is a reduction of the loop; what the jobs publish together is       *)
(* durable; and with one launcher no model call is paid for twice.         *)
(***************************************************************************)
EXTENDS Pipeline, TLAPS, FiniteSetTheorems

-----------------------------------------------------------------------------
(***************************************************************************)
(* The invariant.  A launcher past its intent holds the stored request; so *)
(* the job that bears the name of its attempt, whoever created it, is its  *)
(* job.  A terminal status is final: the last description a launcher saw   *)
(* of an ended job, and every receipt, stay true.                          *)
(***************************************************************************)
Intended == {"describe", "list", "stopping", "create", "recheck", "monitor", "verify"}

Holds(l) ==
  /\ pc[l] = "save" => request[l] \in Requests
  /\ pc[l] \in Intended => request[l] \in Requests /\ intent[attempt[l]] = request[l]
  /\ pc[l] = "monitor" => /\ Exists(l)
                          /\ seen[l] \in TERMINAL => job[JobName(l)].status = seen[l]
  /\ pc[l] \in {"verify", "success"} => /\ receipt[attempt[l]] # None
                                        /\ receipt[attempt[l]].status = "Completed"
  /\ pc[l] = "success" => inference
  /\ pc[l] \notin {"differs", "incomplete"}

NamedForAttempt == \A n \in DOMAIN job : n = <<job[n].attempt>>

ReceiptsStand == \A a \in Attempts : receipt[a] # None =>
  /\ <<a>> \in DOMAIN job
  /\ job[<<a>>].status = receipt[a].status
  /\ job[<<a>>].request = receipt[a].request

CompletedHasInference == \A n \in DOMAIN job : job[n].status = "Completed" => inference

LaunchInv == /\ TypeOK
             /\ NamedForAttempt
             /\ JobsFollowIntent
             /\ ReceiptsStand
             /\ CompletedHasInference
             /\ \A l \in Launchers : Holds(l)

-----------------------------------------------------------------------------
\* The attempts are where the code's 1..99 puts them.
LEMMA SomeAttempt == 1 \in Attempts
  BY LaunchAssumption DEF Attempts

LEMMA InitialLaunch == Init => LaunchInv
  BY SomeAttempt DEF Init, LaunchInv, TypeOK, NamedForAttempt, JobsFollowIntent, ReceiptsStand,
     CompletedHasInference, Holds, Ended, Active, Intended

\* The job of a launcher that finds one by its name is the one it wants.
LEMMA OwnJob ==
  ASSUME LaunchInv, NEW l \in Launchers, pc[l] \in Intended, Exists(l)
  PROVE  /\ JobName(l) = <<attempt[l]>>
         /\ job[JobName(l)].attempt = attempt[l]
         /\ job[JobName(l)].request = request[l]
         /\ job[JobName(l)].status \in Statuses
<1>1. JobName(l) = <<attempt[l]>> /\ JobName(l) \in DOMAIN job
  BY DEF Exists, JobName
<1>2. job[JobName(l)].attempt = attempt[l]
  BY <1>1 DEF LaunchInv, NamedForAttempt
<1>3. job[JobName(l)].request = intent[attempt[l]]
  BY <1>1, <1>2 DEF LaunchInv, JobsFollowIntent
<1>. QED
  BY <1>1, <1>2, <1>3 DEF LaunchInv, Holds, TypeOK

\* What every step leaves alone: jobs keep their name, attempt, request and
\* terminal status; intents, receipts and the inference stay once there.
Stays ==
  /\ \A n \in DOMAIN job : /\ n \in DOMAIN job'
                           /\ job'[n].attempt = job[n].attempt
                           /\ job'[n].request = job[n].request
                           /\ job[n].status \in TERMINAL => job'[n].status = job[n].status
  /\ \A a \in Attempts : intent[a] # None => intent'[a] = intent[a]
  /\ \A a \in Attempts : receipt[a] # None => receipt'[a] = receipt[a]
  /\ inference => inference'

LEMMA NothingLost == ASSUME LaunchInv, [Next]_vars PROVE Stays
<1>. USE DEF LaunchInv, TypeOK
<1>1. ASSUME UNCHANGED <<durable, job>> PROVE Stays
  BY <1>1 DEF durable, Stays
<1>2. ASSUME NEW l \in Launchers, SaveIntent(l) PROVE Stays
  BY <1>2 DEF SaveIntent, Stays
<1>3. ASSUME NEW l \in Launchers, Create(l) PROVE Stays
  <2>1. CASE UNCHANGED job
    BY <1>3, <2>1, <1>1 DEF Create
  <2>2. CASE ~Exists(l) /\ job' = [n \in DOMAIN job \cup {JobName(l)} |->
                                    IF n = JobName(l) THEN NewJob(l) ELSE job[n]]
    BY <1>3, <2>2 DEF Create, Stays, durable, Exists
  <2>. QED
    BY <1>3, <2>1, <2>2 DEF Create
<1>4. ASSUME NEW l \in Launchers, Settle(l) PROVE Stays
  BY <1>4 DEF Settle, Stays
<1>5. ASSUME NEW n \in DOMAIN job, JobStep(n) PROVE Stays
  <2>1. CASE JobPublishes(n)
    BY <2>1 DEF JobPublishes, Stays
  <2>2. ASSUME NEW s \in Statuses, job[n].status \notin TERMINAL, Becomes(n, s) PROVE Stays
    BY <2>2 DEF Becomes, durable, Stays
  <2>. QED
    BY <1>5, <2>1, <2>2 DEF JobStep, JobCompletes, JobFails, StopJob, JobStops, Statuses, TERMINAL
<1>. QED
  BY <1>1, <1>2, <1>3, <1>4, <1>5
     DEF Next, LauncherStep, vars, Invoke, Guard, ReadIntent, Describe, ListInProgress,
         ListStopping, Recheck, Poll, Timeout, VerifyInference, Fail

-----------------------------------------------------------------------------
(***************************************************************************)
(* The durable objects and the jobs.                                       *)
(***************************************************************************)
SharedType == /\ intent \in [Attempts -> Requests \cup {None}]
              /\ receipt \in [Attempts -> Receipts \cup {None}]
              /\ inference \in BOOLEAN
              /\ \A n \in DOMAIN job :
                   job[n] \in [attempt : Attempts, request : Requests, status : Statuses]

SharedInv == /\ SharedType
             /\ NamedForAttempt
             /\ JobsFollowIntent
             /\ ReceiptsStand
             /\ CompletedHasInference

LEMMA SharedStep == ASSUME LaunchInv, [Next]_vars PROVE SharedInv'
<1>. USE DEF SharedInv, SharedType, LaunchInv, TypeOK
<1>1. ASSUME UNCHANGED <<durable, job>> PROVE SharedInv'
  BY <1>1 DEF durable, NamedForAttempt, JobsFollowIntent, ReceiptsStand, CompletedHasInference
<1>2. ASSUME NEW l \in Launchers, SaveIntent(l) PROVE SharedInv'
  <2>1. SharedType'
    BY <1>2 DEF SaveIntent, Holds
  <2>2. UNCHANGED <<receipt, inference, job>>
    BY <1>2 DEF SaveIntent
  <2>3. JobsFollowIntent'
    <3>1. \A n \in DOMAIN job : job[n].attempt \in Attempts /\ intent[job[n].attempt] # None
      BY LaunchAssumption DEF JobsFollowIntent
    <3>. QED
      BY <1>2, <2>2, <3>1, NothingLost DEF Stays, JobsFollowIntent
  <2>. QED
    BY <2>1, <2>2, <2>3 DEF NamedForAttempt, ReceiptsStand, CompletedHasInference
<1>3. ASSUME NEW l \in Launchers, Create(l) PROVE SharedInv'
  <2>1. CASE UNCHANGED job
    BY <1>1, <1>3, <2>1 DEF Create
  <2>2. CASE ~Exists(l) /\ job' = [n \in DOMAIN job \cup {JobName(l)} |->
                                    IF n = JobName(l) THEN NewJob(l) ELSE job[n]]
    <3>1. UNCHANGED durable /\ request[l] \in Requests /\ intent[attempt[l]] = request[l]
      BY <1>3 DEF Create, Holds, Intended
    <3>2. NewJob(l) \in [attempt : Attempts, request : Requests, status : Statuses]
      BY <3>1 DEF NewJob, Statuses
    <3>3. /\ NewJob(l).attempt = attempt[l]
          /\ NewJob(l).request = request[l]
          /\ NewJob(l).status # "Completed"
      BY DEF NewJob
    <3>4. SharedType'
      BY <2>2, <3>1, <3>2 DEF durable
    <3>5. NamedForAttempt'
      BY <2>2, <3>3 DEF NamedForAttempt, JobName
    <3>6. JobsFollowIntent'
      BY <2>2, <3>1, <3>3 DEF JobsFollowIntent, durable
    <3>7. ReceiptsStand'
      BY <2>2, <3>1 DEF ReceiptsStand, durable, Exists
    <3>8. CompletedHasInference'
      BY <2>2, <3>1, <3>3 DEF CompletedHasInference, durable
    <3>. QED
      BY <3>4, <3>5, <3>6, <3>7, <3>8
  <2>. QED
    BY <1>3, <2>1, <2>2 DEF Create
<1>4. ASSUME NEW l \in Launchers, Settle(l) PROVE SharedInv'
  <2>1. /\ UNCHANGED <<intent, inference, job>>
        /\ pc[l] = "monitor" /\ seen[l] \in TERMINAL
    BY <1>4 DEF Settle
  <2>2. Exists(l) /\ job[JobName(l)].status = seen[l] /\ request[l] \in Requests
    BY <2>1 DEF Holds, Intended
  <2>3. JobName(l) = <<attempt[l]>> /\ job[JobName(l)].request = request[l]
    BY <2>1, <2>2, OwnJob DEF Intended
  <2>4. receipt' = [receipt EXCEPT ![attempt[l]] =
                      IF @ = None THEN [status |-> seen[l], request |-> request[l]] ELSE @]
    BY <1>4, <2>3 DEF Settle
  <2>5. SharedType'
    BY <2>1, <2>2, <2>4 DEF Receipts
  <2>6. ReceiptsStand'
    BY <2>1, <2>2, <2>3, <2>4 DEF ReceiptsStand, Exists
  <2>. QED
    BY <2>1, <2>5, <2>6 DEF NamedForAttempt, JobsFollowIntent, CompletedHasInference
<1>5. ASSUME NEW n \in DOMAIN job, JobStep(n) PROVE SharedInv'
  <2>1. CASE JobPublishes(n)
    BY <2>1 DEF JobPublishes, NamedForAttempt, JobsFollowIntent, ReceiptsStand,
         CompletedHasInference
  <2>2. ASSUME NEW s \in Statuses, job[n].status \notin TERMINAL, Becomes(n, s),
               s = "Completed" => inference
        PROVE  SharedInv'
    <3>1. UNCHANGED durable /\ job' = [job EXCEPT ![n].status = s]
      BY <2>2 DEF Becomes
    <3>2. SharedType'
      BY <3>1 DEF durable
    <3>3. NamedForAttempt' /\ JobsFollowIntent' /\ CompletedHasInference'
      BY <2>2, <3>1 DEF NamedForAttempt, JobsFollowIntent, CompletedHasInference, durable
    <3>4. ReceiptsStand'
      <4>. SUFFICES ASSUME NEW a \in Attempts, receipt[a] # None
                    PROVE  /\ <<a>> \in DOMAIN job'
                           /\ job'[<<a>>].status = receipt[a].status
                           /\ job'[<<a>>].request = receipt[a].request
        BY <3>1 DEF ReceiptsStand, durable
      <4>1. /\ <<a>> \in DOMAIN job
            /\ job[<<a>>].status = receipt[a].status
            /\ job[<<a>>].request = receipt[a].request
            /\ receipt[a].status \in TERMINAL
        BY DEF ReceiptsStand, Receipts
      <4>. QED
        BY <2>2, <3>1, <4>1
    <3>. QED
      BY <3>2, <3>3, <3>4
  <2>. QED
    BY <1>5, <2>1, <2>2 DEF JobStep, JobCompletes, JobFails, StopJob, JobStops, Statuses, TERMINAL
<1>. QED
  BY <1>1, <1>2, <1>3, <1>4, <1>5
     DEF Next, LauncherStep, vars, Invoke, Guard, ReadIntent, Describe, ListInProgress,
         ListStopping, Recheck, Poll, Timeout, VerifyInference, Fail

-----------------------------------------------------------------------------
(***************************************************************************)
(* The launchers.                                                          *)
(***************************************************************************)
LocalType == /\ pc \in [Launchers -> Ended \cup Active]
             /\ attempt \in [Launchers -> Attempts]
             /\ request \in [Launchers -> Requests \cup {None}]
             /\ seen \in [Launchers -> Statuses \cup {None}]

\* A launcher that does not move holds what it held.
LEMMA OthersHold ==
  ASSUME LaunchInv, Stays, NEW l \in Launchers,
         pc'[l] = pc[l], attempt'[l] = attempt[l], request'[l] = request[l], seen'[l] = seen[l]
  PROVE  Holds(l)'
<1>1. attempt[l] \in Attempts /\ Holds(l)
  BY DEF LaunchInv, TypeOK
<1>2. pc[l] \in Intended => intent'[attempt[l]] = request[l]
  BY <1>1, LaunchAssumption DEF Stays, Holds
<1>3. pc[l] = "monitor" => /\ JobName(l) \in DOMAIN job'
                           /\ seen[l] \in TERMINAL => job'[JobName(l)].status = seen[l]
  BY <1>1 DEF Stays, Holds, Exists
<1>4. pc[l] \in {"verify", "success"} => receipt'[attempt[l]] = receipt[attempt[l]]
  BY <1>1 DEF Stays, Holds
<1>5. JobName(l)' = JobName(l)
  BY DEF JobName
<1>. QED
  BY <1>1, <1>2, <1>3, <1>4, <1>5 DEF Stays, Holds, Exists

LEMMA OwnStepHolds ==
  ASSUME LaunchInv, SharedInv', NEW l \in Launchers,
         (\E a \in Attempts : Invoke(l, a)) \/ LauncherStep(l) \/ Timeout(l) \/ Fail(l)
  PROVE  LocalType' /\ Holds(l)'
<1>. USE DEF LaunchInv, TypeOK, LocalType, Goto, Ended, Active, Intended
<1>0. Holds(l)
  OBVIOUS
<1>. USE <1>0 DEF Holds
<1>1. ASSUME NEW a \in Attempts, Invoke(l, a) PROVE LocalType' /\ Holds(l)'
  BY <1>1 DEF Invoke
<1>2. CASE Guard(l)
  BY <1>2 DEF Guard, durable
<1>3. ASSUME NEW own \in Requests, ReadIntent(l, own) PROVE LocalType' /\ Holds(l)'
  BY <1>3 DEF ReadIntent, durable
<1>4. CASE SaveIntent(l)
  BY <1>4 DEF SaveIntent
<1>5. ASSUME pc[l] \in Intended, Exists(l), Attach(l),
             UNCHANGED <<durable, job, attempt, request>>
      PROVE  LocalType' /\ Holds(l)'
  <2>1. /\ pc' = [pc EXCEPT ![l] = "monitor"]
        /\ seen' = [seen EXCEPT ![l] = job[JobName(l)].status]
        /\ job[JobName(l)].status \in Statuses
    BY <1>5, OwnJob DEF Attach
  <2>2. JobName(l)' = JobName(l) /\ Exists(l)'
    BY <1>5 DEF JobName, Exists
  <2>. QED
    BY <1>5, <2>1, <2>2 DEF durable
<1>6. CASE Describe(l)
  <2>1. CASE Exists(l) /\ Attach(l)
    BY <1>5, <1>6, <2>1 DEF Describe
  <2>2. CASE ~Exists(l)
    BY <1>6, <2>2 DEF Describe, durable
  <2>. QED
    BY <1>6, <2>1, <2>2 DEF Describe
<1>7. CASE ListInProgress(l)
  BY <1>7 DEF ListInProgress, durable
<1>8. CASE ListStopping(l)
  BY <1>8 DEF ListStopping, durable
<1>9. CASE Create(l)
  <2>1. CASE pc' = [pc EXCEPT ![l] = "recheck"] /\ UNCHANGED seen
    BY <1>9, <2>1 DEF Create, durable
  <2>2. CASE /\ job' = [n \in DOMAIN job \cup {JobName(l)} |->
                          IF n = JobName(l) THEN NewJob(l) ELSE job[n]]
             /\ pc' = [pc EXCEPT ![l] = "monitor"]
             /\ seen' = [seen EXCEPT ![l] = "InProgress"]
    <3>1. UNCHANGED <<durable, attempt, request>> /\ pc[l] = "create"
      BY <1>9 DEF Create
    <3>2. JobName(l)' = JobName(l) /\ Exists(l)'
      BY <2>2, <3>1 DEF JobName, Exists
    <3>. QED
      BY <2>2, <3>1, <3>2 DEF durable, Statuses, TERMINAL
  <2>. QED
    BY <1>9, <2>1, <2>2 DEF Create
<1>10. CASE Recheck(l)
  <2>1. CASE Exists(l) /\ Attach(l)
    BY <1>5, <1>10, <2>1 DEF Recheck
  <2>2. CASE ~Exists(l)
    BY <1>10, <2>2 DEF Recheck, durable
  <2>. QED
    BY <1>10, <2>1, <2>2 DEF Recheck
<1>11. CASE Poll(l)
  <2>1. /\ pc[l] = "monitor" /\ Exists(l)
        /\ UNCHANGED <<durable, job, pc, attempt, request>>
        /\ seen' = [seen EXCEPT ![l] = job[JobName(l)].status]
    BY <1>11 DEF Poll, Monitoring
  <2>2. job[JobName(l)].status \in Statuses /\ JobName(l)' = JobName(l) /\ Exists(l)'
    BY <2>1, OwnJob DEF JobName, Exists
  <2>. QED
    BY <2>1, <2>2 DEF durable
<1>12. CASE Settle(l)
  <2>1. job[JobName(l)].request = request[l]
    BY <1>12, OwnJob DEF Settle
  <2>2. /\ receipt' = [receipt EXCEPT ![attempt[l]] =
                          IF @ = None THEN [status |-> seen[l], request |-> request[l]] ELSE @]
        /\ Goto(l, IF /\ receipt[attempt[l]] \in {None, [status |-> seen[l], request |-> request[l]]}
                      /\ seen[l] = "Completed"
                   THEN "verify" ELSE "failed")
        /\ UNCHANGED <<intent, inference, job, attempt, request, seen>>
        /\ pc[l] = "monitor"
    BY <1>12, <2>1 DEF Settle
  <2>3. pc'[l] = "verify" => receipt'[attempt[l]] = [status |-> "Completed", request |-> request[l]]
    BY <2>2
  <2>4. [status |-> "Completed", request |-> request[l]] # None
    BY <2>2, LaunchAssumption, NoReceipt DEF Receipts, TERMINAL
  <2>. QED
    BY <2>2, <2>3, <2>4
<1>13. CASE VerifyInference(l)
  <2>1. /\ pc[l] = "verify" /\ UNCHANGED <<durable, job, attempt, request, seen>>
        /\ pc' = [pc EXCEPT ![l] = IF inference THEN "success" ELSE "incomplete"]
    BY <1>13 DEF VerifyInference
  <2>2. inference
    <3>1. /\ attempt[l] \in Attempts /\ receipt[attempt[l]] # None
          /\ receipt[attempt[l]].status = "Completed"
      BY <2>1
    <3>2. <<attempt[l]>> \in DOMAIN job /\ job[<<attempt[l]>>].status = "Completed"
      BY <3>1 DEF ReceiptsStand
    <3>. QED
      BY <3>2 DEF CompletedHasInference
  <2>. QED
    BY <2>1, <2>2 DEF durable
<1>14. CASE Timeout(l)
  BY <1>14 DEF Timeout, durable
<1>15. CASE Fail(l)
  BY <1>15 DEF Fail, durable
<1>. QED
  BY <1>1, <1>2, <1>3, <1>4, <1>6, <1>7, <1>8, <1>9, <1>10, <1>11, <1>12, <1>13, <1>14, <1>15
     DEF LauncherStep

\* A launcher and SageMaker change nothing in the memory of another launcher.
LEMMA LocalSteps ==
  ASSUME LaunchInv, NEW l \in Launchers, NEW k \in Launchers, k # l,
         (\E a \in Attempts : Invoke(l, a)) \/ LauncherStep(l) \/ Timeout(l) \/ Fail(l)
  PROVE  /\ pc'[k] = pc[k] /\ attempt'[k] = attempt[k]
         /\ request'[k] = request[k] /\ seen'[k] = seen[k]
  BY DEF LaunchInv, TypeOK, LauncherStep, Invoke, Guard, SaveIntent, ReadIntent, Describe, Attach,
         ListInProgress, ListStopping, Create, Recheck, Poll, Settle, Timeout, VerifyInference,
         Fail, Goto

\* The invariant is kept by every step of launchers and jobs.
LEMMA LaunchKept == ASSUME LaunchInv, [Next]_vars PROVE LaunchInv'
<1>1. SharedInv' /\ Stays
  BY SharedStep, NothingLost
<1>2. LocalType' /\ \A k \in Launchers : Holds(k)'
  <2>1. ASSUME NEW l \in Launchers,
               (\E a \in Attempts : Invoke(l, a)) \/ LauncherStep(l) \/ Timeout(l) \/ Fail(l)
        PROVE  LocalType' /\ \A k \in Launchers : Holds(k)'
    <3>1. LocalType' /\ Holds(l)'
      BY <1>1, <2>1, OwnStepHolds
    <3>2. ASSUME NEW k \in Launchers, k # l PROVE Holds(k)'
      BY <1>1, <2>1, <3>2, LocalSteps, OthersHold
    <3>. QED
      BY <3>1, <3>2
  <2>2. CASE UNCHANGED launcher
    <3>1. LocalType'
      BY <2>2 DEF LocalType, LaunchInv, TypeOK, launcher
    <3>. QED
      BY <1>1, <2>2, <3>1, OthersHold DEF launcher
  <2>3. ASSUME NEW n \in DOMAIN job, JobStep(n) PROVE UNCHANGED launcher
    BY <2>3 DEF JobStep, JobPublishes, JobCompletes, JobFails, StopJob, JobStops, Becomes
  <2>. QED
    BY <2>1, <2>2, <2>3 DEF Next, vars
<1>. QED
  BY <1>1, <1>2 DEF LaunchInv, SharedInv, SharedType, LocalType, TypeOK

THEOREM LaunchInvariant == Spec => []LaunchInv
  BY InitialLaunch, LaunchKept, PTL DEF Spec

-----------------------------------------------------------------------------
\* Types: no launcher holds anything but a request and a status, and no job
\* runs anything but a request.
THEOREM TypeCorrect == Spec => []TypeOK
<1>1. LaunchInv => TypeOK
  BY DEF LaunchInv
<1>. QED
  BY <1>1, LaunchInvariant, PTL

\* Every job runs the request stored for its attempt.
THEOREM JobsFollow == Spec => []JobsFollowIntent
<1>1. LaunchInv => JobsFollowIntent
  BY DEF LaunchInv
<1>. QED
  BY <1>1, LaunchInvariant, PTL

\* No launcher finds, under the name of its attempt, a job it must refuse.
THEOREM NeverRefused == Spec => []ReattachNeverRefused
<1>1. LaunchInv => ReattachNeverRefused
  BY DEF LaunchInv, Holds, ReattachNeverRefused
<1>. QED
  BY <1>1, LaunchInvariant, PTL

\* A lost answer or a detached launcher does not lead to a second job.
THEOREM NoDuplicateJob == Spec => []OneJobPerAttempt
<1>1. LaunchInv => OneJobPerAttempt
  BY DEF LaunchInv, NamedForAttempt, OneJobPerAttempt
<1>. QED
  BY <1>1, LaunchInvariant, PTL

\* A receipt tells for ever how its job ended and what it ran.
THEOREM TrueReceipts == Spec => []ReceiptsAreTrue
<1>1. LaunchInv => ReceiptsAreTrue
  <2>. SUFFICES ASSUME LaunchInv, NEW a \in Attempts, receipt[a] # None
                PROVE  \E n \in DOMAIN job :
                         /\ job[n].attempt = a
                         /\ receipt[a] = [status |-> job[n].status, request |-> job[n].request]
    BY DEF ReceiptsAreTrue
  <2>1. /\ <<a>> \in DOMAIN job
        /\ job[<<a>>].status = receipt[a].status
        /\ job[<<a>>].request = receipt[a].request
    BY DEF LaunchInv, ReceiptsStand
  <2>2. job[<<a>>].attempt = a
    BY <2>1 DEF LaunchInv, NamedForAttempt
  <2>3. receipt[a] \in Receipts
    BY DEF LaunchInv, TypeOK
  <2>4. receipt[a] = [status |-> job[<<a>>].status, request |-> job[<<a>>].request]
    BY <2>1, <2>3 DEF Receipts
  <2>. QED
    BY <2>1, <2>2, <2>4
<1>. QED
  BY <1>1, LaunchInvariant, PTL

\* A launcher that reports success has the inference and a completed receipt,
\* and a completed job is never found without its inference.
THEOREM DurableSuccess == Spec => []SuccessIsDurable
<1>1. LaunchInv => SuccessIsDurable
  BY DEF LaunchInv, Holds, SuccessIsDurable
<1>. QED
  BY <1>1, LaunchInvariant, PTL

-----------------------------------------------------------------------------
(***************************************************************************)
(* One launcher.  Its second listing stands on what its first one saw: a   *)
(* job that was not in progress then is not in progress now, because only  *)
(* a create brings one about, and nobody else is there to ask for it.      *)
(***************************************************************************)
Live(n) == job[n].status \in {"InProgress", "Stopping"}

QuietInv ==
  /\ \A m, n \in DOMAIN job : Live(m) /\ Live(n) => m = n
  /\ \A l \in Launchers : pc[l] = "stopping" => ~AnyJob("InProgress")
  /\ \A l \in Launchers : pc[l] = "create" => \A n \in DOMAIN job : ~Live(n)

LEMMA QuietStep ==
  ASSUME LaunchInv, QuietInv, \A k, l \in Launchers : k = l, [Next]_vars
  PROVE  QuietInv'
<1>. USE DEF LaunchInv, TypeOK, QuietInv, Live, AnyJob
<1>1. ASSUME NEW l \in Launchers, UNCHANGED job, pc'[l] \notin {"stopping", "create"}
      PROVE  QuietInv'
  BY <1>1
<1>2. ASSUME NEW l \in Launchers, ListInProgress(l) PROVE QuietInv'
  <2>1. UNCHANGED job /\ pc' = [pc EXCEPT ![l] = IF AnyJob("InProgress") THEN "failed" ELSE "stopping"]
    BY <1>2 DEF ListInProgress, Goto
  <2>2. pc'[l] \in {"failed", "stopping"} /\ (pc'[l] = "stopping" => ~AnyJob("InProgress"))
    BY <2>1
  <2>. QED
    BY <2>1, <2>2
<1>3. ASSUME NEW l \in Launchers, ListStopping(l) PROVE QuietInv'
  <2>1. /\ UNCHANGED job /\ pc[l] = "stopping"
        /\ pc' = [pc EXCEPT ![l] = IF AnyJob("Stopping") THEN "failed" ELSE "create"]
    BY <1>3 DEF ListStopping, Goto
  <2>2. /\ pc'[l] \in {"failed", "create"}
        /\ pc'[l] = "create" => ~AnyJob("Stopping") /\ ~AnyJob("InProgress")
    BY <2>1
  <2>. QED
    BY <2>1, <2>2
<1>4. ASSUME NEW l \in Launchers, Create(l) PROVE QuietInv'
  <2>1. pc[l] = "create" /\ \A n \in DOMAIN job : ~Live(n)
    BY <1>4 DEF Create
  <2>2. pc'[l] \in {"recheck", "monitor"}
    BY <1>4 DEF Create, Goto
  <2>3. CASE UNCHANGED job
    BY <2>2, <2>3
  <2>4. CASE job' = [n \in DOMAIN job \cup {JobName(l)} |->
                       IF n = JobName(l) THEN NewJob(l) ELSE job[n]]
    <3>1. \A n \in DOMAIN job' : Live(n)' => n = JobName(l)
      BY <2>1, <2>4
    <3>. QED
      BY <2>2, <3>1
  <2>. QED
    BY <1>4, <2>3, <2>4 DEF Create
<1>5. ASSUME NEW n \in DOMAIN job, JobStep(n) PROVE QuietInv'
  <2>1. /\ UNCHANGED pc /\ DOMAIN job' = DOMAIN job
        /\ \A m \in DOMAIN job : Live(m)' => Live(m)
        /\ \A m \in DOMAIN job : job'[m].status = "InProgress" => job[m].status = "InProgress"
    BY <1>5 DEF JobStep, JobPublishes, JobCompletes, JobFails, StopJob, JobStops, Becomes,
         launcher
  <2>. QED
    BY <2>1
<1>6. CASE UNCHANGED vars
  BY <1>6 DEF vars, launcher
<1>7. ASSUME NEW l \in Launchers, \E a \in Attempts : Invoke(l, a) PROVE QuietInv'
  BY <1>1, <1>7 DEF Invoke, Goto
<1>8. ASSUME NEW l \in Launchers,
             \/ Guard(l) \/ SaveIntent(l) \/ \E own \in Requests : ReadIntent(l, own)
             \/ Settle(l) \/ VerifyInference(l) \/ Timeout(l) \/ Fail(l)
      PROVE  QuietInv'
  BY <1>1, <1>8 DEF Guard, SaveIntent, ReadIntent, Settle, VerifyInference, Timeout, Fail, Goto
<1>9. ASSUME NEW l \in Launchers, Describe(l) \/ Recheck(l) \/ Poll(l) PROVE QuietInv'
  BY <1>1, <1>9 DEF Describe, Recheck, Poll, Monitoring, Attach, Goto
<1>. QED
  BY <1>2, <1>3, <1>4, <1>5, <1>6, <1>7, <1>8, <1>9 DEF Next, LauncherStep

\* A set whose members are all equal counts no more than one.
LEMMA AtMostOne ==
  ASSUME NEW S, \A x, y \in S : x = y
  PROVE  Cardinality(S) <= 1
<1>1. CASE S = {}
  BY <1>1, FS_EmptySet
<1>2. ASSUME NEW x \in S PROVE Cardinality(S) <= 1
  <2>1. S = {x}
    OBVIOUS
  <2>. QED
    BY <2>1, FS_Singleton
<1>. QED
  BY <1>1, <1>2

\* One launcher, invoked for whatever attempts and detached wherever it was,
\* never has two jobs at once (ensure_job's two listings before it creates).
THEOREM OneJobAtATime ==
  ASSUME \A k, l \in Launchers : k = l
  PROVE  Spec => []OneActiveJob
<1>1. Init => QuietInv
  BY DEF Init, QuietInv, AnyJob, Live
<1>2. LaunchInv /\ QuietInv /\ [Next]_vars => QuietInv'
  BY QuietStep
<1>3. QuietInv => OneActiveJob
  BY AtMostOne DEF QuietInv, Live, OneActiveJob
<1>. QED
  BY <1>1, <1>2, <1>3, LaunchInvariant, PTL DEF Spec
-----------------------------------------------------------------------------
\* What is proved of the loop, for the containers of all attempts.
Shared == INSTANCE SystemInferenceProofs WITH
            Runs <- Attempts, MaxCrashes <- MaxAttempt, inference <- result, pc <- step

-----------------------------------------------------------------------------
(***************************************************************************)
(* The launcher's view of the loop: inference is complete when result is   *)
(* there, and that is so when a container is done.                         *)
(***************************************************************************)
PipelineInv ==
  /\ LaunchInv
  /\ Shared!AgreementInv
  /\ inference = (result # None)
  /\ \A a \in Attempts : step[a] \in {"verify", "done"} => result # None

\* The loop's own assumptions on its parameters.
LEMMA LoopParameters ==
  /\ N \in Nat \ {0} /\ MaxAttempt \in Nat
  /\ None \notin Manifests \cup Shared!Answers \cup Shared!Results
<1>1. MaxAttempt \in Nat
  BY LaunchAssumption
<1>2. Loop!Answers = Shared!Answers /\ Loop!Results = Shared!Results
  BY DEF Loop!Answers, Shared!Answers, Loop!Results, Shared!Results, Loop!Questions,
     Shared!Questions
<1>. QED
  BY <1>1, <1>2, PipelineAssumption

LEMMA InitialPipeline == PipelineInit => PipelineInv
<1>. SUFFICES ASSUME PipelineInit PROVE PipelineInv
  OBVIOUS
<1>1. LaunchInv
  BY InitialLaunch DEF PipelineInit
<1>2. Shared!TypeOK
  BY LoopParameters
     DEF PipelineInit, Shared!TypeOK, Shared!InPosition, Shared!Questions, Shared!Active,
         Loop!Questions
<1>3. Shared!AgreementInv
  BY <1>2 DEF PipelineInit, Shared!AgreementInv, Shared!Agrees, Shared!PublishedIsDurable,
              Shared!Active
<1>. QED
  BY <1>1, <1>3 DEF PipelineInit, PipelineInv, Init

\* A step of a container is a step of the loop it runs.
LEMMA ContainerIsLoop ==
  ASSUME NEW a \in Attempts
  PROVE  /\ Loop!Step(a) => Shared!Step(a)
         /\ Loop!Crash(a) => Shared!Crash(a)
  BY DEF Loop!Step, Shared!Step, Loop!Start, Shared!Start, Loop!Lookup, Shared!Lookup,
         Loop!Generate, Shared!Generate, Loop!Write, Shared!Write, Loop!Confirm, Shared!Confirm,
         Loop!Check, Shared!Check, Loop!Publish, Shared!Publish, Loop!Verify, Shared!Verify,
         Loop!Crash, Shared!Crash, Loop!Goto, Shared!Goto, Loop!question, Shared!question,
         Loop!Result, Shared!Result, Loop!durable, Shared!durable, Loop!Active, Shared!Active

\* What a step of a container does to the result: it is published once, and a
\* container that is at its end has seen it.
LEMMA ContainerPublishes ==
  ASSUME PipelineInv, NEW a \in Attempts, Loop!Step(a) \/ Loop!Crash(a)
  PROVE  /\ Shared!AgreementInv'
         /\ result # None => result' = result
         /\ \A b \in Attempts : step'[b] \in {"verify", "done"} => result' # None
<1>. Shared!Step(a) \/ Shared!Crash(a)
  BY ContainerIsLoop
<1>1. Shared!AgreementInv /\ Shared!AgreementInv'
  BY LoopParameters, Shared!AgreementKept DEF PipelineInv, Shared!Next
<1>2. Shared!TypeOK /\ \A b \in Attempts : step[b] \in {"verify", "done"} => result # None
  BY <1>1 DEF Shared!AgreementInv, PipelineInv
<1>3. CASE Shared!Publish(a)
  <2>1. Shared!Result(a) \in Shared!Results
    BY <1>2, <1>3, LoopParameters, Shared!FullRecords
       DEF Shared!Publish, Shared!TypeOK, Shared!InPosition, Shared!Active, Shared!Result,
           Shared!Results
  <2>2. result' # None /\ (result # None => result' = result)
    BY <1>3, <2>1, LoopParameters DEF Shared!Publish
  <2>. QED
    BY <1>1, <2>2
<1>4. CASE ~Shared!Publish(a)
  <2>1. /\ result' = result
        /\ \A b \in Attempts : step'[b] \in {"verify", "done"} => step[b] \in {"verify", "done"}
    BY <1>2, <1>4 DEF Shared!Step, Shared!Crash, Shared!Start, Shared!Lookup, Shared!Generate,
       Shared!Write, Shared!Confirm, Shared!Check, Shared!Verify, Shared!Goto, Shared!durable,
       Shared!TypeOK
  <2>. QED
    BY <1>1, <1>2, <2>1
<1>. QED
  BY <1>3, <1>4

\* A step of the whole is a step of the launcher's model or leaves it alone.
LEMMA PipelineKept ==
  ASSUME PipelineInv, [PipelineNext]_pipeline
  PROVE  [Next]_vars /\ PipelineInv'
<1>. USE DEF PipelineInv
<1>0. \A n \in DOMAIN job : job[n].attempt \in Attempts
  BY DEF LaunchInv, TypeOK
<1>1. ASSUME [Next]_vars, UNCHANGED loop, inference' = inference PROVE PipelineInv'
  <2>1. Shared!AgreementInv'
    BY <1>1, LoopParameters, Shared!AgreementKept
       DEF loop, Shared!vars, Shared!durable, Shared!local
  <2>. QED
    BY <1>1, <2>1, LaunchKept DEF loop
<1>2. CASE UNCHANGED pipeline
  BY <1>1, <1>2 DEF pipeline, vars, durable
<1>3. CASE LauncherMoves
  <2>1. Next /\ UNCHANGED loop
    BY <1>3 DEF LauncherMoves, Next
  <2>2. inference' = inference
    BY <1>3 DEF LauncherMoves, LauncherStep, Invoke, Guard, SaveIntent, ReadIntent, Describe,
       ListInProgress, ListStopping, Create, Recheck, Poll, Settle, Timeout, VerifyInference,
       Fail, durable
  <2>. QED
    BY <1>1, <2>1, <2>2
<1>4. ASSUME NEW n \in DOMAIN job, ContainerMoves(n) PROVE [Next]_vars /\ PipelineInv'
  <2>1. /\ Shared!AgreementInv'
        /\ result # None => result' = result
        /\ \A b \in Attempts : step'[b] \in {"verify", "done"} => result' # None
    BY <1>0, <1>4, ContainerPublishes DEF ContainerMoves
  <2>2. inference' = (result' # None) /\ UNCHANGED <<intent, receipt, job, launcher>>
    BY <1>4 DEF ContainerMoves
  <2>3. [Next]_vars
    <3>1. CASE inference' = inference
      BY <2>2, <3>1 DEF vars, durable
    <3>2. CASE inference' # inference
      BY <1>4, <2>1, <2>2, <3>2 DEF ContainerMoves, JobPublishes, JobStep, Next
    <3>. QED
      BY <3>1, <3>2
  <2>. QED
    BY <2>1, <2>2, <2>3, LaunchKept
<1>5. ASSUME NEW n \in DOMAIN job, ContainerExits(n) PROVE [Next]_vars /\ PipelineInv'
  <2>1. inference
    BY <1>0, <1>5 DEF ContainerExits
  <2>2. Next
    BY <1>5, <2>1 DEF ContainerExits, JobCompletes, JobStep, Next
  <2>. QED
    BY <1>1, <1>5, <2>2 DEF ContainerExits, Becomes, durable
<1>6. ASSUME NEW n \in DOMAIN job, ContainerEnds(n) PROVE [Next]_vars /\ PipelineInv'
  <2>1. Next /\ inference' = inference
    BY <1>6 DEF ContainerEnds, JobStep, Next, JobFails, JobStops, Becomes, durable
  <2>2. CASE UNCHANGED loop
    BY <1>1, <2>1, <2>2
  <2>3. CASE Loop!Crash(job[n].attempt)
    <3>1. result' = result
      BY <2>3 DEF Loop!Crash, Loop!durable
    <3>. QED
      BY <1>0, <2>1, <2>3, <3>1, ContainerPublishes, LaunchKept
  <2>. QED
    BY <1>6, <2>2, <2>3 DEF ContainerEnds
<1>7. ASSUME NEW n \in DOMAIN job, StopJob(n), UNCHANGED loop PROVE [Next]_vars /\ PipelineInv'
  BY <1>1, <1>7 DEF StopJob, Becomes, durable, JobStep, Next
<1>. QED
  BY <1>2, <1>3, <1>4, <1>5, <1>6, <1>7 DEF PipelineNext

LEMMA PipelineInvariant == PipelineSpec => []PipelineInv
  BY InitialPipeline, PipelineKept, PTL DEF PipelineSpec

\* Each behaviour of the launcher with the loop in its jobs is a behaviour of
\* the launcher's model (execute_prepared, with infer_requests in the job).
THEOREM LoopImplementsJob == PipelineSpec => ImplementsLaunch
<1>1. PipelineInit => Init
  BY DEF PipelineInit
<1>. QED
  BY <1>1, PipelineInvariant, PipelineKept, PTL DEF PipelineSpec, ImplementsLaunch, Spec

\* inference.json is the durable inputs and answers, although the jobs of
\* several attempts, some of them lost, may each have written a part.
THEOREM JobsPublishTheDurable == PipelineSpec => []Loop!PublishedIsDurable
<1>1. PipelineInv => Loop!PublishedIsDurable
  BY DEF PipelineInv, Shared!AgreementInv, Shared!PublishedIsDurable, Loop!PublishedIsDurable,
     Shared!Questions, Loop!Questions
<1>. QED
  BY <1>1, PipelineInvariant, PTL

-----------------------------------------------------------------------------
(***************************************************************************)
(* One launcher: what is paid for.  A container at work has a live job, so *)
(* there is one at a time, and what it found to be missing is still        *)
(* missing when it writes.  A job owes a call while its container holds an *)
(* answer it has not written, and for ever when it has ended otherwise     *)
(* than by completing.                                                     *)
(***************************************************************************)
AtWork(a) == step[a] \in Shared!Active

Owes(n) == \/ job[n].status \in {"Failed", "Stopped"}
           \/ Live(n) /\ step[job[n].attempt] = "write"

Answered == {q \in Shared!Questions : answer[q] # None}
Owing    == {n \in DOMAIN job : Owes(n)}

WorkInv ==
  /\ \A a \in Attempts : AtWork(a) => <<a>> \in DOMAIN job /\ Live(<<a>>)
  /\ \A a \in Attempts : step[a] \in {"generate", "write"} => answer[Shared!question(a)] = None

PaidInv == /\ IsFiniteSet(DOMAIN job)
           /\ calls \in Nat
           /\ calls <= Cardinality(Answered) + Cardinality(Owing)

\* A live job is the job of its container's attempt, and the only one.
LEMMA OnlyWorker ==
  ASSUME PipelineInv, QuietInv, WorkInv, NEW n \in DOMAIN job, Live(n)
  PROVE  /\ job[n].attempt \in Attempts /\ n = <<job[n].attempt>>
         /\ \A a \in Attempts : AtWork(a) => a = job[n].attempt
  BY DEF PipelineInv, LaunchInv, TypeOK, NamedForAttempt, QuietInv, WorkInv

\* Where a step of the loop takes its container, what it writes, and that it
\* leaves other containers where they are.
LEMMA ContainerStep ==
  ASSUME PipelineInv, NEW a \in Attempts, Loop!Step(a)
  PROVE  /\ \A b \in Attempts \ {a} : step'[b] = step[b] /\ records'[b] = records[b]
         /\ step[a] = "generate" => step'[a] = "write" /\ UNCHANGED <<answer, records>>
         /\ step[a] = "write" /\ answer[Shared!question(a)] = None =>
              /\ step'[a] = "confirm"
              /\ answer' = [answer EXCEPT ![Shared!question(a)] = saved[a]]
              /\ Shared!question(a) \in Shared!Questions /\ saved[a] # None
         /\ step[a] \notin {"generate", "write"} =>
              /\ step'[a] # "write" /\ UNCHANGED answer
              /\ step'[a] = "generate" =>
                   UNCHANGED records /\ answer[Shared!question(a)] = None
<1>1. Shared!Step(a) /\ Shared!TypeOK
  BY ContainerIsLoop DEF PipelineInv, Shared!AgreementInv
<1>. USE <1>1 DEF Shared!TypeOK, Shared!Goto
<1>2. CASE Shared!Start(a)
  BY <1>2 DEF Shared!Start, Shared!durable
<1>3. CASE Shared!Lookup(a)
  BY <1>3 DEF Shared!Lookup, Shared!durable
<1>4. ASSUME NEW g \in Generations, Shared!Generate(a, g)
      PROVE  /\ step[a] = "generate" /\ step' = [step EXCEPT ![a] = "write"]
             /\ UNCHANGED <<answer, records>>
  BY <1>4 DEF Shared!Generate, Shared!durable
<1>5. CASE Shared!Write(a)
  <2>1. Shared!question(a) \in Shared!Questions /\ saved[a] # None
    BY <1>5, LoopParameters, Shared!RecordsType
       DEF Shared!Write, Shared!InPosition, Shared!question
  <2>. QED
    BY <1>5, <2>1 DEF Shared!Write
<1>6. CASE Shared!Confirm(a)
  BY <1>6 DEF Shared!Confirm, Shared!durable
<1>7. CASE Shared!Check(a)
  BY <1>7 DEF Shared!Check, Shared!durable
<1>8. CASE Shared!Publish(a)
  BY <1>8 DEF Shared!Publish
<1>9. CASE Shared!Verify(a)
  BY <1>9 DEF Shared!Verify, Shared!durable
<1>. QED
  BY <1>2, <1>3, <1>4, <1>5, <1>6, <1>7, <1>8, <1>9 DEF Shared!Step

\* Launchers leave containers alone, and take no job away.
LEMMA LauncherLeaves ==
  ASSUME LaunchInv, LauncherMoves
  PROVE  /\ UNCHANGED <<loop, calls>>
         /\ \/ UNCHANGED job
            \/ \E l \in Launchers :
                 /\ ~Exists(l) /\ NewJob(l).status = "InProgress"
                 /\ job' = [n \in DOMAIN job \cup {JobName(l)} |->
                              IF n = JobName(l) THEN NewJob(l) ELSE job[n]]
<1>1. ASSUME NEW l \in Launchers, LauncherStep(l) \/ Timeout(l) \/ Fail(l), ~UNCHANGED job
      PROVE  Create(l)
  BY <1>1 DEF LauncherStep, Guard, SaveIntent, ReadIntent, Describe, ListInProgress,
     ListStopping, Create, Recheck, Poll, Settle, Timeout, VerifyInference, Fail
<1>2. ASSUME NEW l \in Launchers, NEW a \in Attempts, Invoke(l, a) PROVE UNCHANGED job
  BY <1>2 DEF Invoke
<1>. QED
  BY <1>1, <1>2 DEF LauncherMoves, Create, NewJob

LEMMA WorkKept ==
  ASSUME PipelineInv, QuietInv, WorkInv, [PipelineNext]_pipeline
  PROVE  WorkInv'
<1>. USE DEF WorkInv, AtWork, Live, Shared!Active, Shared!question
<1>0. \A n \in DOMAIN job : job[n].attempt \in Attempts /\ n = <<job[n].attempt>>
  BY DEF PipelineInv, LaunchInv, TypeOK, NamedForAttempt
<1>1. ASSUME UNCHANGED loop,
             \A n \in DOMAIN job : Live(n) => n \in DOMAIN job' /\ Live(n)'
      PROVE  WorkInv'
  BY <1>1 DEF loop
<1>2. CASE UNCHANGED pipeline
  BY <1>1, <1>2 DEF pipeline, vars
<1>3. CASE LauncherMoves
  BY <1>1, <1>3, LauncherLeaves DEF PipelineInv, Exists
<1>4. ASSUME NEW n \in DOMAIN job, ContainerMoves(n) PROVE WorkInv'
  <2>1. PICK a \in Attempts : a = job[n].attempt
    BY <1>0
  <2>2. Live(n) /\ Loop!Step(a) /\ UNCHANGED job
    BY <1>4, <2>1 DEF ContainerMoves
  <2>3. n = <<a>> /\ \A b \in Attempts : AtWork(b) => b = a
    BY <2>1, <2>2, OnlyWorker
  <2>4. \A b \in Attempts \ {a} : ~AtWork(b) /\ step'[b] = step[b]
    BY <2>2, <2>3, ContainerStep
  <2>5. step'[a] \in {"generate", "write"} => answer'[Shared!question(a)'] = None
    <3>1. CASE step[a] = "generate"
      BY <2>2, <3>1, ContainerStep
    <3>2. CASE step[a] = "write"
      BY <2>2, <3>2, ContainerStep
    <3>3. CASE step[a] \notin {"generate", "write"}
      BY <2>2, <3>3, ContainerStep
    <3>. QED
      BY <3>1, <3>2, <3>3
  <2>. QED
    BY <2>2, <2>3, <2>4, <2>5
<1>5. ASSUME NEW n \in DOMAIN job, NEW s \in Statuses, Becomes(n, s), UNCHANGED loop,
             ~AtWork(job[n].attempt) \/ s = "Stopping"
      PROVE  WorkInv'
  <2>1. /\ DOMAIN job' = DOMAIN job /\ UNCHANGED <<step, answer, records>>
        /\ \A m \in DOMAIN job : m # n => job'[m] = job[m]
        /\ s = "Stopping" => job'[n].status = s
    BY <1>5 DEF Becomes, loop, PipelineInv, LaunchInv, TypeOK
  <2>. QED
    BY <1>0, <1>5, <2>1
<1>6. ASSUME NEW n \in DOMAIN job, ContainerExits(n) PROVE WorkInv'
  BY <1>5, <1>6 DEF ContainerExits, Statuses, TERMINAL
<1>7. ASSUME NEW n \in DOMAIN job, ContainerEnds(n) PROVE WorkInv'
  <2>. DEFINE a == job[n].attempt
  <2>1. PICK s \in {"Failed", "Stopped"} : Becomes(n, s) /\ Live(n)
    BY <1>7 DEF ContainerEnds, JobFails, JobStops
  <2>2. CASE step[a] \in Loop!Active /\ Loop!Crash(a)
    <3>1. /\ UNCHANGED <<answer, records>>
          /\ step' = [step EXCEPT ![a] = "failed"]
      BY <2>2 DEF Loop!Crash, Loop!Goto, Loop!durable
    <3>2. \A b \in Attempts : AtWork(b) => b = a
      BY <2>1, OnlyWorker
    <3>3. \A b \in Attempts : step'[b] \in Shared!Active => b # a /\ AtWork(b)
      BY <1>0, <3>1 DEF PipelineInv, Shared!AgreementInv, Shared!TypeOK
    <3>. QED
      BY <3>1, <3>2, <3>3
  <2>3. CASE step[a] \notin Loop!Active /\ UNCHANGED loop
    BY <1>5, <2>1, <2>3 DEF Loop!Active, Statuses, TERMINAL
  <2>. QED
    BY <1>7, <2>2, <2>3 DEF ContainerEnds
<1>8. ASSUME NEW n \in DOMAIN job, StopJob(n), UNCHANGED loop PROVE WorkInv'
  BY <1>5, <1>8 DEF StopJob, Statuses
<1>. QED
  BY <1>2, <1>3, <1>4, <1>6, <1>7, <1>8 DEF PipelineNext

LEMMA OneMore ==
  ASSUME NEW S, NEW x, IsFiniteSet(S)
  PROVE  /\ IsFiniteSet(S \cup {x})
         /\ Cardinality(S \cup {x}) \in Nat
         /\ Cardinality(S \cup {x}) <= Cardinality(S) + 1
<1>0. Cardinality(S) \in Nat
  BY FS_CardinalityType
<1>1. CASE x \in S
  <2>1. S \cup {x} = S
    BY <1>1
  <2>2. Cardinality(S) <= Cardinality(S) + 1
    BY <1>0
  <2>. QED
    BY <1>0, <2>1, <2>2, Zenon
<1>2. CASE x \notin S
  <2>1. /\ IsFiniteSet(S \cup {x})
        /\ Cardinality(S \cup {x}) = Cardinality(S) + 1
    BY <1>2, FS_AddElement
  <2>. QED
    BY <1>0, <2>1
<1>. QED
  BY <1>1, <1>2

LEMMA FinitelyMany ==
  ASSUME IsFiniteSet(DOMAIN job)
  PROVE  /\ IsFiniteSet(Answered) /\ Cardinality(Answered) \in Nat
         /\ IsFiniteSet(Owing) /\ Cardinality(Owing) \in Nat
<1>1. IsFiniteSet(Shared!Questions)
  BY LoopParameters, FS_Interval DEF Shared!Questions
<1>2. Answered \in SUBSET Shared!Questions /\ Owing \in SUBSET DOMAIN job
  BY DEF Answered, Owing
<1>. QED
  BY <1>1, <1>2, FS_Subset, FS_CardinalityType

LEMMA FinitelyManyAfter ==
  ASSUME IsFiniteSet(DOMAIN job')
  PROVE  /\ IsFiniteSet(Answered') /\ Cardinality(Answered') \in Nat
         /\ IsFiniteSet(Owing') /\ Cardinality(Owing') \in Nat
<1>1. IsFiniteSet(Shared!Questions)
  BY LoopParameters, FS_Interval DEF Shared!Questions
<1>2. Answered' \in SUBSET Shared!Questions /\ Owing' \in SUBSET DOMAIN job'
  BY DEF Answered, Owing
<1>. QED
  BY <1>1, <1>2, FS_Subset, FS_CardinalityType

\* Answers and lost jobs that are there stay there, so the account stays
\* balanced while nothing more is spent.
LEMMA NothingSpent ==
  ASSUME PaidInv, IsFiniteSet(DOMAIN job'), calls' = calls,
         Answered \subseteq Answered', Owing \subseteq Owing'
  PROVE  PaidInv'
<1>1. /\ Cardinality(Answered) <= Cardinality(Answered')
      /\ Cardinality(Owing) <= Cardinality(Owing')
  BY FinitelyManyAfter, FS_Subset
<1>. QED
  BY <1>1, FinitelyMany, FinitelyManyAfter DEF PaidInv

\* The one live container calls the model, and owes the answer.
LEMMA CallIsOwed ==
  ASSUME PaidInv, NEW n \in DOMAIN job, ~Owes(n), Owing' = Owing \cup {n},
         Answered' = Answered, UNCHANGED job, calls' = calls + 1
  PROVE  PaidInv'
<1>1. n \notin Owing /\ IsFiniteSet(DOMAIN job)
  BY DEF Owing, PaidInv
<1>2. Cardinality(Owing') = Cardinality(Owing) + 1
  BY <1>1, FinitelyMany, FS_AddElement
<1>. QED
  BY <1>1, <1>2, FinitelyMany DEF PaidInv

\* It writes the answer, which was missing, and owes nothing.
LEMMA WriteSettles ==
  ASSUME PaidInv, NEW n \in DOMAIN job, NEW q \in Shared!Questions,
         Owing \subseteq Owing' \cup {n},
         answer[q] = None, Answered \cup {q} \subseteq Answered',
         UNCHANGED <<job, calls>>
  PROVE  PaidInv'
<1>1. q \notin Answered /\ IsFiniteSet(DOMAIN job) /\ IsFiniteSet(DOMAIN job')
  BY DEF Answered, PaidInv
<1>2. Cardinality(Answered \cup {q}) = Cardinality(Answered) + 1
  BY <1>1, FinitelyMany, FS_AddElement
<1>3. Cardinality(Answered \cup {q}) <= Cardinality(Answered')
  BY <1>1, FinitelyManyAfter, FS_Subset
<1>4. /\ IsFiniteSet(Owing' \cup {n})
      /\ Cardinality(Owing' \cup {n}) <= Cardinality(Owing') + 1
  BY <1>1, FinitelyManyAfter, OneMore
<1>5. Cardinality(Owing) <= Cardinality(Owing' \cup {n}) /\ Cardinality(Owing' \cup {n}) \in Nat
  BY <1>4, FS_Subset, FS_CardinalityType
<1>. QED
  BY <1>1, <1>2, <1>3, <1>4, <1>5, FinitelyMany, FinitelyManyAfter DEF PaidInv

\* What a step does to a job other than the one it moves is nothing, since the
\* jobs are of different attempts.
LEMMA PaidKept ==
  ASSUME PipelineInv, QuietInv, WorkInv, PaidInv, [PipelineNext]_pipeline
  PROVE  PaidInv'
<1>0. \A n \in DOMAIN job : job[n].attempt \in Attempts /\ n = <<job[n].attempt>>
  BY DEF PipelineInv, LaunchInv, TypeOK, NamedForAttempt
<1>1. ASSUME UNCHANGED <<answer, calls>>, IsFiniteSet(DOMAIN job'),
             \A n \in DOMAIN job : Owes(n) => n \in DOMAIN job' /\ Owes(n)'
      PROVE  PaidInv'
  BY <1>1, NothingSpent DEF Answered, Owing
<1>2. IsFiniteSet(DOMAIN job)
  BY DEF PaidInv
<1>. USE DEF Owes, Live
<1>3. CASE UNCHANGED pipeline
  BY <1>1, <1>2, <1>3 DEF pipeline, vars, loop
<1>4. CASE LauncherMoves
  <2>1. UNCHANGED <<loop, calls>>
    BY <1>4, LauncherLeaves DEF PipelineInv
  <2>2. CASE UNCHANGED job
    BY <1>1, <1>2, <2>1, <2>2 DEF loop
  <2>3. ASSUME NEW l \in Launchers, ~Exists(l),
               job' = [n \in DOMAIN job \cup {JobName(l)} |->
                         IF n = JobName(l) THEN NewJob(l) ELSE job[n]]
        PROVE  PaidInv'
    <3>1. DOMAIN job' = DOMAIN job \cup {JobName(l)}
      BY <2>3
    <3>2. IsFiniteSet(DOMAIN job')
      BY <1>2, <3>1, OneMore
    <3>. QED
      BY <1>1, <2>1, <2>3, <3>2 DEF loop, Exists
  <2>. QED
    BY <1>4, <2>2, <2>3, LauncherLeaves DEF PipelineInv
<1>5. ASSUME NEW n \in DOMAIN job, ContainerMoves(n) PROVE PaidInv'
  <2>1. PICK a \in Attempts : a = job[n].attempt
    BY <1>0
  <2>2. Live(n) /\ Loop!Step(a) /\ UNCHANGED job
    BY <1>5, <2>1 DEF ContainerMoves
  <2>3. calls' = IF step[a] = "generate" THEN calls + 1 ELSE calls
    BY <1>5, <2>1 DEF ContainerMoves
  <2>4. \A m \in DOMAIN job \ {n} : Owes(m)' <=> Owes(m)
    <3>1. \A b \in Attempts \ {a} : step'[b] = step[b]
      BY <2>2, ContainerStep
    <3>2. \A m \in DOMAIN job \ {n} : job[m].attempt \in Attempts \ {a}
      BY <1>0, <2>1
    <3>. QED
      BY <2>2, <3>1, <3>2
  <2>5. CASE step[a] = "generate"
    <3>1. step'[a] = "write" /\ UNCHANGED answer
      BY <2>2, <2>5, ContainerStep
    <3>2. ~Owes(n) /\ Owes(n)'
      BY <2>1, <2>2, <2>5, <3>1
    <3>3. Owing' = Owing \cup {n} /\ Answered' = Answered
      BY <2>2, <2>4, <3>1, <3>2 DEF Owing, Answered
    <3>. QED
      BY <2>2, <2>3, <2>5, <3>2, <3>3, CallIsOwed
  <2>6. CASE step[a] = "write"
    <3>1. PICK q \in Shared!Questions : q = Shared!question(a)
      BY <2>2, <2>6, ContainerStep DEF WorkInv
    <3>2. answer[q] = None
      BY <2>6, <3>1 DEF WorkInv
    <3>3. answer' = [answer EXCEPT ![q] = saved[a]] /\ saved[a] # None
      BY <2>2, <2>6, <3>1, <3>2, ContainerStep
    <3>4. Answered \cup {q} \subseteq Answered'
      BY <3>3 DEF Answered, PipelineInv, Shared!AgreementInv, Shared!TypeOK
    <3>5. Owing \subseteq Owing' \cup {n}
      BY <2>2, <2>4 DEF Owing
    <3>. QED
      BY <2>2, <2>3, <2>6, <3>2, <3>4, <3>5, WriteSettles
  <2>7. CASE step[a] \notin {"generate", "write"}
    <3>1. UNCHANGED answer
      BY <2>2, <2>7, ContainerStep
    <3>2. ~Owes(n)
      BY <2>1, <2>2, <2>7
    <3>. QED
      BY <1>1, <1>2, <2>2, <2>3, <2>4, <2>7, <3>1, <3>2
  <2>. QED
    BY <2>5, <2>6, <2>7
<1>6. ASSUME NEW n \in DOMAIN job, NEW s \in Statuses, Becomes(n, s),
             UNCHANGED <<answer, calls>>,
             \A a \in Attempts \ {job[n].attempt} : step'[a] = step[a],
             Owes(n) => Owes(n)'
      PROVE  PaidInv'
  <2>1. DOMAIN job' = DOMAIN job /\ \A m \in DOMAIN job \ {n} : job'[m] = job[m]
    BY <1>6 DEF Becomes
  <2>2. \A m \in DOMAIN job \ {n} : job[m].attempt \in Attempts \ {job[n].attempt}
    BY <1>0
  <2>. QED
    BY <1>1, <1>2, <1>6, <2>1, <2>2
<1>7. ASSUME NEW n \in DOMAIN job, ContainerExits(n) PROVE PaidInv'
  BY <1>6, <1>7 DEF ContainerExits, loop, Statuses, TERMINAL
<1>8. ASSUME NEW n \in DOMAIN job, ContainerEnds(n) PROVE PaidInv'
  <2>1. PICK s \in {"Failed", "Stopped"} : Becomes(n, s)
    BY <1>8 DEF ContainerEnds, JobFails, JobStops
  <2>2. Owes(n)'
    BY <2>1 DEF Becomes, PipelineInv, LaunchInv, TypeOK
  <2>3. UNCHANGED <<answer, calls>> /\ \A a \in Attempts \ {job[n].attempt} : step'[a] = step[a]
    BY <1>8 DEF ContainerEnds, Loop!Crash, Loop!Goto, Loop!durable, loop, PipelineInv,
                Shared!AgreementInv, Shared!TypeOK
  <2>. QED
    BY <1>6, <2>1, <2>2, <2>3 DEF Statuses, TERMINAL
<1>9. ASSUME NEW n \in DOMAIN job, StopJob(n), UNCHANGED <<loop, calls>> PROVE PaidInv'
  <2>1. Becomes(n, "Stopping") /\ job'[n].status = "Stopping" /\ job'[n].attempt = job[n].attempt
    BY <1>9 DEF StopJob, Becomes, PipelineInv, LaunchInv, TypeOK
  <2>2. UNCHANGED <<answer, step, calls>> /\ (Owes(n) => Owes(n)')
    BY <1>9, <2>1 DEF loop, StopJob
  <2>. QED
    BY <1>6, <2>1, <2>2 DEF Statuses
<1>. QED
  BY <1>3, <1>4, <1>5, <1>7, <1>8, <1>9 DEF PipelineNext

\* One launcher pays for a call once: over all attempts, jobs that were lost
\* and their containers wherever they were, a call is made only for an answer
\* that is now durable, or by a job that has not completed.
THEOREM OneLauncherPaysOnce ==
  ASSUME \A k, l \in Launchers : k = l
  PROVE  PipelineSpec => []WorkIsPaidOnce
<1>1. PipelineInit => QuietInv /\ WorkInv /\ PaidInv
  <2>. SUFFICES ASSUME PipelineInit PROVE QuietInv /\ WorkInv /\ PaidInv
    OBVIOUS
  <2>1. QuietInv
    BY DEF PipelineInit, Init, QuietInv, AnyJob, Live
  <2>2. WorkInv
    BY DEF PipelineInit, WorkInv, AtWork, Shared!Active
  <2>3. DOMAIN job = {} /\ calls = 0
    BY DEF PipelineInit, Init
  <2>4. IsFiniteSet(DOMAIN job)
    BY <2>3, FS_EmptySet
  <2>. QED
    BY <2>1, <2>2, <2>3, <2>4, FinitelyMany DEF PaidInv
<1>2. PipelineInv /\ QuietInv /\ [PipelineNext]_pipeline => QuietInv'
  BY QuietStep, PipelineKept DEF PipelineInv
<1>3. PipelineInv /\ QuietInv /\ WorkInv /\ PaidInv /\ [PipelineNext]_pipeline
        => WorkInv' /\ PaidInv'
  BY WorkKept, PaidKept
<1>4. PaidInv => WorkIsPaidOnce
  <2>. SUFFICES ASSUME PaidInv PROVE WorkIsPaidOnce
    OBVIOUS
  <2>1. Owing \subseteq {n \in DOMAIN job : job[n].status # "Completed"}
    BY DEF Owing, Owes, Live
  <2>2. IsFiniteSet({n \in DOMAIN job : job[n].status # "Completed"})
    BY FS_Subset DEF PaidInv
  <2>3. /\ Cardinality({n \in DOMAIN job : job[n].status # "Completed"}) \in Nat
        /\ Cardinality(Owing)
             <= Cardinality({n \in DOMAIN job : job[n].status # "Completed"})
    BY <2>1, <2>2, FS_Subset, FS_CardinalityType
  <2>4. Answered = {q \in Loop!Questions : answer[q] # None}
    BY DEF Answered, Loop!Questions, Shared!Questions
  <2>. QED
    BY <2>3, <2>4, FinitelyMany DEF PaidInv, WorkIsPaidOnce
<1>. QED
  BY <1>1, <1>2, <1>3, <1>4, PipelineInvariant, PTL DEF PipelineSpec
=============================================================================
