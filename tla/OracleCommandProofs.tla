------------------------ MODULE OracleCommandProofs ------------------------
(***************************************************************************)
(* The oracle command and its jobs for any number of invocations and jobs  *)
(* and any limits: types; one job under an output prefix; a running job on *)
(* record; and a monitor that outlasts its job.                            *)
(***************************************************************************)
EXTENDS OracleCommand, TLAPS, SequenceTheorems, FiniteSetTheorems

-----------------------------------------------------------------------------
(***************************************************************************)
(* Types.                                                                  *)
(***************************************************************************)
Phases      == InProgress \cup Terminal \cup {"Stopping"}
LatestTexts == {"absent", "launching", "InProgress", "Stopping", "detached"} \cup Terminal
Leftovers   == {<< >>} \cup UNION {Artifacts[m] : m \in Modes}

CommandRecords ==
  [pc : Pcs, count : 0..MaxCommands, plan : Plans, ceiling : Nat, tries : 0..4, listed : 0..1,
   active : BOOLEAN, job : Nat, elapsed : Nat, slept : 0..PollTime,
   cause : Causes \cup {"none"}, outcome : Outcomes \cup {"none"}]

JobRecords == [mode : Modes, runtime : Nat, phase : Phases, age : Nat, named : BOOLEAN,
               artifact : Leftovers]

TypeInv == /\ cmd \in CommandRecords /\ cmd.job <= Len(jobs)
           /\ jobs \in Seq(JobRecords) /\ Len(jobs) <= MaxJobs
           /\ \A i \in DOMAIN jobs : jobs[i].age <= Limit(jobs[i]) /\ jobs[i].runtime <= HourLimit
           /\ writers \in [Modes -> SUBSET DOMAIN jobs]
           /\ latest \in [job : 0..Len(jobs), status : LatestTexts]

-----------------------------------------------------------------------------
(***************************************************************************)
(* What a command knows at each of its steps.                              *)
(***************************************************************************)
\* Past the guards, the plan is one they accept and the ceiling allows for it.
Guarded == cmd.pc # "idle" =>
  /\ Bounded(cmd.plan) /\ Affordable(cmd.plan)
  /\ cmd.ceiling >= MonitorCeiling(cmd.plan)
  /\ cmd.outcome = "none"
  /\ cmd.pc \in {"quota", "list", "prefix", "launching", "submit", "named"} => cmd.elapsed = 0

\* The first listing has seen no job in progress, the second none that stops:
\* then no job is live, and none comes to life but by this command.
Alone ==
  /\ cmd.pc = "quota" \/ (cmd.pc = "list" /\ cmd.listed = 0) => ~cmd.active /\ cmd.listed = 0
  /\ cmd.pc = "list" /\ cmd.listed = 1 /\ ~cmd.active =>
       \A i \in DOMAIN jobs : Status(jobs[i]) # "InProgress"
  /\ cmd.pc \in {"prefix", "launching", "submit"} => \A i \in DOMAIN jobs : ~Live(jobs[i])
  /\ cmd.pc \in {"launching", "submit"} => \A m \in Under(cmd.plan.mode) : writers[m] = {}
  /\ cmd.pc = "submit" => latest = [job |-> 0, status |-> "launching"]

\* A command that has its job's name is about that job, the only live one.
Attached == cmd.pc \in {"named", "monitor", "failed", "save", "gate"} =>
  /\ cmd.job \in DOMAIN jobs
  /\ \A i \in DOMAIN jobs : Live(jobs[i]) => i = cmd.job
  /\ jobs[cmd.job].runtime = cmd.plan.runtime
  /\ cmd.pc # "named" => jobs[cmd.job].named
  /\ cmd.pc = "failed" => /\ cmd.cause \in {"job_failed", "aws_error"}
                          /\ cmd.cause = "job_failed" => jobs[cmd.job].phase \in Terminal
  /\ cmd.pc \in {"save", "gate"} => jobs[cmd.job].phase = "Completed"
  /\ cmd.pc = "gate" => latest = [job |-> cmd.job, status |-> "Completed"]

\* The time a job may have been there, at most: its earlier phases and its age.
Spent(j) == CASE j.phase = "Pending" -> j.age
              [] j.phase = "Running" -> PendingLimit + j.age
              [] OTHER               -> PendingLimit + j.runtime + j.age

\* The monitor has waited no longer than its job has been there, and once that
\* has ended no longer than a poll more.
OnTime == cmd.pc = "monitor" =>
  cmd.elapsed <= IF Live(jobs[cmd.job]) THEN Spent(jobs[cmd.job])
                 ELSE PendingLimit + jobs[cmd.job].runtime + UploadLimit + cmd.slept

\* An outcome that is about a job is about one that exists.
Named == cmd.outcome \in {"verified", "unverified", "job_failed"} => cmd.job \in DOMAIN jobs

\* One live job, alone under its prefix and on record.
OneLive ==
  /\ \A i, j \in DOMAIN jobs : Live(jobs[i]) /\ Live(jobs[j]) => i = j
  /\ \A i \in DOMAIN jobs : Live(jobs[i]) => writers[jobs[i].mode] \subseteq {i}
  /\ \A m \in Modes : \A i, j \in writers[m] : i = j

Inv == /\ TypeInv /\ Guarded /\ Alone /\ Attached /\ OnTime /\ Named /\ OneLive
       /\ LiveJobIsOnRecord /\ MonitorSeesTheEnd

-----------------------------------------------------------------------------
LEMMA Limits ==
  /\ PendingLimit \in Nat /\ HourLimit \in Nat /\ UploadLimit \in Nat
  /\ PollTime \in Nat /\ PollTime # 0 /\ SafetyMargin \in Nat
  /\ MaxCommands \in Nat /\ MaxJobs \in Nat /\ Wanted \subseteq Nat
  /\ SafetyMargin >= UploadLimit + PollTime
  BY TimesAssumption

LEMMA Replaced ==
  ASSUME NEW S, NEW s \in Seq(S), NEW i \in 1..Len(s), NEW e \in S,
         NEW t, t = [s EXCEPT ![i] = e]
  PROVE  /\ t \in Seq(S) /\ Len(t) = Len(s) /\ DOMAIN t = DOMAIN s
         /\ t[i] = e /\ \A j \in DOMAIN s : j # i => t[j] = s[j]
<1>1. t \in Seq(S) /\ Len(t) = Len(s)
  BY ExceptSeq
<1>2. DOMAIN t = DOMAIN s /\ i \in DOMAIN s
  BY LenProperties
<1>. QED
  BY <1>1, <1>2

LEMMA JobFacts ==
  ASSUME TypeInv
  PROVE  /\ Len(jobs) \in Nat /\ DOMAIN jobs = 1..Len(jobs)
         /\ \A i \in DOMAIN jobs : jobs[i] \in JobRecords
  BY LenProperties, ElementOfSeq DEF TypeInv

LEMMA IdleType ==
  /\ Idle \in CommandRecords
  /\ Idle.pc = "idle" /\ Idle.outcome = "none" /\ ~Idle.active /\ Idle.listed = 0
  /\ Idle.elapsed = 0 /\ Idle.cause = "none"
<1>1. (CHOOSE p \in Plans : TRUE) \in Plans
  BY PlansAssumption
<1>. QED
  BY <1>1, TimesAssumption DEF Idle, CommandRecords, Pcs

LEMMA Ended ==
  ASSUME TypeInv, NEW o \in Outcomes, End(o)
  PROVE  /\ cmd' \in CommandRecords /\ cmd'.pc = "idle" /\ cmd'.outcome = o
         /\ cmd'.job = cmd.job
  BY IdleType DEF End, TypeInv, CommandRecords

\* An invocation that ends says nothing of its job unless its outcome does.
LEMMA EndKept ==
  ASSUME Inv, NEW o \in Outcomes, End(o), UNCHANGED <<jobs, writers>>,
         latest' \in [job : 0..Len(jobs), status : LatestTexts],
         LiveJobIsOnRecord',
         o # "timed_out",
         o \in {"verified", "unverified", "job_failed"} =>
           /\ cmd.job \in DOMAIN jobs /\ jobs[cmd.job].phase \in Terminal
           /\ latest' = [job |-> cmd.job, status |-> jobs[cmd.job].phase]
  PROVE  Inv'
<1>1. /\ cmd' \in CommandRecords /\ cmd'.pc = "idle" /\ cmd'.outcome = o
      /\ cmd'.job = cmd.job
  BY Ended DEF Inv
<1>2. TypeInv'
  BY <1>1 DEF Inv, TypeInv, Limit
<1>3. Guarded' /\ Alone' /\ Attached' /\ OnTime'
  BY <1>1 DEF Guarded, Alone, Attached, OnTime
<1>4. OneLive'
  BY DEF Inv, OneLive, Live, Status
<1>5. MonitorSeesTheEnd' /\ Named'
  BY <1>1 DEF MonitorSeesTheEnd, Named
<1>. QED
  BY <1>2, <1>3, <1>4, <1>5 DEF Inv

LEMMA RefusalKept ==
  ASSUME Inv, NEW o \in {"refused", "died", "unavailable"}, End(o),
         UNCHANGED <<jobs, writers, latest>>
  PROVE  Inv'
<1>1. LiveJobIsOnRecord'
  BY DEF Inv, LiveJobIsOnRecord, Live, Status
<1>2. latest' \in [job : 0..Len(jobs), status : LatestTexts]
  BY DEF Inv, TypeInv
<1>. QED
  BY <1>1, <1>2, EndKept DEF Outcomes, Causes

\* Steps of a command that goes on, while its jobs stay as they are.
LEMMA GoingOnKept ==
  ASSUME Inv, UNCHANGED <<jobs, writers>>,
         latest' \in [job : 0..Len(jobs), status : LatestTexts],
         LiveJobIsOnRecord',
         cmd' \in CommandRecords, cmd'.job = cmd.job \/ cmd'.job = 0,
         cmd'.outcome = "none",
         Guarded', Alone', Attached', OnTime'
  PROVE  Inv'
<1>0. TypeInv /\ Len(jobs) \in Nat
  BY JobFacts DEF Inv
<1>1. TypeInv'
  BY <1>0 DEF TypeInv, Limit
<1>2. OneLive'
  BY DEF Inv, OneLive, Live, Status
<1>3. MonitorSeesTheEnd' /\ Named'
  BY DEF MonitorSeesTheEnd, Named
<1>. QED
  BY <1>1, <1>2, <1>3 DEF Inv

\* Steps that change neither jobs nor records, and end nothing.
LEMMA QuietKept ==
  ASSUME Inv, UNCHANGED <<jobs, writers, latest>>,
         cmd' \in CommandRecords, cmd'.job = cmd.job \/ cmd'.job = 0,
         cmd'.outcome = "none",
         Guarded', Alone', Attached', OnTime'
  PROVE  Inv'
<1>1. LiveJobIsOnRecord'
  BY DEF Inv, LiveJobIsOnRecord, Live, Status
<1>2. latest' \in [job : 0..Len(jobs), status : LatestTexts]
  BY DEF Inv, TypeInv
<1>. QED
  BY <1>1, <1>2, GoingOnKept

-----------------------------------------------------------------------------
(***************************************************************************)
(* The guards.                                                             *)
(***************************************************************************)
LEMMA StartKept == ASSUME Inv, Start PROVE Inv'
<1>1. PICK p \in Plans, wanted \in Wanted, submit \in BOOLEAN :
        cmd' = IF /\ Bounded(p)
                  /\ wanted = 0 \/ wanted >= MonitorCeiling(p)
                  /\ Affordable(p)
                  /\ submit
                 THEN [[Idle EXCEPT !.count = cmd.count + 1] EXCEPT
                         !.pc = "quota", !.plan = p,
                         !.ceiling = IF wanted = 0 THEN MonitorCeiling(p) ELSE wanted]
                 ELSE [[Idle EXCEPT !.count = cmd.count + 1] EXCEPT !.outcome = "refused"]
  BY DEF Start
<1>0. cmd.count \in 0..MaxCommands /\ MaxCommands \in Nat
  BY Limits DEF Inv, TypeInv, CommandRecords
<1>2. UNCHANGED <<jobs, writers, latest>> /\ cmd.count + 1 \in 0..MaxCommands
  BY <1>0 DEF Start
<1>3. MonitorCeiling(p) \in Nat /\ wanted \in Nat
  BY TimesAssumption, PlansAssumption DEF MonitorCeiling
<1>4. CASE /\ Bounded(p)
           /\ wanted = 0 \/ wanted >= MonitorCeiling(p)
           /\ Affordable(p)
           /\ submit
  <2>1. cmd' = [[Idle EXCEPT !.count = cmd.count + 1] EXCEPT
                  !.pc = "quota", !.plan = p,
                  !.ceiling = IF wanted = 0 THEN MonitorCeiling(p) ELSE wanted]
    BY <1>1, <1>4
  <2>2. PICK t \in Nat : t = (IF wanted = 0 THEN MonitorCeiling(p) ELSE wanted) /\ t >= MonitorCeiling(p)
    BY <1>3, <1>4
  <2>3. /\ cmd' \in CommandRecords
        /\ cmd'.pc = "quota" /\ cmd'.plan = p /\ cmd'.ceiling = t
        /\ cmd'.outcome = "none" /\ ~cmd'.active /\ cmd'.listed = 0 /\ cmd'.job = Idle.job
        /\ cmd'.elapsed = 0
    BY <1>2, <2>1, <2>2, IdleType DEF CommandRecords, Pcs
  <2>4. Idle.job = 0
    BY DEF Idle
  <2>5. Guarded' /\ Alone' /\ Attached' /\ OnTime'
    BY <1>4, <2>2, <2>3 DEF Guarded, Alone, Attached, OnTime, Bounded, Affordable, MonitorCeiling
  <2>. QED
    BY <1>2, <2>3, <2>4, <2>5, QuietKept
<1>5. CASE ~ (/\ Bounded(p)
              /\ wanted = 0 \/ wanted >= MonitorCeiling(p)
              /\ Affordable(p)
              /\ submit)
  <2>1. cmd' = [[Idle EXCEPT !.count = cmd.count + 1] EXCEPT !.outcome = "refused"]
    BY <1>1, <1>5
  <2>2. /\ cmd' \in CommandRecords /\ cmd'.pc = "idle" /\ cmd'.outcome = "refused"
        /\ cmd'.job = Idle.job /\ Idle.job = 0
    BY <1>2, <2>1, IdleType DEF CommandRecords, Outcomes, Idle
  <2>3. TypeInv'
    BY <1>2, <2>2, JobFacts DEF Inv, TypeInv, Limit
  <2>4. Guarded' /\ Alone' /\ Attached' /\ OnTime' /\ Named' /\ MonitorSeesTheEnd'
    BY <2>2 DEF Guarded, Alone, Attached, OnTime, Named, MonitorSeesTheEnd
  <2>5. OneLive' /\ LiveJobIsOnRecord'
    BY <1>2 DEF Inv, OneLive, LiveJobIsOnRecord, Live, Status
  <2>. QED
    BY <2>3, <2>4, <2>5 DEF Inv
<1>. QED
  BY <1>4, <1>5

\* The questions to Service Quotas and the listings.
LEMMA LookingKept ==
  ASSUME Inv, Throttled \/ QuotaAnswer \/ List \/ CheckPrefix
  PROVE  Inv'
<1>. USE DEF Goto
<1>0. cmd \in CommandRecords /\ UNCHANGED <<jobs, writers, latest>>
  BY DEF Inv, TypeInv, Throttled, QuotaAnswer, List, CheckPrefix
<1>1. ASSUME End("refused") PROVE Inv'
  BY <1>0, <1>1, RefusalKept
<1>2. ASSUME cmd' \in CommandRecords, cmd'.pc \in {"quota", "list", "prefix", "launching"},
             cmd.pc \in {"quota", "list", "prefix"}, cmd'.elapsed = cmd.elapsed,
             cmd'.plan = cmd.plan, cmd'.ceiling = cmd.ceiling, cmd'.outcome = cmd.outcome,
             cmd'.job = cmd.job, Alone'
      PROVE  Inv'
  <2>1. Guarded' /\ Attached' /\ OnTime' /\ cmd'.outcome = "none"
    BY <1>2 DEF Inv, Guarded, Attached, OnTime, Bounded, Affordable, MonitorCeiling
  <2>. QED
    BY <1>0, <1>2, <2>1, QuietKept
<1>3. CASE Throttled
  <2>1. CASE cmd.tries < 4
    <3>0. cmd.tries \in 0..4
      BY <1>0 DEF CommandRecords
    <3>1. cmd.pc = "quota" /\ cmd' = [cmd EXCEPT !.tries = cmd.tries + 1] /\ cmd.tries + 1 \in 0..4
      BY <1>3, <2>1, <3>0 DEF Throttled
    <3>2. /\ cmd' \in CommandRecords /\ cmd'.pc = "quota"
          /\ cmd'.plan = cmd.plan /\ cmd'.ceiling = cmd.ceiling /\ cmd'.outcome = cmd.outcome
          /\ cmd'.elapsed = cmd.elapsed
          /\ cmd'.job = cmd.job /\ cmd'.active = cmd.active /\ cmd'.listed = cmd.listed
      BY <1>0, <3>1 DEF CommandRecords
    <3>3. Alone'
      BY <3>1, <3>2 DEF Inv, Alone
    <3>. QED
      BY <1>2, <3>1, <3>2, <3>3
  <2>. QED
    BY <1>1, <1>3, <2>1 DEF Throttled
<1>4. CASE QuotaAnswer
  <2>1. CASE cmd' = [cmd EXCEPT !.pc = "list", !.tries = 0]
    <3>0. cmd.pc = "quota" /\ 0 \in 0..4
      BY <1>4 DEF QuotaAnswer
    <3>1. /\ cmd' \in CommandRecords /\ cmd'.pc = "list" /\ cmd.pc = "quota"
          /\ cmd'.plan = cmd.plan /\ cmd'.ceiling = cmd.ceiling /\ cmd'.outcome = cmd.outcome
          /\ cmd'.elapsed = cmd.elapsed
          /\ cmd'.job = cmd.job /\ cmd'.active = cmd.active /\ cmd'.listed = cmd.listed
      BY <1>0, <2>1, <3>0 DEF CommandRecords, Pcs
    <3>2. Alone'
      BY <3>1 DEF Inv, Alone
    <3>. QED
      BY <1>2, <3>1, <3>2
  <2>. QED
    BY <1>1, <1>4, <2>1 DEF QuotaAnswer
<1>5. CASE List
  <2>. DEFINE active == cmd.active \/ \E i \in DOMAIN jobs : Status(jobs[i]) = Statuses[cmd.listed + 1]
  <2>1. CASE cmd.listed = 0
    <3>0. active \in BOOLEAN /\ 1 \in 0..1
      <4>1. cmd.active \in BOOLEAN
        BY <1>0 DEF CommandRecords
      <4>. QED
        BY <4>1
    <3>1. cmd.pc = "list" /\ cmd' = [cmd EXCEPT !.listed = 1, !.active = active] /\ ~cmd.active
      BY <1>0, <1>5, <2>1 DEF List, Statuses, Inv, Alone
    <3>2. /\ cmd' \in CommandRecords /\ cmd'.pc = "list" /\ cmd'.active = active
          /\ cmd'.plan = cmd.plan /\ cmd'.ceiling = cmd.ceiling /\ cmd'.outcome = cmd.outcome
          /\ cmd'.elapsed = cmd.elapsed
          /\ cmd'.job = cmd.job /\ cmd'.listed = 1
      BY <1>0, <3>0, <3>1 DEF CommandRecords
    <3>3. ~active => \A i \in DOMAIN jobs : Status(jobs[i]) # "InProgress"
      BY <2>1 DEF Statuses
    <3>4. ~cmd'.active => \A i \in DOMAIN jobs' : Status(jobs'[i]) # "InProgress"
      BY <1>0, <3>2, <3>3 DEF Status
    <3>5. Alone'
      BY <3>2, <3>4 DEF Alone, Status
    <3>. QED
      BY <1>2, <3>1, <3>2, <3>5
  <2>2. CASE cmd.listed = 1 /\ ~active
    <3>0. 0 \in 0..1
      OBVIOUS
    <3>1. cmd.pc = "list" /\ cmd' = [cmd EXCEPT !.listed = 0, !.pc = "prefix"] /\ ~cmd.active
      BY <1>0, <1>5, <2>2 DEF List, Statuses
    <3>2. /\ cmd' \in CommandRecords /\ cmd'.pc = "prefix"
          /\ cmd'.plan = cmd.plan /\ cmd'.ceiling = cmd.ceiling /\ cmd'.outcome = cmd.outcome
          /\ cmd'.elapsed = cmd.elapsed
          /\ cmd'.job = cmd.job
      BY <1>0, <3>0, <3>1 DEF CommandRecords, Pcs
    <3>3. \A i \in DOMAIN jobs : Status(jobs[i]) # "InProgress" /\ Status(jobs[i]) # "Stopping"
      BY <2>2, <3>1 DEF Inv, Alone, Statuses
    <3>4. \A i \in DOMAIN jobs : ~Live(jobs[i])
      BY <3>3, JobFacts DEF Inv, Live, Status, JobRecords, Phases
    <3>5. Alone'
      BY <1>0, <3>2, <3>4 DEF Alone, Live, Status
    <3>. QED
      BY <1>2, <3>1, <3>2, <3>5
  <2>3. CASE cmd.listed = 1 /\ active
    <3>1. End("refused")
      BY <1>0, <1>5, <2>3 DEF List, Statuses
    <3>. QED
      BY <1>1, <3>1
  <2>4. cmd.listed \in 0..1
    BY <1>0 DEF CommandRecords
  <2>. QED
    BY <2>1, <2>2, <2>3, <2>4
<1>6. CASE CheckPrefix
  <2>1. CASE \E m \in Under(cmd.plan.mode) : writers[m] # {}
    BY <1>1, <1>6, <2>1 DEF CheckPrefix
  <2>2. CASE \A m \in Under(cmd.plan.mode) : writers[m] = {}
    <3>1. cmd.pc = "prefix" /\ cmd' = [cmd EXCEPT !.pc = "launching"]
      BY <1>6, <2>2 DEF CheckPrefix
    <3>2. /\ cmd' \in CommandRecords /\ cmd'.pc = "launching"
          /\ cmd'.plan = cmd.plan /\ cmd'.ceiling = cmd.ceiling /\ cmd'.outcome = cmd.outcome
          /\ cmd'.elapsed = cmd.elapsed
          /\ cmd'.job = cmd.job
      BY <1>0, <3>1 DEF CommandRecords, Pcs
    <3>3. Alone'
      BY <1>0, <2>2, <3>1, <3>2 DEF Inv, Alone, Live, Status
    <3>. QED
      BY <1>2, <3>1, <3>2, <3>3
  <2>. QED
    BY <2>1, <2>2
<1>. QED
  BY <1>3, <1>4, <1>5, <1>6
-----------------------------------------------------------------------------
(***************************************************************************)
(* The submission, and what is written about the job.                      *)
(***************************************************************************)
LEMMA StatusTypes ==
  ASSUME NEW j \in JobRecords
  PROVE  /\ Status(j) \in LatestTexts /\ Status(j) # "absent"
         /\ j.phase \in Terminal => Status(j) = j.phase /\ ~Live(j)
         /\ Status(j) \in Terminal => j.phase = Status(j) /\ ~Live(j)
         /\ Status(j) \notin Terminal => Live(j)
  BY DEF JobRecords, Phases, Status, Live, LatestTexts, InProgress, Terminal

LEMMA LaunchingKept == ASSUME Inv, SaveLaunching PROVE Inv'
<1>0. cmd \in CommandRecords /\ UNCHANGED <<jobs, writers>>
  BY DEF Inv, TypeInv, SaveLaunching
<1>1. /\ cmd.pc = "launching" /\ cmd' = [cmd EXCEPT !.pc = "submit"]
      /\ latest' = [job |-> 0, status |-> "launching"]
  BY DEF SaveLaunching, Goto
<1>2. /\ cmd' \in CommandRecords /\ cmd'.pc = "submit"
      /\ cmd'.plan = cmd.plan /\ cmd'.ceiling = cmd.ceiling /\ cmd'.outcome = cmd.outcome
      /\ cmd'.elapsed = cmd.elapsed /\ cmd'.job = cmd.job
  BY <1>0, <1>1 DEF CommandRecords, Pcs
<1>3. \A i \in DOMAIN jobs : ~Live(jobs[i])
  BY <1>1 DEF Inv, Alone
<1>4. \A m \in Under(cmd.plan.mode) : writers[m] = {}
  BY <1>1 DEF Inv, Alone
<1>5. Alone' /\ Attached' /\ OnTime'
  BY <1>0, <1>1, <1>2, <1>3, <1>4 DEF Alone, Attached, OnTime, Live, Status
<1>6. Guarded' /\ cmd'.outcome = "none"
  BY <1>1, <1>2 DEF Inv, Guarded, Bounded, Affordable, MonitorCeiling
<1>7. LiveJobIsOnRecord'
  BY <1>0, <1>3 DEF LiveJobIsOnRecord, Live, Status
<1>8. latest' \in [job : 0..Len(jobs), status : LatestTexts]
  BY <1>1, JobFacts DEF Inv, LatestTexts
<1>. QED
  BY <1>0, <1>2, <1>5, <1>6, <1>7, <1>8, GoingOnKept

\* The new job is the only live one, alone in its prefix, unnamed but announced.
LEMMA SubmitKept == ASSUME Inv, Submit PROVE Inv'
<1>. DEFINE n == Len(jobs)
<1>0. /\ TypeInv /\ cmd \in CommandRecords /\ n \in Nat /\ DOMAIN jobs = 1..n
      /\ jobs \in Seq(JobRecords) /\ writers \in [Modes -> SUBSET DOMAIN jobs]
      /\ latest \in [job : 0..n, status : LatestTexts] /\ cmd.job <= n
  BY JobFacts DEF Inv, TypeInv
<1>1. /\ cmd.pc = "submit" /\ Guardrails(cmd.plan) /\ n < MaxJobs
      /\ jobs' = Append(jobs, NewJob) /\ UNCHANGED <<writers, latest>>
  BY DEF Submit
<1>2. /\ cmd.plan \in Plans /\ cmd.plan.mode \in Modes /\ cmd.plan.runtime \in Nat
      /\ cmd.plan.runtime <= HourLimit
  BY <1>0, <1>1, PlansAssumption DEF CommandRecords, Guardrails
<1>3. /\ NewJob \in JobRecords /\ NewJob.phase = "Pending" /\ NewJob.age = 0
      /\ NewJob.mode = cmd.plan.mode /\ NewJob.runtime = cmd.plan.runtime /\ ~NewJob.named
  BY <1>2 DEF NewJob, JobRecords, Phases, InProgress, Leftovers
<1>4. /\ jobs' \in Seq(JobRecords) /\ Len(jobs') = n + 1 /\ DOMAIN jobs' = 1..(n+1)
      /\ \A i \in 1..n : jobs'[i] = jobs[i]
      /\ jobs'[n+1] = NewJob
  BY <1>0, <1>1, <1>3, AppendProperties, LenProperties
<1>5. \A i \in 1..n : ~Live(jobs[i])
  BY <1>0, <1>1 DEF Inv, Alone
<1>6. Live(NewJob) /\ NewJob.age <= Limit(NewJob)
  BY <1>3, Limits DEF Live, Status, Terminal, InProgress, Limit
<1>7. \A i \in DOMAIN jobs' : Live(jobs'[i]) => i = n + 1
  BY <1>4, <1>5
<1>8. \A m \in Under(cmd.plan.mode) : writers[m] = {}
  BY <1>1 DEF Inv, Alone
<1>9. latest = [job |-> 0, status |-> "launching"] /\ cmd.outcome = "none" /\ cmd.elapsed = 0
  BY <1>1 DEF Inv, Alone, Guarded
<1>10. /\ Len(jobs') <= MaxJobs
       /\ \A i \in DOMAIN jobs' : jobs'[i].age <= Limit(jobs'[i]) /\ jobs'[i].runtime <= HourLimit
       /\ writers' \in [Modes -> SUBSET DOMAIN jobs'] /\ latest' \in [job : 0..(n+1), status : LatestTexts]
  <2>1. n + 1 <= MaxJobs
    BY <1>0, <1>1, Limits
  <2>2. \A i \in 1..n : jobs[i].age <= Limit(jobs[i]) /\ jobs[i].runtime <= HourLimit
    BY <1>0 DEF TypeInv
  <2>3. \A i \in 1..(n+1) : i \in 1..n \/ i = n + 1
    BY <1>0
  <2>4. \A i \in DOMAIN jobs' : jobs'[i].age <= Limit(jobs'[i]) /\ jobs'[i].runtime <= HourLimit
    BY <1>2, <1>3, <1>4, <1>6, <2>2, <2>3
  <2>5. writers' = writers /\ latest' = latest /\ 1..n \subseteq 1..(n+1) /\ 0..n \subseteq 0..(n+1)
    BY <1>0, <1>1
  <2>. QED
    BY <1>0, <1>4, <2>1, <2>4, <2>5
<1>11. OneLive'
  <2>1. \A m \in Modes : writers'[m] = writers[m]
    BY <1>1
  <2>2. \A i, j \in DOMAIN jobs' : Live(jobs'[i]) /\ Live(jobs'[j]) => i = j
    BY <1>7
  <2>3. \A i \in DOMAIN jobs' : Live(jobs'[i]) => writers'[jobs'[i].mode] \subseteq {i}
    <3>1. cmd.plan.mode \in Under(cmd.plan.mode)
      BY <1>2 DEF Under, Modes
    <3>2. writers'[cmd.plan.mode] = {}
      BY <1>2, <1>8, <2>1, <3>1
    <3>. QED
      BY <1>3, <1>4, <1>7, <3>2
  <2>4. \A m \in Modes : \A i, j \in writers'[m] : i = j
    BY <2>1 DEF Inv, OneLive
  <2>. QED
    BY <2>2, <2>3, <2>4 DEF OneLive, Live, Status
<1>12. LiveJobIsOnRecord'
  <2>1. latest'.job = 0 /\ latest'.status # "absent"
    BY <1>1, <1>9
  <2>. QED
    BY <1>3, <1>4, <1>7, <2>1 DEF LiveJobIsOnRecord, Live, Status
<1>13. CASE cmd' = [cmd EXCEPT !.pc = "named", !.job = Len(jobs')]
  <2>1. /\ cmd' \in CommandRecords /\ cmd'.pc = "named" /\ cmd'.job = n + 1
        /\ cmd'.plan = cmd.plan /\ cmd'.ceiling = cmd.ceiling /\ cmd'.outcome = "none"
        /\ cmd'.elapsed = 0
    <3>1. Len(jobs') = n + 1 /\ n + 1 \in Nat
      BY <1>0, <1>4
    <3>2. cmd' = [cmd EXCEPT !.pc = "named", !.job = n + 1]
      BY <1>13, <3>1
    <3>. QED
      BY <1>0, <1>9, <3>1, <3>2 DEF CommandRecords, Pcs
  <2>2. TypeInv'
    BY <1>0, <1>4, <1>10, <2>1 DEF TypeInv, Limit
  <2>3. Guarded'
    BY <1>1, <2>1 DEF Inv, Guarded, Bounded, Affordable, MonitorCeiling
  <2>4. n + 1 \in DOMAIN jobs' /\ jobs'[cmd'.job].runtime = cmd'.plan.runtime
    BY <1>0, <1>3, <1>4, <2>1
  <2>5. Attached'
    BY <1>7, <2>1, <2>4 DEF Attached, Live, Status
  <2>6. Alone' /\ OnTime' /\ Named' /\ MonitorSeesTheEnd'
    BY <2>1 DEF Alone, OnTime, Named, MonitorSeesTheEnd
  <2>. QED
    BY <1>11, <1>12, <2>2, <2>3, <2>5, <2>6 DEF Inv
<1>14. CASE End("lost")
  <2>1. cmd' \in CommandRecords /\ cmd'.pc = "idle" /\ cmd'.outcome = "lost" /\ cmd'.job = cmd.job
    BY <1>0, <1>14, Ended DEF Outcomes
  <2>2. cmd'.job <= Len(jobs')
    BY <1>0, <1>4, <2>1 DEF CommandRecords
  <2>3. TypeInv'
    BY <1>4, <1>10, <2>1, <2>2 DEF TypeInv, Limit
  <2>4. Guarded' /\ Alone' /\ Attached' /\ OnTime' /\ Named' /\ MonitorSeesTheEnd'
    BY <2>1 DEF Guarded, Alone, Attached, OnTime, Named, MonitorSeesTheEnd
  <2>. QED
    BY <1>11, <1>12, <2>3, <2>4 DEF Inv
<1>. QED
  BY <1>13, <1>14 DEF Submit
\* A job under a new name or none is the same job for the listings.
LEMMA SaveNamedKept == ASSUME Inv, SaveNamed PROVE Inv'
<1>. DEFINE k == cmd.job
            r == [jobs[k] EXCEPT !.named = TRUE]
<1>0. /\ TypeInv /\ cmd \in CommandRecords /\ DOMAIN jobs = 1..Len(jobs) /\ Len(jobs) \in Nat
      /\ jobs \in Seq(JobRecords) /\ \A i \in DOMAIN jobs : jobs[i] \in JobRecords
  BY JobFacts DEF Inv, TypeInv
<1>1. /\ cmd.pc = "named" /\ latest' = [job |-> k, status |-> "InProgress"] /\ UNCHANGED writers
      /\ jobs' = [jobs EXCEPT ![k].named = TRUE]
      /\ cmd' = [cmd EXCEPT !.pc = "monitor", !.slept = PollTime]
  BY DEF SaveNamed
<1>2. /\ k \in DOMAIN jobs /\ k \in 1..Len(jobs)
      /\ \A i \in DOMAIN jobs : Live(jobs[i]) => i = k
      /\ jobs[k].runtime = cmd.plan.runtime /\ cmd.elapsed = 0
  <2>1. /\ k \in DOMAIN jobs /\ \A i \in DOMAIN jobs : Live(jobs[i]) => i = k
        /\ jobs[k].runtime = cmd.plan.runtime
    BY <1>1 DEF Inv, Attached
  <2>2. cmd.elapsed = 0
    BY <1>1 DEF Inv, Guarded
  <2>. QED
    BY <1>0, <2>1, <2>2
<1>3. /\ r \in JobRecords /\ r.named = TRUE /\ r.mode = jobs[k].mode /\ r.runtime = jobs[k].runtime
      /\ r.phase = jobs[k].phase /\ r.age = jobs[k].age
  BY <1>0, <1>2 DEF JobRecords
<1>4. jobs' = [jobs EXCEPT ![k] = r]
  BY <1>1
<1>5. /\ jobs' \in Seq(JobRecords) /\ Len(jobs') = Len(jobs) /\ DOMAIN jobs' = DOMAIN jobs
      /\ jobs'[k] = r /\ \A i \in DOMAIN jobs : i # k => jobs'[i] = jobs[i]
  <2>1. jobs \in Seq(JobRecords) /\ k \in 1..Len(jobs) /\ r \in JobRecords
    BY <1>0, <1>2, <1>3
  <2>. HIDE DEF k, r
  <2>. QED
    BY <1>4, <2>1, Replaced
<1>6. /\ cmd' \in CommandRecords /\ cmd'.pc = "monitor" /\ cmd'.slept = PollTime /\ cmd'.job = k
      /\ cmd'.plan = cmd.plan /\ cmd'.ceiling = cmd.ceiling /\ cmd'.outcome = cmd.outcome
      /\ cmd'.elapsed = 0
  <2>1. PollTime \in 0..PollTime
    BY Limits
  <2>. QED
    BY <1>0, <1>1, <1>2, <2>1 DEF CommandRecords, Pcs
<1>7. \A i \in DOMAIN jobs : /\ jobs'[i].phase = jobs[i].phase /\ jobs'[i].mode = jobs[i].mode
                             /\ jobs'[i].runtime = jobs[i].runtime /\ jobs'[i].age = jobs[i].age
  BY <1>3, <1>5
<1>8. \A i \in DOMAIN jobs : (Live(jobs'[i]) <=> Live(jobs[i])) /\ Limit(jobs'[i]) = Limit(jobs[i])
  BY <1>7 DEF Live, Status, Limit
<1>9. TypeInv'
  <2>1. latest' \in [job : 0..Len(jobs), status : LatestTexts]
    BY <1>0, <1>1, <1>2 DEF LatestTexts
  <2>2. \A i \in DOMAIN jobs' : jobs'[i].age <= Limit(jobs'[i]) /\ jobs'[i].runtime <= HourLimit
    BY <1>0, <1>5, <1>7, <1>8 DEF TypeInv
  <2>3. /\ cmd'.job <= Len(jobs') /\ Len(jobs') <= MaxJobs
        /\ writers' \in [Modes -> SUBSET DOMAIN jobs']
    BY <1>0, <1>1, <1>5, <1>6 DEF TypeInv
  <2>. QED
    BY <1>5, <1>6, <2>1, <2>2, <2>3 DEF TypeInv
<1>10. Guarded' /\ Alone' /\ cmd'.outcome = "none"
  BY <1>1, <1>6 DEF Inv, Guarded, Alone, Bounded, Affordable, MonitorCeiling
<1>11. Attached'
  <2>1. \A i \in DOMAIN jobs' : Live(jobs'[i]) => i = k
    BY <1>2, <1>5, <1>8
  <2>. QED
    BY <1>2, <1>3, <1>5, <1>6, <2>1 DEF Attached, Live, Status
<1>12. OnTime'
  <2>1. jobs'[k] \in JobRecords /\ cmd'.elapsed = 0 /\ cmd'.slept \in Nat
    BY <1>3, <1>5, <1>6, Limits
  <2>2. Spent(jobs'[k]) \in Nat /\ jobs'[k].runtime \in Nat
    BY <2>1, Limits DEF Spent, JobRecords
  <2>3. 0 <= PendingLimit + jobs'[k].runtime + UploadLimit + cmd'.slept
    BY <2>1, <2>2, Limits
  <2>4. cmd'.elapsed <= IF Live(jobs'[k]) THEN Spent(jobs'[k])
                        ELSE PendingLimit + jobs'[k].runtime + UploadLimit + cmd'.slept
    BY <2>1, <2>2, <2>3
  <2>. QED
    BY <1>6, <2>4 DEF OnTime, Live, Status, Spent
<1>13. OneLive'
  <2>1. \A i, j \in DOMAIN jobs' : Live(jobs'[i]) /\ Live(jobs'[j]) => i = j
    BY <1>2, <1>5, <1>8
  <2>2. \A i \in DOMAIN jobs' : Live(jobs'[i]) => writers'[jobs'[i].mode] \subseteq {i}
    BY <1>1, <1>5, <1>7, <1>8 DEF Inv, OneLive
  <2>3. \A m \in Modes : \A i, j \in writers'[m] : i = j
    BY <1>1 DEF Inv, OneLive
  <2>. QED
    BY <2>1, <2>2, <2>3 DEF OneLive, Live, Status
<1>14. LiveJobIsOnRecord'
  <2>1. \A i \in DOMAIN jobs' : Live(jobs'[i]) => i = k /\ jobs'[i].named
    BY <1>2, <1>3, <1>5, <1>8
  <2>2. latest'.job = k /\ latest'.status # "absent"
    BY <1>1
  <2>. QED
    BY <2>1, <2>2 DEF LiveJobIsOnRecord, Live, Status
<1>15. Named' /\ MonitorSeesTheEnd'
  BY <1>10 DEF Named, MonitorSeesTheEnd
<1>. QED
  BY <1>9, <1>10, <1>11, <1>12, <1>13, <1>14, <1>15 DEF Inv

-----------------------------------------------------------------------------
(***************************************************************************)
(* The monitor.                                                            *)
(***************************************************************************)
LEMMA Spans ==
  ASSUME NEW j \in JobRecords, j.age <= Limit(j)
  PROVE  /\ Spent(j) \in Nat /\ j.runtime \in Nat
         /\ Spent(j) <= PendingLimit + j.runtime + UploadLimit
<1>1. j.age \in Nat /\ j.runtime \in Nat
  BY DEF JobRecords
<1>2. CASE j.phase = "Pending"
  BY <1>1, <1>2, Limits DEF Spent, Limit
<1>3. CASE j.phase = "Running"
  BY <1>1, <1>3, Limits DEF Spent, Limit
<1>4. CASE j.phase \notin {"Pending", "Running"}
  BY <1>1, <1>4, Limits DEF Spent, Limit
<1>. QED
  BY <1>2, <1>3, <1>4

\* The ceiling allows for the queue, the runtime, the upload and one poll more.
LEMMA NeverTooLate ==
  ASSUME Inv, cmd.pc = "monitor"
  PROVE  cmd.elapsed <= cmd.ceiling
<1>. DEFINE j == jobs[cmd.job]
<1>1. cmd.job \in DOMAIN jobs /\ j.runtime = cmd.plan.runtime
  BY DEF Inv, Attached
<1>2. j \in JobRecords /\ j.age <= Limit(j)
  BY <1>1, JobFacts DEF Inv, TypeInv
<1>3. cmd.elapsed \in Nat /\ cmd.ceiling \in Nat /\ cmd.slept \in 0..PollTime
  BY DEF Inv, TypeInv, CommandRecords
<1>4. cmd.ceiling >= PendingLimit + j.runtime + SafetyMargin
  BY <1>1 DEF Inv, Guarded, MonitorCeiling
<1>5. cmd.elapsed <= IF Live(j) THEN Spent(j) ELSE PendingLimit + j.runtime + UploadLimit + cmd.slept
  BY DEF Inv, OnTime
<1>6. Spent(j) \in Nat /\ j.runtime \in Nat /\ Spent(j) <= PendingLimit + j.runtime + UploadLimit
  BY <1>2, Spans
<1>7. cmd.elapsed <= PendingLimit + j.runtime + UploadLimit + PollTime
  BY <1>3, <1>5, <1>6, Limits
<1>. QED
  BY <1>3, <1>4, <1>6, <1>7, Limits
LEMMA PollingKept == ASSUME Inv, Poll \/ PollFails PROVE Inv'
<1>. DEFINE j == jobs[cmd.job]
<1>0. /\ cmd \in CommandRecords /\ UNCHANGED <<jobs, writers, latest>>
      /\ cmd.pc = "monitor" /\ cmd.slept = PollTime
  BY DEF Inv, TypeInv, Poll, PollFails
<1>1. /\ cmd.job \in DOMAIN jobs /\ (\A i \in DOMAIN jobs : Live(jobs[i]) => i = cmd.job)
      /\ j.runtime = cmd.plan.runtime /\ j.named
  BY <1>0 DEF Inv, Attached
<1>2. j \in JobRecords
  BY <1>1, JobFacts DEF Inv
<1>3. Guarded /\ cmd.outcome = "none"
  BY <1>0 DEF Inv, Guarded
<1>4. ASSUME NEW c \in {"job_failed", "aws_error"}, Raise(c),
             c = "job_failed" => j.phase \in Terminal
      PROVE  Inv'
  <2>1. /\ cmd' \in CommandRecords /\ cmd'.pc = "failed" /\ cmd'.cause = c /\ cmd'.job = cmd.job
        /\ cmd'.plan = cmd.plan /\ cmd'.ceiling = cmd.ceiling /\ cmd'.outcome = "none"
    BY <1>0, <1>3, <1>4 DEF Raise, CommandRecords, Pcs, Causes
  <2>2. Guarded' /\ Alone' /\ OnTime'
    BY <1>0, <1>3, <2>1 DEF Guarded, Alone, OnTime, Bounded, Affordable, MonitorCeiling
  <2>3. Attached'
    BY <1>0, <1>1, <1>4, <2>1 DEF Attached, Live, Status
  <2>. QED
    BY <1>0, <2>1, <2>2, <2>3, QuietKept
<1>5. CASE PollFails
  BY <1>4, <1>5 DEF PollFails
<1>6. CASE Poll
  <2>1. ~(cmd.elapsed > cmd.ceiling)
    <3>1. cmd.elapsed \in Nat /\ cmd.ceiling \in Nat
      BY <1>0 DEF CommandRecords
    <3>2. cmd.elapsed <= cmd.ceiling
      BY <1>0, NeverTooLate
    <3>. QED
      BY <3>1, <3>2
  <2>2. CASE Status(j) = "Completed"
    <3>1. cmd' = [cmd EXCEPT !.pc = "save"]
      BY <1>6, <2>1, <2>2 DEF Poll, Goto
    <3>2. /\ cmd' \in CommandRecords /\ cmd'.pc = "save" /\ cmd'.job = cmd.job
          /\ cmd'.plan = cmd.plan /\ cmd'.ceiling = cmd.ceiling /\ cmd'.outcome = "none"
      BY <1>0, <1>3, <3>1 DEF CommandRecords, Pcs
    <3>3. j.phase = "Completed"
      BY <1>2, <2>2, StatusTypes DEF Terminal
    <3>4. Guarded' /\ Alone' /\ OnTime'
      BY <1>0, <1>3, <3>2 DEF Guarded, Alone, OnTime, Bounded, Affordable, MonitorCeiling
    <3>5. Attached'
      BY <1>0, <1>1, <3>2, <3>3 DEF Attached, Live, Status
    <3>. QED
      BY <1>0, <3>2, <3>4, <3>5, QuietKept
  <2>3. CASE Status(j) # "Completed" /\ Status(j) \in Terminal
    <3>1. Raise("job_failed")
      BY <1>6, <2>1, <2>3 DEF Poll
    <3>2. j.phase \in Terminal
      BY <1>2, <2>3, StatusTypes
    <3>. QED
      BY <1>4, <3>1, <3>2
  <2>4. CASE Status(j) \notin Terminal
    <3>1. cmd' = [cmd EXCEPT !.slept = 0]
      BY <1>6, <2>1, <2>4 DEF Poll, Terminal
    <3>2. /\ cmd' \in CommandRecords /\ cmd'.pc = "monitor" /\ cmd'.job = cmd.job
          /\ cmd'.plan = cmd.plan /\ cmd'.ceiling = cmd.ceiling /\ cmd'.outcome = "none"
          /\ cmd'.elapsed = cmd.elapsed
      <4>1. 0 \in 0..PollTime
        BY Limits
      <4>. QED
        BY <1>0, <1>3, <3>1, <4>1 DEF CommandRecords
    <3>3. Guarded' /\ Alone'
      BY <1>0, <1>3, <3>2 DEF Guarded, Alone, Bounded, Affordable, MonitorCeiling
    <3>4. Attached'
      BY <1>0, <1>1, <3>2 DEF Attached, Live, Status
    <3>5. OnTime'
      <4>1. Live(j)
        BY <2>4 DEF Live
      <4>2. cmd.elapsed <= Spent(j)
        BY <1>0, <4>1 DEF Inv, OnTime
      <4>. QED
        BY <1>0, <3>2, <4>1, <4>2 DEF OnTime, Live, Status, Spent
    <3>. QED
      BY <1>0, <3>2, <3>3, <3>4, <3>5, QuietKept
  <2>. QED
    BY <2>2, <2>3, <2>4
<1>. QED
  BY <1>5, <1>6

\* Whatever is saved about its job, the only live one, keeps it on record.
LEMMA SavedOnRecord ==
  ASSUME Inv, UNCHANGED jobs, cmd.pc \in {"monitor", "failed", "save"},
         NEW s \in LatestTexts \ {"absent"}, latest' = [job |-> cmd.job, status |-> s]
  PROVE  /\ latest' \in [job : 0..Len(jobs), status : LatestTexts]
         /\ LiveJobIsOnRecord'
<1>1. /\ cmd.job \in DOMAIN jobs /\ (\A i \in DOMAIN jobs : Live(jobs[i]) => i = cmd.job)
      /\ jobs[cmd.job].named
  BY DEF Inv, Attached
<1>2. DOMAIN jobs = 1..Len(jobs) /\ Len(jobs) \in Nat
  BY JobFacts DEF Inv
<1>3. latest'.job = cmd.job /\ latest'.status # "absent"
  OBVIOUS
<1>4. LiveJobIsOnRecord'
  BY <1>1, <1>3 DEF LiveJobIsOnRecord, Live, Status
<1>5. cmd.job \in 0..Len(jobs)
  BY <1>1, <1>2
<1>. QED
  BY <1>4, <1>5

LEMMA SavingKept == ASSUME Inv, Detach \/ Recheck \/ SaveCompleted \/ Verify PROVE Inv'
<1>. DEFINE j == jobs[cmd.job]
<1>0. cmd \in CommandRecords /\ UNCHANGED <<jobs, writers>> /\ jobs' = jobs
  BY DEF Inv, TypeInv, Detach, Recheck, SaveCompleted, Verify
<1>1. cmd.pc \in {"monitor", "failed", "save", "gate"} =>
        /\ cmd.job \in DOMAIN jobs /\ j \in JobRecords
        /\ (\A i \in DOMAIN jobs : Live(jobs[i]) => i = cmd.job)
        /\ j.runtime = cmd.plan.runtime /\ j.named
  BY JobFacts DEF Inv, Attached
<1>2. CASE Detach
  <2>1. cmd.pc = "monitor" /\ End("detached") /\ latest' = [job |-> cmd.job, status |-> "detached"]
    BY <1>2 DEF Detach
  <2>2. "detached" \in LatestTexts \ {"absent"}
    BY DEF LatestTexts
  <2>. QED
    BY <1>0, <2>1, <2>2, SavedOnRecord, EndKept DEF Outcomes
<1>3. CASE Recheck
  <2>1. cmd.pc = "failed" /\ End(cmd.cause) /\ latest' = [job |-> cmd.job, status |-> Status(j)]
    BY <1>3 DEF Recheck
  <2>2. /\ cmd.cause \in {"job_failed", "aws_error"}
        /\ cmd.cause = "job_failed" => j.phase \in Terminal
    BY <2>1 DEF Inv, Attached
  <2>3. Status(j) \in LatestTexts \ {"absent"} /\ (j.phase \in Terminal => Status(j) = j.phase)
    BY <1>1, <2>1, StatusTypes
  <2>4. latest' \in [job : 0..Len(jobs), status : LatestTexts] /\ LiveJobIsOnRecord'
    BY <1>0, <2>1, <2>3, SavedOnRecord
  <2>5. cmd.cause = "job_failed" =>
          /\ cmd.job \in DOMAIN jobs /\ j.phase \in Terminal
          /\ latest' = [job |-> cmd.job, status |-> j.phase]
    BY <1>1, <2>1, <2>2, <2>3
  <2>. QED
    BY <1>0, <2>1, <2>2, <2>4, <2>5, EndKept DEF Outcomes, Causes
<1>4. CASE SaveCompleted
  <2>1. /\ cmd.pc = "save" /\ cmd' = [cmd EXCEPT !.pc = "gate"]
        /\ latest' = [job |-> cmd.job, status |-> "Completed"]
    BY <1>4 DEF SaveCompleted, Goto
  <2>2. "Completed" \in LatestTexts \ {"absent"}
    BY DEF LatestTexts, Terminal
  <2>3. latest' \in [job : 0..Len(jobs), status : LatestTexts] /\ LiveJobIsOnRecord'
    BY <1>0, <2>1, <2>2, SavedOnRecord
  <2>4. Guarded /\ cmd.outcome = "none" /\ j.phase = "Completed"
    BY <2>1 DEF Inv, Guarded, Attached
  <2>5. /\ cmd' \in CommandRecords /\ cmd'.pc = "gate" /\ cmd'.job = cmd.job
        /\ cmd'.plan = cmd.plan /\ cmd'.ceiling = cmd.ceiling /\ cmd'.outcome = "none"
    BY <1>0, <2>1, <2>4 DEF CommandRecords, Pcs
  <2>6. Guarded' /\ Alone' /\ OnTime'
    BY <2>1, <2>4, <2>5 DEF Guarded, Alone, OnTime, Bounded, Affordable, MonitorCeiling
  <2>7. Attached'
    BY <1>0, <1>1, <2>1, <2>4, <2>5 DEF Attached, Live, Status
  <2>. QED
    BY <1>0, <2>3, <2>5, <2>6, <2>7, GoingOnKept
<1>5. CASE Verify
  <2>1. PICK o \in {"verified", "unverified"} : End(o)
    BY <1>5 DEF Verify
  <2>2. cmd.pc = "gate" /\ latest' = latest
    BY <1>5 DEF Verify
  <2>3. /\ cmd.job \in DOMAIN jobs /\ j.phase \in Terminal
        /\ latest = [job |-> cmd.job, status |-> j.phase]
    BY <2>2 DEF Inv, Attached, Terminal
  <2>4. latest' \in [job : 0..Len(jobs), status : LatestTexts]
    BY <2>2 DEF Inv, TypeInv
  <2>5. LiveJobIsOnRecord'
    BY <1>0, <2>2 DEF Inv, LiveJobIsOnRecord, Live, Status
  <2>. QED
    BY <1>0, <2>1, <2>2, <2>3, <2>4, <2>5, EndKept DEF Outcomes
<1>. QED
  BY <1>2, <1>3, <1>4, <1>5
-----------------------------------------------------------------------------
(***************************************************************************)
(* SageMaker, and the time.                                                *)
(***************************************************************************)
\* What a live job may become; one that has ended stays as it is.
Evolves(a, b) ==
  /\ b.mode = a.mode /\ b.runtime = a.runtime /\ b.named = a.named
  /\ b.age <= Limit(b)
  /\ ~Live(a) => b = a
  /\ Status(b) = "InProgress" => Status(a) = "InProgress"

\* Jobs that evolve disturb nothing but the monitor's account of the time.
LEMMA JobsEvolve ==
  ASSUME Inv, jobs' \in Seq(JobRecords), Len(jobs') = Len(jobs),
         \A i \in DOMAIN jobs : Evolves(jobs[i], jobs'[i]),
         UNCHANGED <<writers, latest>>, cmd' \in CommandRecords,
         \A f \in {"pc", "plan", "ceiling", "listed", "active", "job", "cause", "outcome"} :
           cmd'[f] = cmd[f],
         cmd.pc # "monitor" => cmd'.elapsed = cmd.elapsed,
         OnTime'
  PROVE  Inv'
<1>0. TypeInv /\ DOMAIN jobs' = DOMAIN jobs /\ Len(jobs) \in Nat /\ DOMAIN jobs = 1..Len(jobs)
  BY JobFacts, LenProperties DEF Inv
<1>1. /\ cmd'.pc = cmd.pc /\ cmd'.plan = cmd.plan /\ cmd'.ceiling = cmd.ceiling
      /\ cmd'.listed = cmd.listed /\ cmd'.active = cmd.active /\ cmd'.job = cmd.job
      /\ cmd'.cause = cmd.cause /\ cmd'.outcome = cmd.outcome
  OBVIOUS
<1>2. \A i \in DOMAIN jobs :
        /\ Live(jobs'[i]) => Live(jobs[i])
        /\ ~Live(jobs[i]) => jobs'[i] = jobs[i]
        /\ jobs'[i].mode = jobs[i].mode /\ jobs'[i].runtime = jobs[i].runtime
        /\ jobs'[i].named = jobs[i].named /\ jobs'[i].age <= Limit(jobs'[i])
        /\ Status(jobs'[i]) = "InProgress" => Status(jobs[i]) = "InProgress"
  BY DEF Evolves
<1>3. TypeInv'
  BY <1>0, <1>1, <1>2 DEF TypeInv, Limit
<1>4. Guarded'
  BY <1>1 DEF Inv, Guarded, Bounded, Affordable, MonitorCeiling
<1>5. Alone'
  <2>1. Alone
    BY DEF Inv
  <2>2. cmd.pc = "list" /\ cmd.listed = 1 /\ ~cmd.active =>
          \A i \in DOMAIN jobs' : Status(jobs'[i]) # "InProgress"
    BY <1>0, <1>2, <2>1 DEF Alone
  <2>3. cmd.pc \in {"prefix", "launching", "submit"} => \A i \in DOMAIN jobs' : ~Live(jobs'[i])
    BY <1>0, <1>2, <2>1 DEF Alone
  <2>. QED
    BY <1>1, <2>1, <2>2, <2>3 DEF Alone, Live, Status
<1>6. Attached'
  <2>1. Attached
    BY DEF Inv
  <2>2. CASE cmd.pc \in {"named", "monitor", "failed", "save", "gate"}
    <3>1. /\ cmd.job \in DOMAIN jobs'
          /\ \A i \in DOMAIN jobs' : Live(jobs'[i]) => i = cmd.job
          /\ jobs'[cmd.job].runtime = cmd.plan.runtime
          /\ cmd.pc # "named" => jobs'[cmd.job].named
      BY <1>0, <1>2, <2>1, <2>2 DEF Attached
    <3>2. jobs[cmd.job].phase \in Terminal => jobs'[cmd.job] = jobs[cmd.job]
      BY <1>0, <1>2, <3>1 DEF Live, Status, Terminal, InProgress
    <3>. QED
      BY <1>1, <2>1, <2>2, <3>1, <3>2 DEF Attached, Live, Status, Terminal
  <2>3. CASE cmd.pc \notin {"named", "monitor", "failed", "save", "gate"}
    BY <1>1, <2>3 DEF Attached
  <2>. QED
    BY <2>2, <2>3
<1>7. OneLive'
  <2>1. OneLive
    BY DEF Inv
  <2>2. \A i, k \in DOMAIN jobs' : Live(jobs'[i]) /\ Live(jobs'[k]) => i = k
    BY <1>0, <1>2, <2>1 DEF OneLive
  <2>3. \A i \in DOMAIN jobs' : Live(jobs'[i]) => writers[jobs'[i].mode] \subseteq {i}
    BY <1>0, <1>2, <2>1 DEF OneLive
  <2>. QED
    BY <2>1, <2>2, <2>3 DEF OneLive, Live, Status
<1>8. LiveJobIsOnRecord'
  <2>1. \A i \in DOMAIN jobs' : Live(jobs'[i]) =>
          latest.job = (IF jobs'[i].named THEN i ELSE 0) /\ latest.status # "absent"
    BY <1>0, <1>2 DEF Inv, LiveJobIsOnRecord
  <2>. QED
    BY <2>1 DEF LiveJobIsOnRecord, Live, Status
<1>9. Named' /\ MonitorSeesTheEnd'
  <2>1. Named /\ MonitorSeesTheEnd
    BY DEF Inv
  <2>2. CASE cmd.outcome \in {"verified", "unverified", "job_failed"}
    <3>1. cmd.job \in DOMAIN jobs /\ jobs[cmd.job].phase \in Terminal
      BY <2>1, <2>2 DEF Named, MonitorSeesTheEnd
    <3>2. jobs'[cmd.job] = jobs[cmd.job]
      BY <1>2, <3>1 DEF Live, Status, Terminal, InProgress
    <3>. QED
      BY <1>0, <1>1, <2>1, <2>2, <3>1, <3>2 DEF Named, MonitorSeesTheEnd
  <2>3. CASE cmd.outcome \notin {"verified", "unverified", "job_failed"}
    BY <1>1, <2>1, <2>3 DEF Named, MonitorSeesTheEnd
  <2>. QED
    BY <2>2, <2>3
<1>. QED
  BY <1>3, <1>4, <1>5, <1>6, <1>7, <1>8, <1>9 DEF Inv

\* One job becomes r, and has been there no less for it.
LEMMA JobBecomes ==
  ASSUME Inv, NEW i \in DOMAIN jobs, NEW r \in JobRecords, jobs' = [jobs EXCEPT ![i] = r],
         UNCHANGED <<cmd, writers, latest>>,
         Live(jobs[i]), Evolves(jobs[i], r), Live(r) => Spent(r) >= Spent(jobs[i])
  PROVE  Inv'
<1>1. /\ TypeInv /\ cmd \in CommandRecords /\ jobs \in Seq(JobRecords) /\ i \in 1..Len(jobs)
      /\ \A k \in DOMAIN jobs : jobs[k] \in JobRecords /\ jobs[k].age <= Limit(jobs[k])
  BY JobFacts DEF Inv, TypeInv
<1>2. /\ jobs' \in Seq(JobRecords) /\ Len(jobs') = Len(jobs) /\ DOMAIN jobs' = DOMAIN jobs
      /\ jobs'[i] = r /\ \A k \in DOMAIN jobs : k # i => jobs'[k] = jobs[k]
  BY <1>1, Replaced
<1>3. \A k \in DOMAIN jobs : Evolves(jobs[k], jobs'[k])
  BY <1>1, <1>2 DEF Evolves
<1>4. OnTime'
  <2>1. SUFFICES ASSUME cmd.pc = "monitor"
                 PROVE  OnTime'
    BY DEF OnTime
  <2>2. cmd.job \in DOMAIN jobs /\ i = cmd.job
    BY <2>1 DEF Inv, Attached
  <2>3. cmd.elapsed <= Spent(jobs[i]) /\ cmd.elapsed \in Nat /\ cmd.slept \in Nat
    BY <1>1, <2>1, <2>2, Limits DEF Inv, OnTime, CommandRecords
  <2>4. /\ Spent(jobs[i]) \in Nat /\ Spent(jobs[i]) <= PendingLimit + jobs[i].runtime + UploadLimit
        /\ jobs[i].runtime \in Nat
    BY <1>1, Spans
  <2>5. Spent(r) \in Nat
    BY Spans DEF Evolves
  <2>6. r.runtime = jobs[i].runtime
    BY DEF Evolves
  <2>7. cmd.elapsed <= PendingLimit + r.runtime + UploadLimit + cmd.slept
    BY <2>3, <2>4, <2>6, Limits
  <2>8. Live(r) => cmd.elapsed <= Spent(r)
    BY <2>3, <2>4, <2>5
  <2>9. cmd.elapsed <= IF Live(r) THEN Spent(r)
                       ELSE PendingLimit + r.runtime + UploadLimit + cmd.slept
    BY <2>7, <2>8
  <2>. QED
    BY <1>2, <2>2, <2>9 DEF OnTime, Live, Status, Spent
<1>. QED
  BY <1>1, <1>2, <1>3, <1>4, JobsEvolve
LEMMA BecomeKept ==
  ASSUME Inv, NEW i \in DOMAIN jobs, NEW p, UNCHANGED <<cmd, writers, latest>>, Become(i, p),
         \/ p = "Running" /\ jobs[i].phase = "Pending"
         \/ p = "Stopping" /\ jobs[i].phase \in {"Pending", "Running"}
         \/ p = "Failed" /\ jobs[i].phase \in InProgress
         \/ p = "Completed" /\ jobs[i].phase = "Uploading"
         \/ p = "Stopped" /\ jobs[i].phase = "Stopping"
  PROVE  Inv'
<1>. DEFINE a == jobs[i]
            r == [a EXCEPT !.phase = p, !.age = 0]
<1>1. a \in JobRecords /\ a.age <= Limit(a)
  BY JobFacts DEF Inv, TypeInv
<1>2. p \in Phases /\ a.phase \in InProgress \cup {"Stopping"}
  BY DEF Phases, InProgress, Terminal
<1>3. /\ r \in JobRecords /\ r.phase = p /\ r.age = 0 /\ r.mode = a.mode
      /\ r.runtime = a.runtime /\ r.named = a.named
  BY <1>1, <1>2 DEF JobRecords
<1>4. jobs' = [jobs EXCEPT ![i] = r]
  BY DEF Become
<1>5. Live(a)
  BY <1>2 DEF Live, Status, InProgress, Terminal
<1>6. r.age <= Limit(r) /\ Limit(a) \in Nat /\ a.age \in Nat /\ a.runtime \in Nat
  BY <1>1, <1>3, Limits DEF Limit, JobRecords
<1>7. Status(r) = "InProgress" => Status(a) = "InProgress"
  BY <1>3 DEF Status, InProgress
<1>8. Evolves(a, r)
  BY <1>3, <1>5, <1>6, <1>7 DEF Evolves
<1>9. Live(r) => Spent(r) >= Spent(a)
  <2>1. CASE p = "Running" /\ a.phase = "Pending"
    BY <1>1, <1>3, <1>6, <2>1, Limits DEF Spent, Limit
  <2>2. CASE p = "Stopping" /\ a.phase \in {"Pending", "Running"}
    <3>1. a.age <= PendingLimit + a.runtime /\ Spent(r) = PendingLimit + a.runtime
      BY <1>1, <1>3, <1>6, <2>2, Limits DEF Spent, Limit
    <3>2. Spent(a) <= PendingLimit + a.runtime
      BY <1>1, <1>6, <2>2, Limits DEF Spent, Limit
    <3>. QED
      BY <3>1, <3>2, <1>6, Limits
  <2>3. CASE p \in {"Failed", "Completed", "Stopped"}
    BY <1>3, <2>3 DEF Live, Status, InProgress, Terminal
  <2>. QED
    BY <2>1, <2>2, <2>3
<1>. QED
  <2>. HIDE DEF r
  <2>. QED
    BY <1>3, <1>4, <1>5, <1>8, <1>9, JobBecomes

\* The container's objects: only a live job writes, into a prefix of its own.
LEMMA WritesKept ==
  ASSUME Inv, NEW i \in DOMAIN jobs, JobWrites(i), UNCHANGED <<cmd, latest>>
  PROVE  Inv'
<1>. DEFINE m == jobs[i].mode
<1>0. TypeInv /\ jobs[i] \in JobRecords /\ m \in Modes /\ writers \in [Modes -> SUBSET DOMAIN jobs]
  BY JobFacts DEF Inv, TypeInv, JobRecords
<1>1. /\ writers' = [writers EXCEPT ![m] = writers[m] \cup {i}] /\ jobs' = jobs
      /\ cmd' = cmd /\ latest' = latest /\ Live(jobs[i])
  BY DEF JobWrites, Live, Status, InProgress, Terminal
<1>2. writers[m] \subseteq {i}
  BY <1>1 DEF Inv, OneLive
<1>3. writers'[m] = {i} /\ \A k \in Modes : k # m => writers'[k] = writers[k]
  BY <1>0, <1>1, <1>2
<1>4. TypeInv'
  <2>1. writers' \in [Modes -> SUBSET DOMAIN jobs]
    BY <1>0, <1>1
  <2>. QED
    BY <1>0, <1>1, <2>1 DEF TypeInv, Limit
<1>5. Guarded' /\ OnTime' /\ Named' /\ MonitorSeesTheEnd' /\ LiveJobIsOnRecord'
  BY <1>1 DEF Inv, Guarded, OnTime, Named, MonitorSeesTheEnd, LiveJobIsOnRecord,
              Bounded, Affordable, MonitorCeiling, Live, Status, Spent
<1>6. Alone'
  <2>1. Alone
    BY DEF Inv
  <2>2. cmd.pc \notin {"prefix", "launching", "submit"}
    BY <1>1, <2>1 DEF Alone
  <2>. QED
    BY <1>1, <2>1, <2>2 DEF Alone, Live, Status
<1>7. Attached'
  BY <1>1 DEF Inv, Attached, Live, Status
<1>8. OneLive'
  <2>1. OneLive
    BY DEF Inv
  <2>2. \A k \in DOMAIN jobs : Live(jobs[k]) => k = i
    BY <1>1, <2>1 DEF OneLive
  <2>3. \A k \in DOMAIN jobs : Live(jobs[k]) => writers'[jobs[k].mode] \subseteq {k}
    BY <1>3, <2>2
  <2>4. \A k \in Modes : \A x, y \in writers'[k] : x = y
    BY <1>3, <2>1 DEF OneLive
  <2>. QED
    BY <1>1, <2>1, <2>3, <2>4 DEF OneLive, Live, Status
<1>. QED
  BY <1>4, <1>5, <1>6, <1>7, <1>8 DEF Inv

LEMMA ExitsKept ==
  ASSUME Inv, NEW i \in DOMAIN jobs, JobExits(i), UNCHANGED <<cmd, latest>>
  PROVE  Inv'
<1>. DEFINE a == jobs[i]
<1>1. a \in JobRecords /\ a.age <= Limit(a) /\ a.phase = "Running" /\ a.mode \in Modes
  BY JobFacts DEF Inv, TypeInv, JobExits, JobRecords
<1>2. PICK e \in Artifacts[a.mode] :
        jobs' = [jobs EXCEPT ![i].phase = "Uploading", ![i].age = 0, ![i].artifact = e]
  BY DEF JobExits
<1>. DEFINE r == [a EXCEPT !.phase = "Uploading", !.age = 0, !.artifact = e]
<1>3. e \in Leftovers
  BY <1>1 DEF Leftovers
<1>4. /\ r \in JobRecords /\ r.phase = "Uploading" /\ r.age = 0 /\ r.mode = a.mode
      /\ r.runtime = a.runtime /\ r.named = a.named
  BY <1>1, <1>3 DEF JobRecords, Phases, InProgress
<1>5. jobs' = [jobs EXCEPT ![i] = r] /\ UNCHANGED <<cmd, writers, latest>>
  BY <1>2 DEF JobExits
<1>6. Live(a) /\ Status(a) = "InProgress"
  BY <1>1 DEF Live, Status, InProgress, Terminal
<1>7. r.age <= Limit(r) /\ a.age \in Nat /\ a.runtime \in Nat
  BY <1>1, <1>4, Limits DEF Limit, JobRecords
<1>8. Evolves(a, r)
  BY <1>4, <1>6, <1>7 DEF Evolves
<1>9. Spent(r) >= Spent(a)
  BY <1>1, <1>4, <1>7, Limits DEF Spent, Limit
<1>. QED
  <2>. HIDE DEF r
  <2>. QED
    BY <1>4, <1>5, <1>6, <1>8, <1>9, JobBecomes

LEMMA JobKept == ASSUME Inv, NEW i \in DOMAIN jobs, Job(i) PROVE Inv'
<1>0. UNCHANGED <<cmd, latest>>
  BY DEF Job
<1>1. CASE JobStarts(i)
  BY <1>0, <1>1, BecomeKept DEF JobStarts
<1>2. CASE JobStopped(i)
  BY <1>0, <1>2, BecomeKept DEF JobStopped
<1>3. CASE JobFails(i)
  BY <1>0, <1>3, BecomeKept DEF JobFails
<1>4. CASE JobEnds(i)
  BY <1>0, <1>4, BecomeKept DEF JobEnds
<1>5. CASE JobWrites(i)
  BY <1>0, <1>5, WritesKept
<1>6. CASE JobExits(i)
  BY <1>0, <1>6, ExitsKept
<1>. QED
  BY <1>1, <1>2, <1>3, <1>4, <1>5, <1>6 DEF Job
\* The job grows older, and the monitor waits, by the same unit.
LEMMA TickKept == ASSUME Inv, Tick PROVE Inv'
<1>. DEFINE older(j) == IF Live(j) THEN [j EXCEPT !.age = @ + 1] ELSE j
<1>0. /\ TypeInv /\ cmd \in CommandRecords /\ DOMAIN jobs = 1..Len(jobs) /\ Len(jobs) \in Nat
      /\ \A i \in DOMAIN jobs : jobs[i] \in JobRecords /\ jobs[i].age <= Limit(jobs[i])
      /\ UNCHANGED <<writers, latest>>
  BY JobFacts DEF Inv, TypeInv, Tick
<1>1. /\ jobs' = [i \in DOMAIN jobs |-> older(jobs[i])]
      /\ \A i \in DOMAIN jobs : Live(jobs[i]) => jobs[i].age < Limit(jobs[i])
  BY DEF Tick
<1>2. \A i \in DOMAIN jobs : jobs[i].age \in Nat /\ jobs[i].runtime \in Nat /\ Limit(jobs[i]) \in Nat
  BY <1>0, Limits DEF JobRecords, Limit
<1>3. \A i \in DOMAIN jobs : Live(jobs[i]) =>
        LET b == [jobs[i] EXCEPT !.age = jobs[i].age + 1] IN
        /\ b \in JobRecords /\ b.phase = jobs[i].phase /\ b.mode = jobs[i].mode
        /\ b.runtime = jobs[i].runtime /\ b.named = jobs[i].named /\ b.age = jobs[i].age + 1
  <2>1. SUFFICES ASSUME NEW i \in DOMAIN jobs
                 PROVE  LET b == [jobs[i] EXCEPT !.age = jobs[i].age + 1] IN
                        /\ b \in JobRecords /\ b.phase = jobs[i].phase /\ b.mode = jobs[i].mode
                        /\ b.runtime = jobs[i].runtime /\ b.named = jobs[i].named
                        /\ b.age = jobs[i].age + 1
    OBVIOUS
  <2>2. jobs[i] \in JobRecords /\ jobs[i].age + 1 \in Nat
    BY <1>0, <1>2
  <2>. QED
    BY <2>2 DEF JobRecords
<1>4. \A i \in DOMAIN jobs :
        /\ jobs'[i] \in JobRecords /\ jobs'[i].phase = jobs[i].phase /\ jobs'[i].mode = jobs[i].mode
        /\ jobs'[i].runtime = jobs[i].runtime /\ jobs'[i].named = jobs[i].named
        /\ jobs'[i].age = (IF Live(jobs[i]) THEN jobs[i].age + 1 ELSE jobs[i].age)
        /\ ~Live(jobs[i]) => jobs'[i] = jobs[i]
  BY <1>0, <1>1, <1>3
<1>5. jobs' \in Seq(JobRecords) /\ Len(jobs') = Len(jobs) /\ DOMAIN jobs' = DOMAIN jobs
  <2>1. jobs' \in [1..Len(jobs) -> JobRecords]
    BY <1>0, <1>1, <1>4
  <2>. QED
    BY <1>0, <2>1
<1>6. \A i \in DOMAIN jobs : Evolves(jobs[i], jobs'[i])
  BY <1>0, <1>1, <1>2, <1>4 DEF Evolves, Limit, Status, Live
<1>7. CASE cmd.pc = "monitor"
  <2>. DEFINE k == cmd.job
  <2>1. cmd.slept < PollTime /\ cmd' = [cmd EXCEPT !.elapsed = cmd.elapsed + 1, !.slept = cmd.slept + 1]
    BY <1>7 DEF Tick, Waiting
  <2>2. cmd.elapsed \in Nat /\ cmd.slept \in 0..PollTime
    BY <1>0 DEF CommandRecords
  <2>3. cmd.slept + 1 \in 0..PollTime /\ cmd.elapsed + 1 \in Nat
    BY <2>1, <2>2, Limits
  <2>4. /\ cmd' \in CommandRecords /\ cmd'.elapsed = cmd.elapsed + 1 /\ cmd'.slept = cmd.slept + 1
        /\ \A f \in {"pc", "plan", "ceiling", "listed", "active", "job", "cause", "outcome"} :
             cmd'[f] = cmd[f]
    BY <1>0, <2>1, <2>3 DEF CommandRecords
  <2>5. k \in DOMAIN jobs
    BY <1>7 DEF Inv, Attached
  <2>6. cmd.elapsed <= IF Live(jobs[k]) THEN Spent(jobs[k])
                       ELSE PendingLimit + jobs[k].runtime + UploadLimit + cmd.slept
    BY <1>7 DEF Inv, OnTime
  <2>7. Live(jobs'[k]) <=> Live(jobs[k])
    BY <1>4, <2>5 DEF Live, Status
  <2>8. Live(jobs[k]) => Spent(jobs'[k]) = Spent(jobs[k]) + 1
    BY <1>2, <1>4, <2>5, Limits DEF Spent
  <2>9. Spent(jobs[k]) \in Nat /\ jobs'[k].runtime = jobs[k].runtime /\ jobs[k].runtime \in Nat
    BY <1>0, <1>4, <2>5, Spans
  <2>10. cmd.elapsed + 1 <= IF Live(jobs'[k]) THEN Spent(jobs'[k])
                            ELSE PendingLimit + jobs'[k].runtime + UploadLimit + (cmd.slept + 1)
    BY <2>2, <2>6, <2>7, <2>8, <2>9, Limits
  <2>11. cmd'.job = k /\ cmd'.elapsed = cmd.elapsed + 1 /\ cmd'.slept = cmd.slept + 1
    BY <2>4
  <2>12. OnTime'
    BY <2>10, <2>11 DEF OnTime, Live, Status, Spent
  <2>. QED
    BY <1>0, <1>5, <1>6, <1>7, <2>4, <2>12, JobsEvolve
<1>8. CASE cmd.pc # "monitor"
  <2>1. cmd' = cmd
    BY <1>8 DEF Tick, Waiting
  <2>2. OnTime'
    BY <1>8, <2>1 DEF OnTime
  <2>. QED
    BY <1>0, <1>5, <1>6, <1>8, <2>1, <2>2, JobsEvolve
<1>. QED
  BY <1>7, <1>8

LEMMA SleepKept == ASSUME Inv, Sleep PROVE Inv'
<1>0. /\ TypeInv /\ cmd \in CommandRecords /\ cmd.pc = "monitor" /\ cmd.slept < PollTime
      /\ (\A i \in DOMAIN jobs : ~Live(jobs[i])) /\ UNCHANGED <<jobs, writers, latest>>
      /\ cmd' = [cmd EXCEPT !.elapsed = cmd.elapsed + 1, !.slept = cmd.slept + 1]
  BY DEF Inv, TypeInv, Sleep, Waiting
<1>1. cmd.elapsed \in Nat /\ cmd.slept \in 0..PollTime
  BY <1>0 DEF CommandRecords
<1>2. cmd.slept + 1 \in 0..PollTime /\ cmd.elapsed + 1 \in Nat
  BY <1>0, <1>1, Limits
<1>3. Guarded /\ cmd.outcome = "none"
  BY <1>0 DEF Inv, Guarded
<1>4. /\ cmd' \in CommandRecords /\ cmd'.elapsed = cmd.elapsed + 1 /\ cmd'.slept = cmd.slept + 1
      /\ cmd'.pc = "monitor" /\ cmd'.job = cmd.job
      /\ cmd'.plan = cmd.plan /\ cmd'.ceiling = cmd.ceiling /\ cmd'.outcome = "none"
  BY <1>0, <1>2, <1>3 DEF CommandRecords
<1>5. Guarded' /\ Alone'
  BY <1>0, <1>3, <1>4 DEF Guarded, Alone, Bounded, Affordable, MonitorCeiling
<1>6. Attached /\ cmd.job \in DOMAIN jobs
  BY <1>0 DEF Inv, Attached
<1>7. Attached'
  BY <1>0, <1>4, <1>6 DEF Attached, Live, Status
<1>8. OnTime'
  <2>1. ~Live(jobs[cmd.job]) /\ jobs[cmd.job].runtime \in Nat
    BY <1>0, <1>6, JobFacts DEF JobRecords
  <2>2. cmd.elapsed <= PendingLimit + jobs[cmd.job].runtime + UploadLimit + cmd.slept
    BY <1>0, <2>1 DEF Inv, OnTime
  <2>3. cmd.elapsed + 1 <= PendingLimit + jobs[cmd.job].runtime + UploadLimit + (cmd.slept + 1)
    BY <1>1, <2>1, <2>2, Limits
  <2>. QED
    BY <1>0, <1>4, <2>1, <2>3 DEF OnTime, Live, Status, Spent
<1>. QED
  BY <1>0, <1>4, <1>5, <1>7, <1>8, QuietKept

-----------------------------------------------------------------------------
LEMMA Initially == Init => Inv
<1>1. SUFFICES ASSUME Init PROVE Inv
  OBVIOUS
<1>2. /\ cmd = Idle /\ jobs = << >> /\ writers = [m \in Modes |-> {}]
      /\ latest = [job |-> 0, status |-> "absent"]
  BY <1>1 DEF Init
<1>3. /\ jobs \in Seq(JobRecords) /\ Len(jobs) = 0 /\ DOMAIN jobs = {}
  BY <1>2
<1>4. cmd.job = 0 /\ cmd.pc = "idle" /\ cmd.outcome = "none" /\ cmd \in CommandRecords
  BY <1>2, IdleType DEF Idle
<1>5. TypeInv
  BY <1>2, <1>3, <1>4, Limits DEF TypeInv, LatestTexts
<1>6. Guarded /\ Alone /\ Attached /\ OnTime /\ Named /\ MonitorSeesTheEnd
  BY <1>4 DEF Guarded, Alone, Attached, OnTime, Named, MonitorSeesTheEnd
<1>7. OneLive /\ LiveJobIsOnRecord
  BY <1>2, <1>3 DEF OneLive, LiveJobIsOnRecord
<1>. QED
  BY <1>5, <1>6, <1>7 DEF Inv

LEMMA Inductive == Inv /\ [Next]_vars => Inv'
<1>. SUFFICES ASSUME Inv, [Next]_vars PROVE Inv'
  OBVIOUS
<1>1. CASE Start
  BY <1>1, StartKept
<1>2. CASE Throttled \/ QuotaAnswer \/ List \/ CheckPrefix
  BY <1>2, LookingKept
<1>3. CASE SaveLaunching
  BY <1>3, LaunchingKept
<1>4. CASE SubmitRefused
  BY <1>4, RefusalKept DEF SubmitRefused
<1>5. CASE Submit
  BY <1>5, SubmitKept
<1>6. CASE SaveNamed
  BY <1>6, SaveNamedKept
<1>7. CASE Poll \/ PollFails
  BY <1>7, PollingKept
<1>8. CASE Detach \/ Recheck \/ SaveCompleted \/ Verify
  BY <1>8, SavingKept
<1>9. CASE RecheckFails
  BY <1>9, RefusalKept DEF RecheckFails
<1>10. CASE Crash
  BY <1>10, RefusalKept DEF Crash
<1>11. CASE Tick
  BY <1>11, TickKept
<1>12. CASE Sleep
  BY <1>12, SleepKept
<1>13. CASE \E i \in DOMAIN jobs : Job(i)
  BY <1>13, JobKept
<1>14. CASE UNCHANGED vars
  <2>1. cmd' = cmd /\ jobs' = jobs /\ writers' = writers /\ latest' = latest
    BY <1>14 DEF vars
  <2>2. TypeInv'
    BY <2>1 DEF Inv, TypeInv, Limit
  <2>3. Guarded' /\ Alone' /\ Attached'
    BY <2>1 DEF Inv, Guarded, Alone, Attached, Live, Status, Bounded, Affordable, MonitorCeiling
  <2>4. OnTime' /\ Named' /\ OneLive'
    BY <2>1 DEF Inv, OnTime, Named, OneLive, Live, Status, Spent
  <2>5. LiveJobIsOnRecord' /\ MonitorSeesTheEnd'
    BY <2>1 DEF Inv, LiveJobIsOnRecord, MonitorSeesTheEnd, Live, Status
  <2>. QED
    BY <2>2, <2>3, <2>4, <2>5 DEF Inv
<1>. QED
  BY <1>1, <1>2, <1>3, <1>4, <1>5, <1>6, <1>7, <1>8, <1>9, <1>10, <1>11, <1>12, <1>13, <1>14
     DEF Next, Command

LEMMA Always == Spec => []Inv
  BY Initially, Inductive, PTL DEF Spec

-----------------------------------------------------------------------------
\* The command, the jobs, the prefixes and latest.json hold what the code puts
\* there: at most five questions to Service Quotas, no plan the guards refuse,
\* no job older than its limits (run_oracle_reader.py, sagemaker_monitor.py).
THEOREM TypeCorrect == Spec => []TypeOK
<1>1. Inv => TypeOK
  <2>1. SUFFICES ASSUME Inv PROVE TypeOK
    OBVIOUS
  <2>2. /\ cmd \in CommandRecords /\ cmd.job <= Len(jobs) /\ Len(jobs) \in Nat /\ Len(jobs) <= MaxJobs
        /\ \A i \in DOMAIN jobs : /\ jobs[i] \in JobRecords
                                  /\ jobs[i].age <= Limit(jobs[i]) /\ jobs[i].runtime <= HourLimit
        /\ writers \in [Modes -> SUBSET DOMAIN jobs]
        /\ latest \in [job : 0..Len(jobs), status : LatestTexts]
    BY <2>1, JobFacts DEF Inv, TypeInv
  <2>3. /\ cmd.pc \in Pcs /\ cmd.count \in 0..MaxCommands
        /\ cmd.plan \in Plans /\ cmd.ceiling \in Nat
        /\ cmd.tries \in 0..4 /\ cmd.listed \in 0..1 /\ cmd.active \in BOOLEAN
        /\ cmd.elapsed \in Nat /\ cmd.slept \in 0..PollTime
        /\ cmd.cause \in Causes \cup {"none"} /\ cmd.outcome \in Outcomes \cup {"none"}
        /\ cmd.job \in Nat
    BY <2>2 DEF CommandRecords
  <2>4. cmd.job \in 0..Len(jobs)
    BY <2>2, <2>3
  <2>5. cmd.pc # "idle" => Bounded(cmd.plan) /\ Affordable(cmd.plan)
    BY <2>1 DEF Inv, Guarded
  <2>6. \A i \in DOMAIN jobs :
          /\ jobs[i].phase \in InProgress \cup Terminal \cup {"Stopping"}
          /\ jobs[i].age \in 0..Limit(jobs[i])
          /\ jobs[i].runtime <= HourLimit
    <3>1. SUFFICES ASSUME NEW i \in DOMAIN jobs
                   PROVE  /\ jobs[i].phase \in InProgress \cup Terminal \cup {"Stopping"}
                          /\ jobs[i].age \in 0..Limit(jobs[i])
      BY <2>2
    <3>2. jobs[i].phase \in Phases /\ jobs[i].age \in Nat /\ jobs[i].runtime \in Nat
      BY <2>2 DEF JobRecords
    <3>3. Limit(jobs[i]) \in Nat
      BY <3>2, Limits DEF Limit
    <3>. QED
      BY <2>2, <3>2, <3>3 DEF Phases
  <2>7. latest.job \in 0..Len(jobs) /\ latest.status \in LatestTexts
    BY <2>2
  <2>. QED
    BY <2>2, <2>3, <2>4, <2>5, <2>6, <2>7 DEF TypeOK, LatestTexts
<1>. QED
  BY <1>1, Always, PTL

\* However invocations are killed, refused or interrupted and however slowly a
\* job dies, the objects under an output prefix are those of one job
\* (run_oracle_reader.py:250-262, sagemaker_monitor.py:113).
THEOREM OneWriterPerPrefix == Spec => []PrefixHasOneWriter
<1>1. Inv => PrefixHasOneWriter
  <2>1. SUFFICES ASSUME Inv, NEW m \in Modes PROVE Cardinality(writers[m]) <= 1
    BY DEF PrefixHasOneWriter
  <2>2. \A i, j \in writers[m] : i = j
    BY <2>1 DEF Inv, OneLive
  <2>3. CASE writers[m] = {}
    BY <2>3, FS_EmptySet
  <2>4. CASE writers[m] # {}
    <3>1. PICK i : writers[m] = {i}
      BY <2>2, <2>4
    <3>2. Cardinality({i}) = 1
      BY FS_Singleton
    <3>. QED
      BY <3>1, <3>2
  <2>. QED
    BY <2>3, <2>4
<1>. QED
  BY <1>1, Always, PTL

\* A paid job that runs is named in latest.json, or announced there if the
\* command was gone before it could name it (run_oracle_reader.py:264-301).
THEOREM RunningJobIsOnRecord == Spec => []LiveJobIsOnRecord
<1>1. Inv => LiveJobIsOnRecord
  BY DEF Inv
<1>. QED
  BY <1>1, Always, PTL

\* The monitor outlasts its job, whatever the limits and the poll interval, and
\* an invocation that reports an end has put it on record
\* (run_oracle_reader.py:111-127, 303-373).
THEOREM MonitorOutlastsTheJob == Spec => []MonitorSeesTheEnd
<1>1. Inv => MonitorSeesTheEnd
  BY DEF Inv
<1>. QED
  BY <1>1, Always, PTL
=============================================================================
