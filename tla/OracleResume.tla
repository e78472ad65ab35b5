---------------------------- MODULE OracleResume ----------------------------
(***************************************************************************)
(* The oracle benchmark and its chain of resumed attempts: the launch      *)
(* command scripts/run_oracle_reader.py, prepare_resume_plan and           *)
(* CheckpointStore of lava/readers/checkpoints.py, and the container's     *)
(* run_oracle_benchmark in lava/readers/benchmark.py.  A fresh job writes  *)
(* under the base prefix; a resumed job writes under a prefix of its own   *)
(* and links it to the prefix it resumes.  All jobs have one checkpoint    *)
(* contract, as prepare_resume_plan requires of a resumed one.             *)
(***************************************************************************)
EXTENDS Naturals, Sequences, FiniteSets

CONSTANTS Commands,     \* launch commands that may be in progress at once
          Jobs,         \* training jobs that may ever be submitted
          Base,         \* the output prefix of a fresh job
          N,            \* questions of the frozen manifest
          Generations,  \* scored answers the model may give to a question
          None,
          MaxAncestry   \* longest ancestry load() follows: 64 in the code

ASSUME ResumeAssumption == /\ N \in Nat \ {0}
                           /\ MaxAncestry \in Nat
                           /\ Base \notin Jobs
                           /\ None \notin Jobs \cup {Base} \cup Generations

Questions == 1..N

ASSUME NoRecords == None \notin [Questions -> Generations]

Prefixes == Jobs \cup {Base}   \* a resumed job's prefix is named for the job

VARIABLES
  \* the bucket, by prefix
  parent,    \* checkpoints/parent.json: the prefix that was resumed
  ckpt,      \* checkpoints/questions/<q>.json
  private,   \* private_records.jsonl
  summary,   \* public_summary.json: the number of reused questions
  \* the training jobs
  status,    \* as SageMaker describes it
  prefix,    \* output_s3_prefix of the job
  source,    \* resume_s3_prefix of the job
  \* the containers
  pc, reused, records, current,
  \* the launch commands
  step, plan

bucket    == <<parent, ckpt, private, summary>>
jobs      == <<status, prefix, source>>
container == <<pc, reused, records, current>>
commands  == <<step, plan>>
vars      == <<bucket, jobs, container, commands>>

Plans == [job : Jobs, prefix : Prefixes, source : Prefixes \cup {None}]

Running == {"load", "link", "question", "save", "records", "summary", "exit"}

TypeOK ==
  /\ parent \in [Prefixes -> Prefixes \cup {None}]
  /\ ckpt \in [Prefixes -> [Questions -> Generations \cup {None}]]
  /\ private \in [Prefixes -> [Questions -> Generations] \cup {None}]
  /\ summary \in [Prefixes -> (0..N) \cup {None}]
  /\ status \in [Jobs -> {"none", "InProgress", "Completed", "Failed"}]
  /\ prefix \in [Jobs -> Prefixes \cup {None}]
  /\ source \in [Jobs -> Prefixes \cup {None}]
  /\ pc \in [Jobs -> Running \cup {"off"}]
  /\ records \in [Jobs -> Seq(Generations)]
  /\ \A j \in Jobs : /\ (pc[j] = "off") = (status[j] # "InProgress")
                     /\ prefix[j] \in {None, Base, j}
                     /\ Len(records[j]) <= N
  /\ reused \in [Jobs -> [Questions -> Generations \cup {None}]]
  /\ current \in [Jobs -> Generations \cup {None}]
  /\ step \in [Commands -> {"idle", "list", "empty", "submit"}]
  /\ plan \in [Commands -> Plans \cup {None}]

Nothing == [q \in Questions |-> None]

Init == /\ parent = [p \in Prefixes |-> None]
        /\ ckpt = [p \in Prefixes |-> Nothing]
        /\ private = [p \in Prefixes |-> None]
        /\ summary = [p \in Prefixes |-> None]
        /\ status = [j \in Jobs |-> "none"]
        /\ prefix = [j \in Jobs |-> None]
        /\ source = [j \in Jobs |-> None]
        /\ pc = [j \in Jobs |-> "off"]
        /\ reused = [j \in Jobs |-> Nothing]
        /\ records = [j \in Jobs |-> << >>]
        /\ current = [j \in Jobs |-> None]
        /\ step = [c \in Commands |-> "idle"]
        /\ plan = [c \in Commands |-> None]

-----------------------------------------------------------------------------
(***************************************************************************)
(* CheckpointStore.load: the answers of a prefix and of every prefix it    *)
(* descends from, or an exception.                                         *)
(***************************************************************************)
\* A prefix and its ancestors: what is in every set that holds p and the
\* parent of each of its members.
ClosedUnderParent(S) == \A x \in S : parent[x] \in S \cup {None}

Lineage(p) == {x \in Prefixes : \A S \in SUBSET Prefixes :
                                  p \in S /\ ClosedUnderParent(S) => x \in S}

Held(p, q) == {ckpt[x][q] : x \in Lineage(p)} \ {None}

Cyclic(p)        == \E x \in Lineage(p) : parent[x] # None /\ x \in Lineage(parent[x])
Contradictory(p) == \E q \in Questions : Cardinality(Held(p, q)) > 1

Loadable(p) == /\ ~Cyclic(p)
               /\ ~Contradictory(p)
               /\ Cardinality(Lineage(p)) <= MaxAncestry

Load(p) == [q \in Questions |->
              IF Held(p, q) = {} THEN None ELSE CHOOSE g \in Held(p, q) : TRUE]

\* list_objects_v2 under the prefix: attempts/... lie below the base prefix.
HasObjects(p) == \/ ckpt[p] # Nothing \/ parent[p] # None
                 \/ private[p] # None \/ summary[p] # None
IsEmpty(p) == \A x \in (IF p = Base THEN Prefixes ELSE {p}) : ~HasObjects(x)

-----------------------------------------------------------------------------
(***************************************************************************)
(* The launch command, one request to AWS after the other.                 *)
(***************************************************************************)
NewJob(j) == /\ status[j] = "none"
             /\ \A c \in Commands : step[c] # "idle" => plan[c].job # j

\* Without --resume-job the job writes under the base prefix.
PlanFresh(c, j) ==
  /\ step[c] = "idle" /\ NewJob(j)
  /\ plan' = [plan EXCEPT ![c] = [job |-> j, prefix |-> Base, source |-> None]]
  /\ step' = [step EXCEPT ![c] = "list"]
  /\ UNCHANGED <<bucket, jobs, container>>

\* --resume-job s: s must have failed or stopped (told apart nowhere), and its
\* checkpoints must load.  The new attempt gets a prefix of its own.
MayResume(s) == status[s] = "Failed" /\ Loadable(prefix[s])

PlanResume(c, j, s) ==
  /\ step[c] = "idle" /\ NewJob(j)
  /\ MayResume(s)
  /\ plan' = [plan EXCEPT ![c] = [job |-> j, prefix |-> j, source |-> prefix[s]]]
  /\ step' = [step EXCEPT ![c] = "list"]
  /\ UNCHANGED <<bucket, jobs, container>>

\* A fault: nobody asks which jobs are active.
ListNoJobs(c) ==
  /\ step[c] = "list"
  /\ step' = [step EXCEPT ![c] = "empty"]
  /\ UNCHANGED <<bucket, jobs, container, plan>>

\* "Another LAVA/Oracle training job is active".
ListJobs(c) ==
  /\ step[c] = "list"
  /\ step' = [step EXCEPT ![c] =
                IF \E j \in Jobs : status[j] = "InProgress" THEN "idle" ELSE "empty"]
  /\ UNCHANGED <<bucket, jobs, container, plan>>

\* _assert_output_prefix_empty.
CheckEmpty(c) ==
  /\ step[c] = "empty"
  /\ step' = [step EXCEPT ![c] = IF IsEmpty(plan[c].prefix) THEN "submit" ELSE "idle"]
  /\ UNCHANGED <<bucket, jobs, container, plan>>

\* trainer.train: SageMaker has the job, whatever becomes of the command.
Submit(c) ==
  /\ step[c] = "submit"
  /\ LET j == plan[c].job IN
       /\ status' = [status EXCEPT ![j] = "InProgress"]
       /\ prefix' = [prefix EXCEPT ![j] = plan[c].prefix]
       /\ source' = [source EXCEPT ![j] = plan[c].source]
       /\ pc' = [pc EXCEPT ![j] = "load"]
  /\ step' = [step EXCEPT ![c] = "idle"]
  /\ UNCHANGED <<bucket, reused, records, current, plan>>

\* The command raises or is interrupted before it submits.
Quit(c) == /\ step[c] # "idle"
           /\ step' = [step EXCEPT ![c] = "idle"]
           /\ UNCHANGED <<bucket, jobs, container, plan>>

-----------------------------------------------------------------------------
(***************************************************************************)
(* run_oracle_benchmark in the container of job j.                         *)
(***************************************************************************)
question(j) == Len(records[j]) + 1

Goto(j, l) == pc' = [pc EXCEPT ![j] = l] /\ UNCHANGED status

End(j, s) == /\ pc' = [pc EXCEPT ![j] = "off"]
             /\ status' = [status EXCEPT ![j] = s]

\* All retained work is loaded before anything else ...
LoadSource(j) ==
  /\ pc[j] = "load"
  /\ \/ /\ source[j] = None
        /\ Goto(j, "question")
        /\ UNCHANGED reused
     \/ /\ source[j] # None /\ Loadable(source[j])
        /\ reused' = [reused EXCEPT ![j] = Load(source[j])]
        /\ Goto(j, "link")
     \/ /\ source[j] # None /\ ~Loadable(source[j])
        /\ End(j, "Failed")
        /\ UNCHANGED reused
  /\ UNCHANGED <<bucket, prefix, source, records, current, commands>>

\* A fault: the attempt forgets to say where its reused answers came from.
LinkNothing(j) ==
  /\ pc[j] = "link"
  /\ Goto(j, "question")
  /\ UNCHANGED <<bucket, prefix, source, reused, records, current, commands>>

\* ... and the ancestry recorded before any of it is copied.
LinkParent(j) ==
  /\ pc[j] = "link"
  /\ parent' = [parent EXCEPT ![prefix[j]] = IF @ = None THEN source[j] ELSE @]
  /\ IF parent[prefix[j]] \in {None, source[j]} THEN Goto(j, "question") ELSE End(j, "Failed")
  /\ UNCHANGED <<ckpt, private, summary, prefix, source, reused, records, current, commands>>

\* A fault: every question is put to the model.
AnswerAfresh(j, g) ==
  /\ pc[j] = "question" /\ question(j) <= N
  /\ current' = [current EXCEPT ![j] = g]
  /\ Goto(j, "save")
  /\ UNCHANGED <<bucket, prefix, source, reused, records, commands>>

\* A retained answer is reused, any other question is put to the model.
AnswerQuestion(j, g) ==
  /\ pc[j] = "question" /\ question(j) <= N
  /\ reused[j][question(j)] \in {None, g}
  /\ current' = [current EXCEPT ![j] = g]
  /\ Goto(j, "save")
  /\ UNCHANGED <<bucket, prefix, source, reused, records, commands>>

\* A fault: save puts without a condition.
SaveOverwrites(j) ==
  /\ pc[j] = "save"
  /\ records' = [records EXCEPT ![j] = Append(@, current[j])]
  /\ ckpt' = [ckpt EXCEPT ![prefix[j]][question(j)] = current[j]]
  /\ Goto(j, "question")
  /\ UNCHANGED <<parent, private, summary, prefix, source, reused, current, commands>>

\* store.save: the record is kept, then put under IfNoneMatch="*".  An equal
\* object is accepted, a different one ends the job.
Save(j) ==
  /\ pc[j] = "save"
  /\ records' = [records EXCEPT ![j] = Append(@, current[j])]
  /\ ckpt' = [ckpt EXCEPT ![prefix[j]][question(j)] = IF @ = None THEN current[j] ELSE @]
  /\ IF ckpt[prefix[j]][question(j)] \in {None, current[j]}
       THEN Goto(j, "question") ELSE End(j, "Failed")
  /\ UNCHANGED <<parent, private, summary, prefix, source, reused, current, commands>>

\* The complete records, then the summary: plain puts, which overwrite.
PutRecords(j) ==
  /\ pc[j] = "question" /\ question(j) > N
  /\ private' = [private EXCEPT ![prefix[j]] = records[j]]
  /\ Goto(j, "summary")
  /\ UNCHANGED <<parent, ckpt, summary, prefix, source, reused, records, current, commands>>

PutSummary(j) ==
  /\ pc[j] = "summary"
  /\ summary' = [summary EXCEPT ![prefix[j]] =
                   Cardinality({q \in Questions : reused[j][q] # None})]
  /\ Goto(j, "exit")
  /\ UNCHANGED <<parent, ckpt, private, prefix, source, reused, records, current, commands>>

\* The entry point returns: SageMaker reports the job Completed.
Exit(j) == /\ pc[j] = "exit"
           /\ End(j, "Completed")
           /\ UNCHANGED <<bucket, prefix, source, reused, records, current, commands>>

\* The job is reclaimed, times out, is stopped, or raises, before its
\* container starts or at any point of it.
Interrupt(j) == /\ status[j] = "InProgress"
                /\ End(j, "Failed")
                /\ UNCHANGED <<bucket, prefix, source, reused, records, current, commands>>

Container(j) == \/ LoadSource(j) \/ LinkParent(j)
                \/ \E g \in Generations : AnswerQuestion(j, g)
                \/ Save(j) \/ PutRecords(j) \/ PutSummary(j) \/ Exit(j)

Command(c) == \/ \E j \in Jobs : PlanFresh(c, j)
              \/ \E j, s \in Jobs : PlanResume(c, j, s)
              \/ ListJobs(c) \/ CheckEmpty(c) \/ Submit(c) \/ Quit(c)

Next == \/ \E c \in Commands : Command(c)
        \/ \E j \in Jobs : Container(j) \/ Interrupt(j)

Spec == Init /\ [][Next]_vars

-----------------------------------------------------------------------------
\* Retained work always loads: no two attempts of a lineage ever hold different
\* answers to a question, and no attempt descends from itself.
LineageIsConsistent == \A p \in Prefixes : ~Cyclic(p) /\ ~Contradictory(p)

\* The published records are the question checkpoints of their prefix.
PublishedAreCheckpoints ==
  \A p \in Prefixes : private[p] # None => \A q \in Questions : private[p][q] = ckpt[p][q]

\* Once an attempt has saved any answer, loading it gives everything the attempt
\* it resumed had, unchanged, wherever it was interrupted.
LinkedWorkIsRetained ==
  \A j \in Jobs :
    /\ source[j] \notin {None}
    /\ ckpt[prefix[j]] # Nothing
    => \A q \in Questions : Load(source[j])[q] # None
         => Load(prefix[j])[q] = Load(source[j])[q]

\* "Persist ancestry before copying, so repeated interruptions retain all
\* prior work": an interrupted attempt gives back all it was resumed with.
RetainsAllPriorWork ==
  \A j \in Jobs : status[j] = "Failed" /\ source[j] # None
    => \A q \in Questions : Load(source[j])[q] # None
         => Load(prefix[j])[q] = Load(source[j])[q]

\* A Completed job has published all questions, and its count of reused ones
\* is that of the answers its source held.
CompletedIsWhole ==
  \A j \in Jobs : status[j] = "Completed"
    => /\ private[prefix[j]] # None
       /\ source[j] # None =>
            summary[prefix[j]] =
              Cardinality({q \in Questions : Load(source[j])[q] # None})
=============================================================================
