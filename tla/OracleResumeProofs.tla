------------------------- MODULE OracleResumeProofs -------------------------
(***************************************************************************)
(* The oracle benchmark for any number of commands, jobs and questions,    *)
(* with commands racing each other and jobs writing under one prefix:      *)
(* types, and the agreement of the published records with the question     *)
(* checkpoints.  With one command at a time: the lineages of resumed       *)
(* attempts, which always load and lose nothing.                           *)
(***************************************************************************)
EXTENDS OracleResume, TLAPS, SequenceTheorems, FiniteSetTheorems

-----------------------------------------------------------------------------
\* The job a command is about to submit is not submitted yet, and no other
\* command is about to submit it.
Planned(c) == step[c] # "idle" =>
  /\ plan[c] \in Plans
  /\ plan[c].prefix \in {Base, plan[c].job}
  /\ status[plan[c].job] = "none"
  /\ \A d \in Commands : step[d] # "idle" /\ plan[d].job = plan[c].job => d = c

\* Where a running job is: it has a prefix, a source to link, a question to
\* save, or nothing left to answer.
AtWork(j) ==
  /\ status[j] = "none" => records[j] = << >>
  /\ pc[j] # "off" => prefix[j] \in Prefixes
  /\ pc[j] = "link" => source[j] # None
  /\ pc[j] = "save" => current[j] \in Generations /\ Len(records[j]) < N

\* What a running job has recorded is what its prefix holds.
Kept(j) == pc[j] # "off" =>
             \A q \in DOMAIN records[j] : q \in Questions /\ records[j][q] = ckpt[prefix[j]][q]

TypeInv == /\ TypeOK
           /\ \A c \in Commands : Planned(c)
           /\ \A j \in Jobs : AtWork(j)

-----------------------------------------------------------------------------
\* The ancestors of a prefix are prefixes, so what load() finds is answers.
LEMMA LoadType == ASSUME TypeOK, NEW p \in Prefixes
                  PROVE  Load(p) \in [Questions -> Generations \cup {None}]
<1>1. \A q \in Questions : Held(p, q) \subseteq Generations
  BY DEF Held, Lineage, TypeOK
<1>2. ASSUME NEW q \in Questions, Held(p, q) # {}
      PROVE  (CHOOSE g \in Held(p, q) : TRUE) \in Generations
  BY <1>1, <1>2
<1>. QED
  BY <1>2 DEF Load

LEMMA AppendRecord ==
  ASSUME NEW s \in Seq(Generations), NEW a \in Generations
  PROVE  /\ Append(s, a) \in Seq(Generations)
         /\ Len(Append(s, a)) = Len(s) + 1
         /\ DOMAIN Append(s, a) = 1..(Len(s) + 1)
         /\ Append(s, a)[Len(s) + 1] = a
         /\ \A q \in 1..Len(s) : Append(s, a)[q] = s[q]
  BY AppendProperties, LenProperties

\* Reused answers are counted within the number of questions.
LEMMA ReusedCount ==
  ASSUME NEW f PROVE Cardinality({q \in Questions : f[q] # None}) \in 0..N
<1>1. IsFiniteSet(Questions) /\ Cardinality(Questions) = N
  BY FS_Interval, ResumeAssumption DEF Questions
<1>2. /\ IsFiniteSet({q \in Questions : f[q] # None})
      /\ Cardinality({q \in Questions : f[q] # None}) <= N
  BY <1>1, FS_Subset
<1>. QED
  BY <1>2, FS_CardinalityType, ResumeAssumption

LEMMA JobRecords ==
  ASSUME TypeOK, NEW j \in Jobs
  PROVE  /\ records[j] \in Seq(Generations)
         /\ Len(records[j]) \in 0..N
         /\ DOMAIN records[j] = 1..Len(records[j])
         /\ question(j) = Len(records[j]) + 1
<1>1. records[j] \in Seq(Generations) /\ Len(records[j]) <= N
  BY DEF TypeOK
<1>. QED
  BY <1>1, LenProperties, ResumeAssumption DEF question

\* All questions answered is a record to publish.
LEMMA FullRecords == ASSUME NEW s \in Seq(Generations), Len(s) = N
                     PROVE  s \in [Questions -> Generations]
  BY LenProperties, ResumeAssumption DEF Questions

-----------------------------------------------------------------------------
(***************************************************************************)
(* The launch commands change no container but that of the job they        *)
(* submit, which nobody has submitted.                                     *)
(***************************************************************************)
LEMMA CommandTypes ==
  ASSUME TypeInv, NEW c \in Commands, Command(c)
  PROVE  TypeInv'
<1>. USE DEF TypeInv, TypeOK, Prefixes
<1>1. ASSUME NEW j \in Jobs, PlanFresh(c, j) PROVE TypeInv'
  <2>1. [job |-> j, prefix |-> Base, source |-> None] \in Plans
    BY DEF Plans
  <2>2. TypeOK'
    BY <1>1, <2>1 DEF PlanFresh, bucket, jobs, container
  <2>3. \A d \in Commands : Planned(d)'
    BY <1>1, <2>1 DEF PlanFresh, NewJob, Planned, jobs
  <2>. QED
    BY <1>1, <2>2, <2>3 DEF PlanFresh, AtWork, jobs, container
<1>2. ASSUME NEW j \in Jobs, NEW s \in Jobs, PlanResume(c, j, s) PROVE TypeInv'
  <2>1. [job |-> j, prefix |-> j, source |-> prefix[s]] \in Plans
    BY DEF Plans
  <2>2. TypeOK'
    BY <1>2, <2>1 DEF PlanResume, bucket, jobs, container
  <2>3. \A d \in Commands : Planned(d)'
    BY <1>2, <2>1 DEF PlanResume, NewJob, Planned, jobs
  <2>. QED
    BY <1>2, <2>2, <2>3 DEF PlanResume, AtWork, jobs, container
<1>3. ASSUME NEW s \in {"idle", "empty", "submit"}, step[c] # "idle",
             step' = [step EXCEPT ![c] = s], UNCHANGED <<bucket, jobs, container, plan>>
      PROVE  TypeInv'
  BY <1>3 DEF Planned, AtWork, bucket, jobs, container
<1>4. CASE Submit(c)
  <2>. DEFINE j == plan[c].job
  <2>1. /\ j \in Jobs /\ status[j] = "none" /\ records[j] = << >>
        /\ plan[c] \in Plans /\ plan[c].prefix \in {Base, j}
        /\ plan[c].source \in Prefixes \cup {None}
    BY <1>4 DEF Submit, Planned, AtWork, Plans
  <2>2. /\ status' = [status EXCEPT ![j] = "InProgress"]
        /\ prefix' = [prefix EXCEPT ![j] = plan[c].prefix]
        /\ source' = [source EXCEPT ![j] = plan[c].source]
        /\ pc' = [pc EXCEPT ![j] = "load"]
        /\ step' = [step EXCEPT ![c] = "idle"]
        /\ UNCHANGED <<bucket, reused, records, current, plan>>
    BY <1>4 DEF Submit
  <2>. HIDE DEF j
  <2>3. TypeOK'
    BY <2>1, <2>2 DEF bucket, Running
  <2>4. \A d \in Commands : Planned(d)'
    BY <1>4, <2>1, <2>2 DEF Planned, Submit, j
  <2>5. \A k \in Jobs : AtWork(k)'
    BY <2>1, <2>2 DEF AtWork
  <2>. QED
    BY <2>3, <2>4, <2>5
<1>. QED
  BY <1>1, <1>2, <1>3, <1>4 DEF Command, ListJobs, CheckEmpty, Quit

(***************************************************************************)
(* A step of a job in progress: how it leaves the job is one of the two    *)
(* forms Goto and End, and no command is waiting to submit that job.       *)
(***************************************************************************)
Moves(j) == /\ status[j] = "InProgress"
            /\ UNCHANGED commands
            /\ \/ \E l \in Running : Goto(j, l)
               \/ \E s \in {"Completed", "Failed"} : End(j, s)

Moved(j) ==
  /\ pc' \in [Jobs -> Running \cup {"off"}]
  /\ status' \in [Jobs -> {"none", "InProgress", "Completed", "Failed"}]
  /\ \A k \in Jobs : (pc'[k] = "off") = (status'[k] # "InProgress")
  /\ \A k \in Jobs : status'[k] = "none" => status[k] = "none"
  /\ \A k \in Jobs : k # j => pc'[k] = pc[k]
  /\ \A c \in Commands : Planned(c)'

LEMMA JobMoves == ASSUME TypeInv, NEW j \in Jobs, Moves(j) PROVE Moved(j)
<1>. USE DEF TypeInv, TypeOK
<1>0. /\ status[j] = "InProgress" /\ UNCHANGED <<step, plan>>
      /\ "off" \notin Running
  BY DEF Moves, commands, Running
<1>1. ASSUME \A k \in Jobs : (status'[k] = "none") = (status[k] = "none")
      PROVE  \A c \in Commands : Planned(c)'
  BY <1>0, <1>1 DEF Planned, Plans
<1>2. ASSUME NEW l \in Running, Goto(j, l) PROVE Moved(j)
  <2>1. pc' = [pc EXCEPT ![j] = l] /\ UNCHANGED status
    BY <1>2 DEF Goto
  <2>2. \A k \in Jobs : (pc'[k] = "off") = (status'[k] # "InProgress")
    <3>1. pc'[j] # "off" /\ status'[j] = "InProgress"
      BY <1>0, <2>1
    <3>2. \A k \in Jobs : k # j => pc'[k] = pc[k] /\ status'[k] = status[k]
      BY <2>1
    <3>. QED
      BY <3>1, <3>2
  <2>. QED
    BY <1>1, <2>1, <2>2 DEF Moved
<1>3. ASSUME NEW s \in {"Completed", "Failed"}, End(j, s) PROVE Moved(j)
  <2>1. pc' = [pc EXCEPT ![j] = "off"] /\ status' = [status EXCEPT ![j] = s]
    BY <1>3 DEF End
  <2>2. \A k \in Jobs : (pc'[k] = "off") = (status'[k] # "InProgress")
    <3>1. pc'[j] = "off" /\ status'[j] # "InProgress"
      BY <1>0, <2>1
    <3>2. \A k \in Jobs : k # j => pc'[k] = pc[k] /\ status'[k] = status[k]
      BY <2>1
    <3>. QED
      BY <3>1, <3>2
  <2>3. \A k \in Jobs : (status'[k] = "none") = (status[k] = "none")
    BY <1>0, <2>1
  <2>. QED
    BY <1>1, <2>1, <2>2, <2>3 DEF Moved
<1>. QED
  BY <1>2, <1>3 DEF Moves

LEMMA ContainerMoves ==
  ASSUME TypeInv, NEW j \in Jobs, Container(j) \/ Interrupt(j)
  PROVE  /\ Moved(j) /\ status[j] = "InProgress" /\ pc[j] # "off"
         /\ UNCHANGED prefix
         /\ \A k \in Jobs : k # j \/ ~Save(j) => records'[k] = records[k]
<1>0. /\ "load" \in Running /\ "link" \in Running /\ "question" \in Running /\ "save" \in Running
      /\ "summary" \in Running /\ "exit" \in Running
  BY DEF Running
<1>1. status[j] = "InProgress" /\ UNCHANGED <<prefix, commands>>
  BY DEF Container, LoadSource, LinkParent, AnswerQuestion, Save, PutRecords, PutSummary, Exit,
         Interrupt, TypeInv, TypeOK
<1>2. Moves(j)
  BY <1>0, <1>1 DEF Container, LoadSource, LinkParent, AnswerQuestion, Save, PutRecords, PutSummary,
     Exit, Interrupt, Moves
<1>3. \A k \in Jobs : k # j \/ ~Save(j) => records'[k] = records[k]
  BY DEF Container, LoadSource, LinkParent, AnswerQuestion, Save, PutRecords, PutSummary, Exit,
         Interrupt, TypeInv, TypeOK
<1>. QED
  BY <1>1, <1>2, <1>3, JobMoves DEF TypeInv, TypeOK

LEMMA ContainerTypes ==
  ASSUME TypeInv, NEW j \in Jobs, Container(j) \/ Interrupt(j)
  PROVE  TypeInv'
<1>. USE DEF TypeInv, TypeOK
<1>0. TypeInv /\ AtWork(j)
  OBVIOUS
<1>m. Moved(j)
  BY ContainerMoves
<1>1. CASE LoadSource(j)
  <2>1. status[j] = "InProgress"
    BY <1>1 DEF LoadSource
  <2>2. \/ pc'[j] # "link" /\ pc'[j] # "save" /\ UNCHANGED reused
        \/ /\ pc'[j] = "link" /\ source[j] \in Prefixes
           /\ reused' = [reused EXCEPT ![j] = Load(source[j])]
    BY <1>1 DEF LoadSource, Goto, End
  <2>3. reused' \in [Jobs -> [Questions -> Generations \cup {None}]]
    <3>1. source[j] \in Prefixes => Load(source[j]) \in [Questions -> Generations \cup {None}]
      BY LoadType
    <3>. QED
      BY <2>2, <3>1
  <2>4. UNCHANGED <<bucket, prefix, source, records, current, commands>>
    BY <1>1 DEF LoadSource
  <2>6. TypeOK' /\ \A c \in Commands : Planned(c)'
    BY <2>1, <2>3, <2>4, <1>m DEF Moved, bucket, commands
  <2>7. pc[j] # "off"
    BY <1>1 DEF LoadSource
  <2>. QED
    <3>1. AtWork(j)'
      BY <2>1, <2>2, <2>4, <1>0, <1>m, <2>7, ResumeAssumption DEF AtWork, Moved, Prefixes
    <3>2. \A k \in Jobs : k # j => AtWork(k)'
      BY <2>4, <1>m DEF AtWork, Moved
    <3>. QED
      BY <2>6, <3>1, <3>2
<1>2. CASE LinkParent(j)
  <2>1. /\ status[j] = "InProgress" /\ pc[j] = "link"
        /\ prefix[j] \in Prefixes /\ source[j] \in Prefixes
        /\ parent' = [parent EXCEPT ![prefix[j]] = IF @ = None THEN source[j] ELSE @]
        /\ UNCHANGED <<ckpt, private, summary, prefix, source, reused, records, current, commands>>
    BY <1>0, <1>2 DEF LinkParent, AtWork
  <2>3. pc'[j] \notin {"link", "save"}
    BY <1>2 DEF LinkParent, Goto, End
  <2>4. TypeOK' /\ \A c \in Commands : Planned(c)'
    BY <2>1, <1>m DEF Moved, commands
  <2>. QED
    BY <2>1, <1>m, <2>3, <2>4 DEF AtWork, Moved
<1>3. ASSUME NEW g \in Generations, AnswerQuestion(j, g) PROVE TypeInv'
  <2>1. /\ status[j] = "InProgress" /\ pc[j] = "question"
        /\ current' = [current EXCEPT ![j] = g]
        /\ Goto(j, "save")
        /\ UNCHANGED <<bucket, prefix, source, reused, records, commands>>
    BY <1>3 DEF AnswerQuestion
  <2>2. Len(records[j]) < N
    BY <1>3, JobRecords, ResumeAssumption DEF AnswerQuestion
  <2>3. TypeOK' /\ \A c \in Commands : Planned(c)'
    BY <1>m, <2>1 DEF Moved, commands, bucket
  <2>4. pc'[j] = "save" /\ UNCHANGED status
    BY <2>1 DEF Goto
  <2>. QED
    BY <1>m, <2>1, <2>2, <2>3, <2>4 DEF AtWork, Moved
<1>4. CASE Save(j)
  <2>1. /\ status[j] = "InProgress" /\ pc[j] = "save"
        /\ current[j] \in Generations /\ Len(records[j]) < N /\ prefix[j] \in Prefixes
        /\ records' = [records EXCEPT ![j] = Append(records[j], current[j])]
        /\ ckpt' = [ckpt EXCEPT ![prefix[j]][question(j)] = IF @ = None THEN current[j] ELSE @]
        /\ UNCHANGED <<parent, private, summary, prefix, source, reused, current, commands>>
    BY <1>0, <1>4 DEF Save, AtWork
  <2>3. pc'[j] \notin {"link", "save"}
    BY <1>4 DEF Save, Goto, End
  <2>4. /\ Append(records[j], current[j]) \in Seq(Generations)
        /\ Len(Append(records[j], current[j])) <= N
    BY <2>1, JobRecords, AppendRecord, ResumeAssumption
  <2>5. question(j) \in Questions
    BY <2>1, JobRecords, ResumeAssumption DEF Questions
  <2>6. ckpt' \in [Prefixes -> [Questions -> Generations \cup {None}]]
    BY <2>1, <2>5
  <2>7. TypeOK' /\ \A c \in Commands : Planned(c)'
    BY <2>1, <1>m, <2>4, <2>6 DEF Moved, commands
  <2>. QED
    BY <2>1, <1>m, <2>3, <2>7 DEF AtWork, Moved
<1>5. CASE PutRecords(j)
  <2>1. /\ status[j] = "InProgress" /\ pc[j] = "question" /\ prefix[j] \in Prefixes
        /\ private' = [private EXCEPT ![prefix[j]] = records[j]]
        /\ Goto(j, "summary")
        /\ UNCHANGED <<parent, ckpt, summary, prefix, source, reused, records, current, commands>>
    BY <1>0, <1>5 DEF PutRecords, AtWork
  <2>2. records[j] \in [Questions -> Generations]
    BY <1>5, JobRecords, FullRecords, ResumeAssumption DEF PutRecords
  <2>3. TypeOK' /\ \A c \in Commands : Planned(c)'
    BY <1>m, <2>1, <2>2 DEF Moved, commands
  <2>4. pc'[j] = "summary"
    BY <2>1 DEF Goto
  <2>. QED
    BY <1>m, <2>1, <2>3, <2>4 DEF AtWork, Moved
<1>6. CASE PutSummary(j)
  <2>1. /\ status[j] = "InProgress" /\ pc[j] = "summary" /\ prefix[j] \in Prefixes
        /\ Goto(j, "exit")
        /\ UNCHANGED <<parent, ckpt, private, prefix, source, reused, records, current, commands>>
    BY <1>0, <1>6 DEF PutSummary, AtWork
  <2>2. summary' \in [Prefixes -> (0..N) \cup {None}]
    <3>1. Cardinality({q \in Questions : reused[j][q] # None}) \in 0..N
      BY ReusedCount
    <3>2. summary' = [summary EXCEPT ![prefix[j]] =
                        Cardinality({q \in Questions : reused[j][q] # None})]
      BY <1>6 DEF PutSummary
    <3>. HIDE <1>6
    <3>. QED
      BY <3>1, <3>2
  <2>3. TypeOK' /\ \A c \in Commands : Planned(c)'
    BY <1>m, <2>1, <2>2 DEF Moved, commands
  <2>4. pc'[j] = "exit"
    BY <2>1 DEF Goto
  <2>. QED
    BY <1>m, <2>1, <2>3, <2>4 DEF AtWork, Moved
<1>7. CASE Exit(j) \/ Interrupt(j)
  <2>1. /\ status[j] = "InProgress" /\ pc'[j] = "off"
        /\ \E s \in {"Completed", "Failed"} : End(j, s)
        /\ UNCHANGED <<bucket, prefix, source, reused, records, current, commands>>
    BY <1>7 DEF Exit, Interrupt, End
  <2>2. TypeOK' /\ \A c \in Commands : Planned(c)'
    BY <2>1, <1>m DEF Moved, commands, bucket
  <2>. QED
    BY <2>1, <2>2, <1>m DEF AtWork, Moved
<1>. QED
  BY <1>1, <1>2, <1>3, <1>4, <1>5, <1>6, <1>7 DEF Container

LEMMA TypeInvariant == Spec => []TypeInv
<1>1. Init => TypeInv
  BY ResumeAssumption
     DEF Init, TypeInv, TypeOK, Planned, AtWork, Nothing, Questions
<1>2. TypeInv /\ [Next]_vars => TypeInv'
  <2>1. ASSUME TypeInv, UNCHANGED vars PROVE TypeInv'
    BY <2>1 DEF TypeInv, TypeOK, Planned, AtWork, vars, bucket, jobs, container, commands
  <2>. QED
    BY <2>1, CommandTypes, ContainerTypes DEF Next
<1>. QED
  BY <1>1, <1>2, PTL DEF Spec

\* Types: a prefix holds answers to the questions of the manifest only, what is
\* published has all of them, and a job runs under the prefix made for it.
THEOREM TypeCorrect == Spec => []TypeOK
<1>1. TypeInv => TypeOK
  BY DEF TypeInv
<1>. QED
  BY <1>1, TypeInvariant, PTL

-----------------------------------------------------------------------------
(***************************************************************************)
(* Checkpoints.                                                            *)
(***************************************************************************)
LEMMA CheckpointStep ==
  ASSUME TypeInv, [Next]_vars, ckpt' # ckpt
  PROVE  \E j \in Jobs : /\ Save(j)
                         /\ prefix[j] \in Prefixes /\ question(j) \in Questions
                         /\ current[j] \in Generations
<1>1. PICK j \in Jobs : Save(j)
  BY DEF Next, vars, Command, Container, PlanFresh, PlanResume, ListJobs, CheckEmpty, Submit, Quit,
       LoadSource, LinkParent, AnswerQuestion, PutRecords, PutSummary, Exit, Interrupt, bucket
<1>2. /\ pc[j] = "save" /\ prefix[j] \in Prefixes
      /\ current[j] \in Generations /\ Len(records[j]) < N
  BY <1>1 DEF Save, TypeInv, AtWork
<1>3. question(j) \in Questions
  BY <1>2, JobRecords, ResumeAssumption DEF TypeInv, Questions
<1>. QED
  BY <1>1, <1>2, <1>3

\* A question checkpoint stays.
LEMMA CheckpointStays ==
  ASSUME TypeInv, [Next]_vars, NEW x \in Prefixes, NEW q \in Questions, ckpt[x][q] # None
  PROVE  ckpt'[x][q] = ckpt[x][q]
<1>1. ASSUME NEW j \in Jobs, Save(j), prefix[j] \in Prefixes, question(j) \in Questions
      PROVE  ckpt'[x][q] = ckpt[x][q]
  BY <1>1 DEF Save, TypeInv, TypeOK
<1>. QED
  BY <1>1, CheckpointStep

-----------------------------------------------------------------------------
(***************************************************************************)
(* Published records.  They are put from a job's memory, by plain puts that *)
(* another job on the prefix may overwrite: they agree with the checkpoints *)
(* because the memory of a job that goes on does, whoever saved them.       *)
(***************************************************************************)
KeptInv == TypeInv /\ (\A j \in Jobs : Kept(j)) /\ PublishedAreCheckpoints

LEMMA KeptStep ==
  ASSUME KeptInv, TypeInv', [Next]_vars, NEW j \in Jobs
  PROVE  Kept(j)'
<1>. USE DEF KeptInv
<1>. SUFFICES ASSUME pc'[j] # "off", NEW q \in DOMAIN records'[j]
              PROVE  q \in Questions /\ records'[j][q] = ckpt'[prefix'[j]][q]
  BY DEF Kept
<1>1. CASE pc[j] # "off" /\ prefix'[j] = prefix[j] /\ records'[j] = records[j]
  <2>1. q \in Questions /\ records[j][q] = ckpt[prefix[j]][q]
    BY <1>1 DEF Kept
  <2>2. prefix[j] \in Prefixes /\ records[j][q] # None
    BY <1>1, ElementOfSeq, JobRecords, ResumeAssumption DEF TypeInv, AtWork
  <2>. QED
    BY <1>1, <2>1, <2>2, CheckpointStays
<1>2. CASE Save(j)
  <2>1. /\ pc[j] = "save" /\ current[j] \in Generations /\ prefix[j] \in Prefixes
        /\ Len(records[j]) < N
    BY <1>2 DEF Save, TypeInv, AtWork
  <2>2. /\ records'[j] = Append(records[j], current[j])
        /\ prefix' = prefix
        /\ ckpt' = [ckpt EXCEPT ![prefix[j]][question(j)] = IF @ = None THEN current[j] ELSE @]
        /\ ckpt[prefix[j]][question(j)] \in {None, current[j]}
    BY <1>2 DEF Save, End, TypeInv, TypeOK
  <2>3. /\ records[j] \in Seq(Generations) /\ Len(records[j]) \in Nat
        /\ DOMAIN records[j] = 1..Len(records[j])
        /\ question(j) = Len(records[j]) + 1 /\ question(j) \in Questions
    BY <2>1, JobRecords, ResumeAssumption DEF TypeInv, Questions
  <2>4. /\ DOMAIN records'[j] = 1..(Len(records[j]) + 1)
        /\ records'[j][question(j)] = current[j]
        /\ \A i \in 1..Len(records[j]) : records'[j][i] = records[j][i]
    BY <2>1, <2>2, <2>3, AppendRecord
  <2>5. CASE q = question(j)
    BY <2>1, <2>2, <2>3, <2>4, <2>5 DEF TypeInv, TypeOK
  <2>6. CASE q # question(j)
    <3>1. q \in DOMAIN records[j] /\ records'[j][q] = records[j][q]
      BY <2>3, <2>4, <2>6
    <3>2. q \in Questions /\ records[j][q] = ckpt[prefix[j]][q]
      BY <2>1, <3>1 DEF Kept
    <3>3. ckpt'[prefix[j]][q] = ckpt[prefix[j]][q]
      BY <2>1, <2>2, <2>3, <2>6, <3>2 DEF TypeInv, TypeOK
    <3>. QED
      BY <2>2, <3>1, <3>2, <3>3
  <2>. QED
    BY <2>5, <2>6
<1>3. ASSUME NEW c \in Commands, Submit(c), plan[c].job = j PROVE FALSE
  <2>1. records'[j] = << >>
    BY <1>3 DEF Submit, TypeInv, Planned, AtWork
  <2>. QED
    BY <2>1
<1>4. CASE \E c \in Commands : Command(c)
  <2>1. PICK c \in Commands : Command(c)
    BY <1>4
  <2>2. CASE Submit(c)
    <3>1. plan[c].job # j /\ plan[c].job \in Jobs
      BY <1>3, <2>2 DEF Submit, TypeInv, Planned, Plans
    <3>2. pc'[j] = pc[j] /\ prefix'[j] = prefix[j] /\ records'[j] = records[j]
      BY <2>2, <3>1 DEF Submit, TypeInv, TypeOK
    <3>. QED
      BY <1>1, <3>2
  <2>3. CASE UNCHANGED <<bucket, jobs, container>>
    BY <1>1, <2>3 DEF jobs, container
  <2>. QED
    BY <2>1, <2>2, <2>3 DEF Command, PlanFresh, PlanResume, ListJobs, CheckEmpty, Quit
<1>5. ASSUME NEW k \in Jobs, Container(k) \/ Interrupt(k), k # j \/ ~Save(j) PROVE pc[j] # "off"
       /\ prefix'[j] = prefix[j] /\ records'[j] = records[j]
  <2>1. status[k] = "InProgress" /\ prefix' = prefix
    BY <1>5, ContainerMoves DEF TypeInv
  <2>2. pc[j] # "off"
    BY <1>5, ContainerMoves DEF TypeInv, Moved, TypeOK
  <2>3. records'[j] = records[j]
    BY <1>5, ContainerMoves DEF TypeInv, TypeOK
  <2>. QED
    BY <2>1, <2>2, <2>3
<1>6. CASE UNCHANGED vars
  BY <1>1, <1>6 DEF vars, jobs, container
<1>. QED
  BY <1>1, <1>2, <1>4, <1>5, <1>6 DEF Next

\* The complete records that a prefix publishes are its question checkpoints,
\* even if two jobs on the prefix both publish.
THEOREM Published == Spec => []PublishedAreCheckpoints
<1>1. Init => KeptInv
  BY ResumeAssumption
     DEF Init, KeptInv, TypeInv, TypeOK, Planned, AtWork, Kept, PublishedAreCheckpoints,
         Nothing, Questions
<1>2. KeptInv /\ TypeInv' /\ [Next]_vars => KeptInv'
  <2>. SUFFICES ASSUME KeptInv, TypeInv', [Next]_vars PROVE PublishedAreCheckpoints'
    BY KeptStep DEF KeptInv
  <2>. SUFFICES ASSUME NEW p \in Prefixes, private'[p] # None, NEW q \in Questions
                PROVE  private'[p][q] = ckpt'[p][q]
    BY DEF PublishedAreCheckpoints
  <2>1. CASE private'[p] = private[p]
    <3>1. private[p][q] = ckpt[p][q] /\ private[p][q] \in Generations
      BY <2>1 DEF KeptInv, PublishedAreCheckpoints, TypeInv, TypeOK
    <3>2. ckpt[p][q] # None
      BY <3>1, ResumeAssumption
    <3>. QED
      BY <2>1, <3>1, <3>2, CheckpointStays DEF KeptInv
  <2>2. ASSUME NEW j \in Jobs, PutRecords(j), p = prefix[j] PROVE private'[p][q] = ckpt'[p][q]
    <3>1. /\ private'[p] = records[j] /\ UNCHANGED ckpt
          /\ pc[j] # "off" /\ question(j) > N
      BY <2>2 DEF PutRecords, KeptInv, TypeInv, TypeOK
    <3>2. q \in DOMAIN records[j]
      BY <3>1, JobRecords, ResumeAssumption DEF KeptInv, TypeInv, Questions
    <3>. QED
      BY <2>2, <3>1, <3>2 DEF KeptInv, Kept
  <2>3. ASSUME NEW j \in Jobs, PutRecords(j), p # prefix[j] PROVE private'[p] = private[p]
    BY <2>3 DEF PutRecords, KeptInv, TypeInv, TypeOK
  <2>4. CASE private' = private
    BY <2>1, <2>4
  <2>5. (\E j \in Jobs : PutRecords(j)) \/ private' = private
    BY DEF Next, vars, Command, Container, PlanFresh, PlanResume, ListJobs, CheckEmpty, Submit,
         Quit, LoadSource, LinkParent, AnswerQuestion, Save, PutSummary, Exit, Interrupt, bucket
  <2>. QED
    BY <2>1, <2>2, <2>3, <2>4, <2>5
<1>3. KeptInv => PublishedAreCheckpoints
  BY DEF KeptInv
<1>. QED
  BY <1>1, <1>2, <1>3, TypeInvariant, PTL DEF Spec
-----------------------------------------------------------------------------
(***************************************************************************)
(* Lineages, for any ancestry f (the parent of each prefix) and any stored *)
(* answers c: what load() walks and finds, as operators of f and c.        *)
(***************************************************************************)
Ancestry == [Prefixes -> Prefixes \cup {None}]
Closed(f, S) == \A x \in S : f[x] \in S \cup {None}
Family(f, p) == {x \in Prefixes : \A S \in SUBSET Prefixes : p \in S /\ Closed(f, S) => x \in S}
Found(f, c, p, q) == {c[x][q] : x \in Family(f, p)} \ {None}
OneOf(S) == IF S = {} THEN None ELSE CHOOSE g \in S : TRUE
Loaded(f, c, p) == [q \in Questions |-> OneOf(Found(f, c, p, q))]

\* No prefix descends from itself.
Acyclic(f) == \A x \in Prefixes : f[x] # None => x \notin Family(f, f[x])

\* No two prefixes of a lineage hold different answers to a question.
Agreeing(f, c) == \A p \in Prefixes, q \in Questions : \A x, y \in Family(f, p) :
                    c[x][q] # None /\ c[y][q] # None => c[x][q] = c[y][q]

\* A lineage is the smallest set that has the prefix and is closed.
LEMMA FamilyIsClosed ==
  ASSUME NEW f \in Ancestry, NEW p \in Prefixes
  PROVE  /\ p \in Family(f, p) /\ Family(f, p) \subseteq Prefixes
         /\ Closed(f, Family(f, p))
         /\ \A S \in SUBSET Prefixes : p \in S /\ Closed(f, S) => Family(f, p) \subseteq S
<1>1. ASSUME NEW x \in Family(f, p), f[x] # None PROVE f[x] \in Family(f, p)
  <2>1. x \in Prefixes /\ f[x] \in Prefixes
    BY <1>1 DEF Family, Ancestry
  <2>2. ASSUME NEW S \in SUBSET Prefixes, p \in S, Closed(f, S) PROVE f[x] \in S
    BY <1>1, <2>2 DEF Family, Closed
  <2>. QED
    BY <2>1, <2>2 DEF Family
<1>. QED
  BY <1>1 DEF Family, Closed

\* A prefix that is nobody's parent is in its own lineage only, and what it is
\* linked to makes no difference to the other lineages.
LEMMA FamilyElsewhere ==
  ASSUME NEW f \in Ancestry, NEW g \in Ancestry, NEW r \in Prefixes,
         \A x \in Prefixes : f[x] # r,
         \A x \in Prefixes \ {r} : g[x] = f[x],
         NEW p \in Prefixes \ {r}
  PROVE  Family(g, p) = Family(f, p) /\ r \notin Family(f, p)
<1>1. r \notin Family(f, p)
  <2>1. Closed(f, Prefixes \ {r})
    BY DEF Closed, Ancestry
  <2>. QED
    BY <2>1, FamilyIsClosed
<1>2. Family(g, p) \subseteq Family(f, p)
  <2>1. Closed(g, Family(f, p))
    BY <1>1, FamilyIsClosed DEF Closed
  <2>. QED
    BY <2>1, FamilyIsClosed
<1>3. Family(f, p) \subseteq Family(g, p)
  <2>1. Closed(f, Family(g, p))
    BY <1>1, <1>2, FamilyIsClosed DEF Closed
  <2>. QED
    BY <2>1, FamilyIsClosed
<1>. QED
  BY <1>1, <1>2, <1>3

\* A prefix without a parent is its own lineage; a linked one adds itself to
\* the lineage of its parent.
LEMMA FamilyOwn ==
  ASSUME NEW f \in Ancestry, NEW r \in Prefixes
  PROVE  /\ f[r] = None => Family(f, r) = {r}
         /\ f[r] # None => Family(f, r) = {r} \cup Family(f, f[r])
<1>1. CASE f[r] = None
  <2>1. Closed(f, {r})
    BY <1>1 DEF Closed
  <2>. QED
    BY <1>1, <2>1, FamilyIsClosed
<1>2. CASE f[r] # None
  <2>1. f[r] \in Prefixes
    BY <1>2 DEF Ancestry
  <2>2. /\ f[r] \in Family(f, f[r]) /\ Family(f, f[r]) \subseteq Prefixes
        /\ Closed(f, Family(f, f[r]))
    BY <2>1, FamilyIsClosed
  <2>3. Family(f, r) \subseteq {r} \cup Family(f, f[r])
    <3>1. Closed(f, {r} \cup Family(f, f[r]))
      BY <2>2 DEF Closed
    <3>. QED
      BY <2>2, <3>1, FamilyIsClosed
  <2>4. Family(f, f[r]) \subseteq Family(f, r)
    <3>1. /\ r \in Family(f, r) /\ Family(f, r) \in SUBSET Prefixes
          /\ Closed(f, Family(f, r))
      BY FamilyIsClosed
    <3>2. f[r] \in Family(f, r)
      BY <1>2, <3>1 DEF Closed
    <3>. QED
      BY <2>1, <3>1, <3>2, FamilyIsClosed
  <2>. QED
    BY <1>2, <2>3, <2>4, FamilyIsClosed
<1>. QED
  BY <1>1, <1>2

\* Linking such a prefix to another one closes no cycle.
LEMMA LinkIsAcyclic ==
  ASSUME NEW f \in Ancestry, Acyclic(f), NEW g \in Ancestry, NEW r \in Prefixes,
         \A x \in Prefixes : f[x] # r,
         \A x \in Prefixes \ {r} : g[x] = f[x],
         g[r] # r
  PROVE  Acyclic(g)
<1>. SUFFICES ASSUME NEW x \in Prefixes, g[x] # None PROVE x \notin Family(g, g[x])
  BY DEF Acyclic
<1>1. g[x] \in Prefixes \ {r}
  BY DEF Ancestry
<1>2. Family(g, g[x]) = Family(f, g[x]) /\ r \notin Family(f, g[x])
  BY <1>1, FamilyElsewhere
<1>. QED
  BY <1>2 DEF Acyclic

\* load() gives the answers of the lineage, and no others.
LEMMA LoadedIsHeld ==
  ASSUME NEW f \in Ancestry, NEW c, NEW p \in Prefixes, NEW q \in Questions, Agreeing(f, c)
  PROVE  /\ \A x \in Family(f, p) : c[x][q] # None => Loaded(f, c, p)[q] = c[x][q]
         /\ Loaded(f, c, p)[q] # None =>
              \E x \in Family(f, p) : c[x][q] = Loaded(f, c, p)[q]
<1>1. CASE Found(f, c, p, q) = {}
  <2>1. Loaded(f, c, p)[q] = None
    BY <1>1 DEF Loaded, OneOf
  <2>. QED
    BY <1>1, <2>1 DEF Found
<1>2. CASE Found(f, c, p, q) # {}
  <2>1. PICK g \in Found(f, c, p, q) : Loaded(f, c, p)[q] = g
    BY <1>2 DEF Loaded, OneOf
  <2>2. PICK y \in Family(f, p) : c[y][q] = g /\ g # None
    BY <2>1 DEF Found
  <2>. QED
    BY <2>1, <2>2 DEF Agreeing
<1>. QED
  BY <1>1, <1>2

\* What other lineages hold does not depend on the prefix that is written.
LEMMA LoadedElsewhere ==
  ASSUME NEW f \in Ancestry, NEW g \in Ancestry, NEW c, NEW d, NEW r \in Prefixes,
         \A x \in Prefixes : f[x] # r,
         \A x \in Prefixes \ {r} : g[x] = f[x] /\ d[x] = c[x],
         NEW p \in Prefixes \ {r}
  PROVE  Loaded(g, d, p) = Loaded(f, c, p)
<1>1. Family(g, p) = Family(f, p) /\ r \notin Family(f, p) /\ Family(f, p) \subseteq Prefixes
  BY FamilyElsewhere, FamilyIsClosed
<1>2. ASSUME NEW q \in Questions PROVE Found(g, d, p, q) = Found(f, c, p, q)
  BY <1>1 DEF Found
<1>. QED
  BY <1>2 DEF Loaded

LEMMA LoadIsLoaded ==
  /\ \A p \in Prefixes : Lineage(p) = Family(parent, p) /\ Load(p) = Loaded(parent, ckpt, p)
  /\ \A p \in Prefixes : Lineage(p)' = Family(parent', p) /\ Load(p)' = Loaded(parent', ckpt', p)
BY DEF Lineage, ClosedUnderParent, Family, Closed, Load, Held, Loaded, Found, OneOf

-----------------------------------------------------------------------------
(***************************************************************************)
(* One command at a time: its jobs run one after the other, so what a      *)
(* resumed job builds upon is not written by anybody any more.             *)
(***************************************************************************)
\* A prefix that may be resumed: that of a failed job.
Retired(p) == p = Base \/ (p \in Jobs /\ status[p] = "Failed")

PlanStands(c) ==
  /\ step[c] # "idle" =>
       \/ plan[c].prefix = Base /\ plan[c].source = None
       \/ plan[c].prefix = plan[c].job /\ plan[c].source # None /\ Retired(plan[c].source)
  /\ step[c] \in {"empty", "submit"} => \A j \in Jobs : pc[j] = "off"
  /\ step[c] = "submit" => IsEmpty(plan[c].prefix)

PlanInv == \A c \in Commands : PlanStands(c)

\* A resumed attempt is linked, if at all, to its source, and before it holds
\* any answer.
AttemptInv == \A j \in Jobs :
  /\ status[j] = "none" => source[j] = None
  /\ status[j] # "none" => prefix[j] # None
  /\ source[j] = None => prefix[j] \in {None, Base}
  /\ source[j] # None => prefix[j] = j /\ source[j] # j /\ Retired(source[j])
  /\ parent[j] \in {None, source[j]}
  /\ source[j] # None /\ ckpt[j] # Nothing => parent[j] = source[j]
  /\ status[j] = "Completed" => private[prefix[j]] # None

\* The running job: the only one; a fresh one has no attempts that build upon
\* it; and what a resumed one reuses is what its source still holds.
RunInv == \A j \in Jobs : pc[j] # "off" =>
  /\ \A i \in Jobs : pc[i] # "off" => i = j
  /\ source[j] = None =>
       \A k \in Jobs : parent[k] = None /\ ~ (source[k] # None /\ status[k] = "Completed")
  /\ source[j] # None /\ pc[j] # "load" => reused[j] = Load(source[j])
  /\ source[j] # None /\ pc[j] \notin {"load", "link"} => parent[j] = source[j]
  /\ pc[j] = "save" => reused[j][question(j)] \in {None, current[j]}
  /\ pc[j] \in {"summary", "exit"} => private[prefix[j]] # None
  /\ pc[j] = "exit" =>
       summary[prefix[j]] = Cardinality({q \in Questions : reused[j][q] # None})

LineInv == /\ PlanInv /\ AttemptInv /\ RunInv
           /\ parent[Base] = None
           /\ Acyclic(parent) /\ Agreeing(parent, ckpt)
           /\ CompletedIsWhole

\* Nothing builds upon the prefix of the running job: no prefix is linked to
\* it, and no completed job was resumed from it.
LEMMA NothingBuildsOn ==
  ASSUME TypeInv, LineInv, NEW j \in Jobs, pc[j] # "off"
  PROVE  /\ prefix[j] \in Prefixes
         /\ \A x \in Prefixes : parent[x] # prefix[j]
         /\ source[j] # prefix[j]
         /\ source[j] # None => prefix[j] = j /\ source[j] \in Prefixes
         /\ source[j] = None => prefix[j] = Base
         /\ \A k \in Jobs : k # j =>
              prefix[j] # k /\ (source[k] # None /\ status[k] = "Completed" => source[k] # prefix[j])
<1>1. prefix[j] \in Prefixes /\ status[j] = "InProgress"
  BY DEF TypeInv, TypeOK, AtWork
<1>. USE <1>1, ResumeAssumption DEF LineInv, AttemptInv, RunInv, Retired, Prefixes
<1>2. CASE source[j] = None
  <2>1. prefix[j] = Base
    BY <1>2
  <2>2. \A x \in Prefixes : parent[x] = None
    BY <1>2
  <2>3. \A k \in Jobs : ~ (source[k] # None /\ status[k] = "Completed")
    BY <1>2
  <2>. QED
    BY <1>2, <2>1, <2>2, <2>3
<1>3. CASE source[j] # None
  <2>1. prefix[j] = j /\ source[j] # j /\ source[j] \in Prefixes
    BY <1>3
  <2>2. ASSUME NEW x \in Prefixes, parent[x] = j PROVE FALSE
    <3>1. x \in Jobs /\ source[x] = j
      BY <2>2
    <3>. QED
      BY <3>1
  <2>. QED
    BY <1>3, <2>1, <2>2
<1>. QED
  BY <1>2, <1>3

\* A container changes nothing but its own job and prefix.
LEMMA WritesOwnPrefix ==
  ASSUME TypeInv, NEW j \in Jobs, Container(j) \/ Interrupt(j)
  PROVE  /\ UNCHANGED <<prefix, source, commands>>
         /\ \A x \in Prefixes : x # prefix[j] =>
              /\ parent'[x] = parent[x] /\ ckpt'[x] = ckpt[x]
              /\ private'[x] = private[x] /\ summary'[x] = summary[x]
         /\ \A k \in Jobs : k # j =>
              /\ status'[k] = status[k] /\ pc'[k] = pc[k] /\ reused'[k] = reused[k]
              /\ records'[k] = records[k] /\ current'[k] = current[k]
         /\ \A x \in Prefixes : private[x] # None => private'[x] # None
         /\ status[j] = "InProgress" /\ pc[j] # "off"
         /\ status'[j] \in {"InProgress", "Completed", "Failed"}
         /\ status'[j] = "Completed" => Exit(j)
<1>. USE DEF TypeInv, TypeOK, AtWork, Goto, End, bucket, commands
<1>0. prefix[j] \in Prefixes /\ status[j] = "InProgress" /\ pc[j] # "off"
  BY DEF Container, LoadSource, LinkParent, AnswerQuestion, Save, PutRecords, PutSummary, Exit,
         Interrupt
<1>1. CASE LoadSource(j)
  BY <1>0, <1>1 DEF LoadSource
<1>2. CASE LinkParent(j)
  BY <1>0, <1>2 DEF LinkParent
<1>3. ASSUME NEW g \in Generations, AnswerQuestion(j, g)
      PROVE  /\ UNCHANGED <<bucket, prefix, source, commands, status, reused, records>>
             /\ \A k \in Jobs : k # j => pc'[k] = pc[k] /\ current'[k] = current[k]
  BY <1>0, <1>3 DEF AnswerQuestion
<1>4. CASE Save(j)
  BY <1>0, <1>4 DEF Save
<1>5. CASE PutRecords(j)
  <2>1. records[j] # None /\ private' = [private EXCEPT ![prefix[j]] = records[j]]
    <3>1. records[j] \in [Questions -> Generations]
      BY <1>0, <1>5, JobRecords, FullRecords, ResumeAssumption DEF PutRecords
    <3>. QED
      BY <1>5, <3>1, NoRecords DEF PutRecords
  <2>. QED
    BY <1>0, <1>5, <2>1 DEF PutRecords
<1>6. CASE PutSummary(j)
  BY <1>0, <1>6 DEF PutSummary
<1>7. CASE Exit(j) \/ Interrupt(j)
  BY <1>0, <1>7 DEF Exit, Interrupt
<1>. QED
  BY <1>0, <1>1, <1>2, <1>3, <1>4, <1>5, <1>6, <1>7 DEF Container

\* It finds what other lineages hold unchanged.
LEMMA OthersLoad ==
  ASSUME TypeInv, TypeInv', LineInv, NEW j \in Jobs, Container(j) \/ Interrupt(j),
         NEW p \in Prefixes, p # prefix[j]
  PROVE  /\ Load(p)' = Load(p)
         /\ Family(parent', p) = Family(parent, p)
         /\ prefix[j] \notin Family(parent, p)
<1>1. /\ \A x \in Prefixes \ {prefix[j]} : parent'[x] = parent[x] /\ ckpt'[x] = ckpt[x]
      /\ pc[j] # "off"
  BY WritesOwnPrefix
<1>2. prefix[j] \in Prefixes /\ \A x \in Prefixes : parent[x] # prefix[j]
  BY <1>1, NothingBuildsOn
<1>3. parent \in Ancestry /\ parent' \in Ancestry
  BY DEF TypeInv, TypeOK, Ancestry
<1>4. Loaded(parent', ckpt', p) = Loaded(parent, ckpt, p)
  BY <1>1, <1>2, <1>3, LoadedElsewhere
<1>5. Family(parent', p) = Family(parent, p) /\ prefix[j] \notin Family(parent, p)
  BY <1>1, <1>2, <1>3, FamilyElsewhere
<1>. QED
  BY <1>4, <1>5, LoadIsLoaded

\* The ancestry changes when an attempt that holds nothing is linked to its
\* source; the answers, when a linked or fresh attempt saves one.
LEMMA BucketStep ==
  ASSUME TypeInv, LineInv, NEW j \in Jobs, Container(j) \/ Interrupt(j)
  PROVE  \/ UNCHANGED <<parent, ckpt>>
         \/ /\ LinkParent(j) /\ UNCHANGED ckpt
            /\ source[j] \in Prefixes /\ prefix[j] = j
            /\ parent' = [parent EXCEPT ![j] = source[j]] /\ ckpt[j] = Nothing
         \/ /\ Save(j) /\ UNCHANGED parent
            /\ question(j) \in Questions
            /\ ckpt' = [ckpt EXCEPT ![prefix[j]][question(j)] = current[j]]
            /\ parent[prefix[j]] = source[j]
            /\ source[j] # None => /\ reused[j] = Load(source[j])
                                   /\ reused[j][question(j)] \in {None, current[j]}
<1>1. CASE LinkParent(j)
  <2>1. pc[j] = "link" /\ source[j] # None
    BY <1>1 DEF LinkParent, TypeInv, AtWork
  <2>2. prefix[j] = j /\ source[j] \in Prefixes
    BY <2>1, NothingBuildsOn
  <2>3. /\ parent[j] \in {None, source[j]}
        /\ ckpt[j] # Nothing => parent[j] = source[j]
    BY <2>1 DEF LineInv, AttemptInv
  <2>4. /\ UNCHANGED ckpt
        /\ parent' = [parent EXCEPT ![j] = IF parent[j] = None THEN source[j] ELSE parent[j]]
    BY <1>1, <2>2 DEF LinkParent
  <2>5. CASE parent[j] = source[j]
    <3>1. parent' = parent
      BY <2>1, <2>4, <2>5 DEF TypeInv, TypeOK
    <3>. QED
      BY <2>4, <3>1
  <2>6. CASE parent[j] # source[j]
    BY <1>1, <2>2, <2>3, <2>4, <2>6
  <2>. QED
    BY <2>5, <2>6
<1>2. CASE Save(j)
  <2>1. /\ pc[j] = "save" /\ Len(records[j]) < N /\ UNCHANGED parent
        /\ ckpt' = [ckpt EXCEPT ![prefix[j]][question(j)] = IF @ = None THEN current[j] ELSE @]
    BY <1>2 DEF Save, TypeInv, AtWork
  <2>2. question(j) \in Questions
    BY <2>1, JobRecords, ResumeAssumption DEF TypeInv, Questions
  <2>3. prefix[j] \in Prefixes /\ parent[prefix[j]] = source[j]
    <3>1. /\ prefix[j] \in Prefixes
          /\ source[j] = None => prefix[j] = Base
          /\ source[j] # None => prefix[j] = j
      BY <2>1, NothingBuildsOn
    <3>2. parent[Base] = None /\ (source[j] # None => parent[j] = source[j])
      BY <2>1 DEF LineInv, RunInv
    <3>. QED
      BY <3>1, <3>2
  <2>4. source[j] # None => /\ reused[j] = Load(source[j])
                            /\ reused[j][question(j)] \in {None, current[j]}
    BY <2>1 DEF LineInv, RunInv
  <2>5. CASE ckpt[prefix[j]][question(j)] = None
    <3>1. ckpt' = [ckpt EXCEPT ![prefix[j]][question(j)] = current[j]]
      BY <2>1, <2>2, <2>3, <2>5 DEF TypeInv, TypeOK
    <3>. QED
      BY <1>2, <2>1, <2>2, <2>3, <2>4, <3>1
  <2>6. CASE ckpt[prefix[j]][question(j)] # None
    <3>1. ckpt' = ckpt
      BY <2>1, <2>2, <2>3, <2>6 DEF TypeInv, TypeOK
    <3>. QED
      BY <2>1, <3>1
  <2>. QED
    BY <2>5, <2>6
<1>3. CASE ~LinkParent(j) /\ ~Save(j)
  BY <1>3 DEF Container, LoadSource, AnswerQuestion, PutRecords, PutSummary, Exit, Interrupt, bucket
<1>. QED
  BY <1>1, <1>2, <1>3

LEMMA AcyclicKept ==
  ASSUME TypeInv, TypeInv', LineInv, NEW j \in Jobs, Container(j) \/ Interrupt(j)
  PROVE  parent'[Base] = None /\ Acyclic(parent')
<1>1. CASE parent' = parent
  BY <1>1 DEF LineInv
<1>2. CASE prefix[j] = j /\ parent' = [parent EXCEPT ![j] = source[j]]
  <2>1. parent \in Ancestry /\ parent' \in Ancestry /\ pc[j] # "off"
    BY WritesOwnPrefix DEF TypeInv, TypeOK, Ancestry
  <2>2. j \in Prefixes /\ (\A x \in Prefixes : parent[x] # j) /\ source[j] # j
    BY <1>2, <2>1, NothingBuildsOn
  <2>3. parent'[j] # j /\ \A x \in Prefixes \ {j} : parent'[x] = parent[x]
    BY <1>2, <2>1, <2>2 DEF Ancestry
  <2>4. Acyclic(parent')
    BY <2>1, <2>2, <2>3, LinkIsAcyclic DEF LineInv
  <2>5. Base \in Prefixes \ {j}
    BY ResumeAssumption DEF Prefixes
  <2>. QED
    BY <2>3, <2>4, <2>5 DEF LineInv
<1>. QED
  BY <1>1, <1>2, BucketStep

LEMMA AgreeingKept ==
  ASSUME TypeInv, TypeInv', LineInv, NEW j \in Jobs, Container(j) \/ Interrupt(j)
  PROVE  Agreeing(parent', ckpt')
<1>. DEFINE r == prefix[j]
<1>0. /\ r \in Prefixes /\ (\A x \in Prefixes : parent[x] # r) /\ source[j] # r
      /\ source[j] # None => source[j] \in Prefixes
      /\ \A x \in Prefixes : x # r => ckpt'[x] = ckpt[x]
  BY NothingBuildsOn, WritesOwnPrefix
<1>1. parent \in Ancestry /\ parent' \in Ancestry /\ Agreeing(parent, ckpt)
  BY DEF TypeInv, TypeOK, Ancestry, LineInv
<1>. HIDE DEF r
<1>2. ASSUME NEW p \in Prefixes, p # r, NEW q \in Questions,
             NEW x \in Family(parent', p), NEW y \in Family(parent', p),
             ckpt'[x][q] # None, ckpt'[y][q] # None
      PROVE  ckpt'[x][q] = ckpt'[y][q]
  <2>1. x \in Family(parent, p) /\ y \in Family(parent, p) /\ r \notin Family(parent, p)
    BY <1>2, OthersLoad DEF r
  <2>2. x \in Prefixes /\ y \in Prefixes
    BY <1>1, <2>1, FamilyIsClosed
  <2>3. ckpt'[x] = ckpt[x] /\ ckpt'[y] = ckpt[y]
    BY <1>0, <2>1, <2>2
  <2>. QED
    BY <1>1, <1>2, <2>1, <2>3 DEF Agreeing
<1>3. ASSUME NEW q \in Questions, NEW x \in Family(parent', r) \ {r},
             ckpt'[x][q] # None, ckpt'[r][q] # None
      PROVE  ckpt'[x][q] = ckpt'[r][q]
  <2>1. CASE UNCHANGED <<parent, ckpt>>
    <3>1. r \in Family(parent, r)
      BY <1>0, <1>1, FamilyIsClosed
    <3>. QED
      BY <1>0, <1>1, <1>3, <2>1, <3>1 DEF Agreeing
  <2>2. CASE UNCHANGED ckpt /\ ckpt[r] = Nothing
    BY <1>3, <2>2 DEF Nothing
  <2>3. CASE /\ UNCHANGED parent /\ question(j) \in Questions
             /\ ckpt' = [ckpt EXCEPT ![r][question(j)] = current[j]]
             /\ parent[r] = source[j]
             /\ source[j] # None => /\ reused[j] = Load(source[j])
                                    /\ reused[j][question(j)] \in {None, current[j]}
    <3>1. source[j] # None /\ x \in Family(parent, source[j])
      BY <1>0, <1>1, <1>3, <2>3, FamilyOwn
    <3>2. x \in Family(parent, r) /\ r \in Family(parent, r) /\ x \in Prefixes
      BY <1>0, <1>1, <1>3, <2>3, FamilyIsClosed
    <3>3. ckpt'[x] = ckpt[x]
      BY <1>0, <1>3, <3>2
    <3>4. CASE q = question(j)
      <4>1. Load(source[j])[q] = ckpt[x][q]
        BY <1>0, <1>1, <1>3, <3>1, <3>3, LoadedIsHeld, LoadIsLoaded
      <4>2. ckpt'[r][q] = current[j]
        BY <1>0, <2>3, <3>4 DEF TypeInv, TypeOK
      <4>. QED
        BY <1>3, <2>3, <3>1, <3>3, <3>4, <4>1, <4>2
    <3>5. CASE q # question(j)
      <4>1. ckpt'[r][q] = ckpt[r][q]
        BY <1>0, <2>3, <3>5 DEF TypeInv, TypeOK
      <4>. QED
        BY <1>0, <1>1, <1>3, <3>2, <3>3, <4>1 DEF Agreeing
    <3>. QED
      BY <3>4, <3>5
  <2>. QED
    BY <2>1, <2>2, <2>3, BucketStep DEF r
<1>4. ASSUME NEW q \in Questions, NEW x \in Family(parent', r) \ {r}, NEW y \in Family(parent', r) \ {r},
             ckpt'[x][q] # None, ckpt'[y][q] # None
      PROVE  ckpt'[x][q] = ckpt'[y][q]
  <2>1. parent'[r] # None /\ x \in Family(parent', parent'[r]) /\ y \in Family(parent', parent'[r])
    BY <1>0, <1>1, <1>4, FamilyOwn
  <2>2. parent'[r] \in Prefixes /\ parent'[r] # r
    <3>1. parent'[r] \in {parent[r], source[j]}
      BY <1>0, <1>1, BucketStep DEF r, Ancestry
    <3>. QED
      BY <1>0, <1>1, <2>1, <3>1 DEF Ancestry
  <2>. QED
    BY <1>2, <1>4, <2>1, <2>2
<1>. QED
  BY <1>2, <1>3, <1>4 DEF Agreeing

LEMMA SourceLoads ==
  ASSUME TypeInv, TypeInv', LineInv, NEW j \in Jobs, Container(j) \/ Interrupt(j),
         NEW k \in Jobs, source[k] \in Prefixes, source[k] # prefix[j]
  PROVE  Load(source[k])' = Load(source[k])
<1>1. PICK p \in Prefixes : p = source[k]
  OBVIOUS
<1>2. source'[k] = p
  BY <1>1, WritesOwnPrefix
<1>3. Load(p)' = Load(p)
  BY <1>1, OthersLoad
<1>. QED
  BY <1>1, <1>2, <1>3

LEMMA PlansKept ==
  ASSUME TypeInv, LineInv, NEW j \in Jobs, Container(j) \/ Interrupt(j)
  PROVE  PlanInv'
<1>1. /\ UNCHANGED <<step, plan>> /\ pc[j] # "off"
      /\ status[j] = "InProgress" /\ \A k \in Jobs : k # j => status'[k] = status[k]
  BY WritesOwnPrefix DEF commands
<1>2. \A p \in Prefixes : Retired(p) => Retired(p)'
  BY <1>1 DEF Retired
<1>3. \A c \in Commands : step[c] # "idle" => plan[c] \in Plans
  BY DEF TypeInv, Planned
<1>. QED
  BY <1>1, <1>2, <1>3, ResumeAssumption DEF LineInv, PlanInv, PlanStands, Plans

LEMMA AttemptsKept ==
  ASSUME TypeInv, LineInv, NEW j \in Jobs, Container(j) \/ Interrupt(j)
  PROVE  AttemptInv'
<1>. SUFFICES ASSUME NEW k \in Jobs
              PROVE  /\ status'[k] = "none" => source[k] = None
                     /\ status'[k] # "none" => prefix[k] # None
                     /\ source[k] = None => prefix[k] \in {None, Base}
                     /\ source[k] # None => prefix[k] = k /\ source[k] # k /\ Retired(source[k])'
                     /\ parent'[k] \in {None, source[k]}
                     /\ source[k] # None /\ ckpt'[k] # Nothing => parent'[k] = source[k]
                     /\ status'[k] = "Completed" => private'[prefix[k]] # None
  BY WritesOwnPrefix DEF AttemptInv, Nothing
<1>1. /\ status[j] = "InProgress" /\ pc[j] # "off"
      /\ status'[j] \in {"InProgress", "Completed", "Failed"}
      /\ status'[j] = "Completed" => Exit(j)
      /\ \A i \in Jobs : i # j => status'[i] = status[i]
      /\ \A x \in Prefixes : private[x] # None => private'[x] # None
      /\ \A x \in Prefixes : x # prefix[j] => parent'[x] = parent[x] /\ ckpt'[x] = ckpt[x]
  BY WritesOwnPrefix
<1>. USE DEF LineInv, AttemptInv, TypeInv, TypeOK
<1>2. /\ status'[k] = "none" => source[k] = None
      /\ status'[k] # "none" => prefix[k] # None
      /\ source[k] = None => prefix[k] \in {None, Base}
      /\ source[k] # None => prefix[k] = k /\ source[k] # k
  BY <1>1
<1>3. source[k] # None => Retired(source[k])'
  <2>1. source' = source
    BY WritesOwnPrefix
  <2>. QED
    BY <1>1, <2>1 DEF Retired
<1>4. parent'[k] \in {None, source[k]}
  <2>1. CASE parent' = parent
    BY <2>1
  <2>2. CASE parent' = [parent EXCEPT ![j] = source[j]]
    BY <2>2
  <2>. QED
    BY <2>1, <2>2, BucketStep
<1>5. source[k] # None /\ ckpt'[k] # Nothing => parent'[k] = source[k]
  <2>1. CASE UNCHANGED <<parent, ckpt>>
    BY <2>1
  <2>2. CASE UNCHANGED ckpt /\ ckpt[j] = Nothing /\ parent' = [parent EXCEPT ![j] = source[j]]
    BY <2>2
  <2>3. CASE UNCHANGED parent /\ parent[prefix[j]] = source[j]
    <3>1. CASE k = prefix[j]
      <4>1. source[j] = None => prefix[j] = Base
        BY <1>1, NothingBuildsOn
      <4>2. k = j
        BY <3>1, <4>1, ResumeAssumption
      <4>. QED
        BY <2>3, <3>1, <4>2
    <3>2. CASE k # prefix[j]
      BY <1>1, <2>3, <3>2 DEF Prefixes
    <3>. QED
      BY <3>1, <3>2
  <2>. QED
    BY <2>1, <2>2, <2>3, BucketStep
<1>6. status'[k] = "Completed" => private'[prefix[k]] # None
  <2>1. CASE k # j
    BY <1>1, <2>1
  <2>2. CASE k = j
    <3>1. Exit(j) => private[prefix[j]] # None /\ UNCHANGED private
      BY DEF Exit, RunInv, bucket
    <3>. QED
      BY <1>1, <2>2, <3>1
  <2>. QED
    BY <2>1, <2>2
<1>. QED
  BY <1>2, <1>3, <1>4, <1>5, <1>6

LEMMA RunsKept ==
  ASSUME TypeInv, TypeInv', LineInv, NEW j \in Jobs, Container(j) \/ Interrupt(j)
  PROVE  RunInv'
<1>1. /\ UNCHANGED <<prefix, source>> /\ status[j] = "InProgress" /\ pc[j] # "off"
      /\ \A i \in Jobs : i # j => pc[i] = "off" /\ pc'[i] = "off" /\ status'[i] = status[i]
  <2>1. /\ UNCHANGED <<prefix, source>> /\ status[j] = "InProgress" /\ pc[j] # "off"
        /\ \A i \in Jobs : i # j => pc'[i] = pc[i] /\ status'[i] = status[i]
    BY WritesOwnPrefix
  <2>2. \A i \in Jobs : pc[i] # "off" => i = j
    BY <2>1 DEF LineInv, RunInv
  <2>. QED
    BY <2>1, <2>2
<1>. SUFFICES ASSUME pc'[j] # "off"
     PROVE  /\ source[j] = None =>
                 \A k \in Jobs : parent'[k] = None /\ ~ (source[k] # None /\ status'[k] = "Completed")
            /\ source[j] # None /\ pc'[j] # "load" => reused'[j] = Load(source[j])'
            /\ source[j] # None /\ pc'[j] \notin {"load", "link"} => parent'[j] = source[j]
            /\ pc'[j] = "save" => reused'[j][question(j)'] \in {None, current'[j]}
            /\ pc'[j] \in {"summary", "exit"} => private'[prefix[j]] # None
            /\ pc'[j] = "exit" =>
                 summary'[prefix[j]] = Cardinality({q \in Questions : reused'[j][q] # None})
  BY <1>1 DEF RunInv
<1>2. source[j] # None => source[j] \in Prefixes /\ source[j] # prefix[j] /\ prefix[j] = j
  BY <1>1, NothingBuildsOn
<1>3. source[j] # None => Load(source[j])' = Load(source[j])
  BY <1>2, SourceLoads
<1>4. source[j] = None =>
        \A k \in Jobs : parent'[k] = None /\ ~ (source[k] # None /\ status'[k] = "Completed")
  <2>1. source[j] = None =>
          \A k \in Jobs : parent[k] = None /\ ~ (source[k] # None /\ status[k] = "Completed")
    BY <1>1 DEF LineInv, RunInv
  <2>2. source[j] = None => UNCHANGED parent
    BY BucketStep, ResumeAssumption DEF Prefixes
  <2>. QED
    BY <1>1, <2>1, <2>2
<1>. USE DEF TypeInv, TypeOK, Goto, End
<1>5. CASE LoadSource(j)
  <2>1. \/ pc'[j] = "question" /\ source[j] = None /\ UNCHANGED reused
        \/ pc'[j] = "link" /\ source[j] # None /\ reused'[j] = Load(source[j])
    BY <1>5 DEF LoadSource
  <2>. QED
    BY <1>3, <1>4, <2>1
<1>6. CASE LinkParent(j)
  <2>1. pc[j] = "link" /\ pc'[j] = "question" /\ UNCHANGED reused /\ source[j] # None
    BY <1>6 DEF LinkParent, AtWork
  <2>2. parent'[j] = source[j] /\ reused[j] = Load(source[j])
    <3>1. reused[j] = Load(source[j]) /\ parent[j] \in {None, source[j]}
      BY <2>1 DEF LineInv, RunInv, AttemptInv
    <3>. QED
      BY <1>2, <1>6, <2>1, <3>1 DEF LinkParent
  <2>. QED
    BY <1>3, <2>1, <2>2
<1>7. ASSUME pc[j] \notin {"load", "link"}, UNCHANGED <<parent, reused>>
      PROVE  /\ source[j] # None => reused'[j] = Load(source[j])' /\ parent'[j] = source[j]
  BY <1>1, <1>3, <1>7 DEF LineInv, RunInv
<1>8. ASSUME NEW g \in Generations, AnswerQuestion(j, g)
      PROVE  /\ pc[j] = "question" /\ pc'[j] = "save" /\ UNCHANGED <<parent, reused>>
             /\ reused'[j][question(j)'] \in {None, current'[j]}
  <2>1. question(j)' = question(j) /\ current'[j] = g
    BY <1>8 DEF AnswerQuestion, question
  <2>. QED
    BY <1>8, <2>1 DEF AnswerQuestion, bucket
<1>9. CASE Save(j)
  <2>1. pc[j] = "save" /\ pc'[j] = "question" /\ UNCHANGED <<parent, reused>>
    BY <1>9 DEF Save
  <2>. QED
    BY <1>4, <1>7, <2>1
<1>10. CASE PutRecords(j)
  <2>1. pc[j] = "question" /\ pc'[j] = "summary" /\ UNCHANGED <<parent, reused>>
    BY <1>10 DEF PutRecords
  <2>2. private'[prefix[j]] # None
    <3>1. /\ records[j] \in [Questions -> Generations] /\ prefix[j] \in Prefixes
      BY <1>10, JobRecords, FullRecords, ResumeAssumption DEF PutRecords, AtWork
    <3>. QED
      BY <1>10, <3>1, NoRecords DEF PutRecords
  <2>. QED
    BY <1>4, <1>7, <2>1, <2>2
<1>11. CASE PutSummary(j)
  <2>1. /\ pc[j] = "summary" /\ pc'[j] = "exit" /\ UNCHANGED <<parent, reused, private>>
    BY <1>11 DEF PutSummary
  <2>2. private[prefix[j]] # None /\ prefix[j] \in Prefixes
    BY <2>1 DEF LineInv, RunInv, AtWork
  <2>3. summary'[prefix[j]] = Cardinality({q \in Questions : reused'[j][q] # None})
    BY <1>11, <2>1, <2>2 DEF PutSummary
  <2>. QED
    BY <1>4, <1>7, <2>1, <2>2, <2>3
<1>12. CASE Exit(j) \/ Interrupt(j)
  BY <1>12 DEF Exit, Interrupt
<1>13. ASSUME NEW g \in Generations, AnswerQuestion(j, g)
       PROVE /\ source[j] # None => reused'[j] = Load(source[j])' /\ parent'[j] = source[j]
             /\ pc'[j] = "save" /\ reused'[j][question(j)'] \in {None, current'[j]}
  BY <1>7, <1>8, <1>13
<1>. QED
  BY <1>4, <1>5, <1>6, <1>9, <1>10, <1>11, <1>12, <1>13 DEF Container

LEMMA CompletedKept ==
  ASSUME TypeInv, TypeInv', LineInv, AttemptInv', NEW j \in Jobs, Container(j) \/ Interrupt(j)
  PROVE  CompletedIsWhole'
<1>. SUFFICES ASSUME NEW k \in Jobs, status'[k] = "Completed", source'[k] # None
              PROVE  summary'[prefix'[k]] =
                       Cardinality({q \in Questions : Load(source[k])'[q] # None})
  BY DEF CompletedIsWhole, AttemptInv
<1>1. /\ UNCHANGED <<prefix, source>> /\ pc[j] # "off"
      /\ k # j => status[k] = "Completed"
      /\ k = j => Exit(j)
      /\ \A x \in Prefixes : x # prefix[j] => summary'[x] = summary[x]
  BY WritesOwnPrefix
<1>2. /\ prefix[k] = k /\ k \in Prefixes /\ source[k] \in Prefixes
      /\ k # j => prefix[j] # k
      /\ source[k] # prefix[j]
  BY <1>1, NothingBuildsOn DEF LineInv, AttemptInv, TypeInv, TypeOK, Prefixes
<1>3. Load(source[k])' = Load(source[k])
  BY <1>2, SourceLoads
<1>4. CASE k # j
  BY <1>1, <1>2, <1>3, <1>4 DEF LineInv, CompletedIsWhole
<1>5. CASE k = j
  <2>1. pc[j] = "exit" /\ UNCHANGED <<summary, prefix>>
    BY <1>1, <1>5 DEF Exit, bucket
  <2>2. /\ reused[j] = Load(source[j])
        /\ summary[prefix[j]] = Cardinality({q \in Questions : reused[j][q] # None})
    BY <1>1, <1>5, <2>1 DEF LineInv, RunInv
  <2>. QED
    BY <1>1, <1>3, <1>5, <2>1, <2>2
<1>. QED
  BY <1>4, <1>5

\* The command: it plans on what has ended, submits when nothing runs and its
\* prefix is empty, and leaves the bucket alone.
LEMMA CommandLine ==
  ASSUME TypeInv, LineInv, \A c, d \in Commands : c = d, NEW c \in Commands, Command(c)
  PROVE  LineInv'
<1>. USE DEF LineInv
<1>0. UNCHANGED bucket
  BY DEF Command, PlanFresh, PlanResume, ListJobs, CheckEmpty, Submit, Quit
<1>1. /\ UNCHANGED <<parent, ckpt, private, summary>>
      /\ \A p \in Prefixes : Load(p)' = Load(p)
  BY <1>0, LoadIsLoaded DEF bucket
<1>2. ASSUME UNCHANGED <<jobs, container>> PROVE AttemptInv' /\ RunInv' /\ CompletedIsWhole'
  <2>1. UNCHANGED <<status, prefix, source, pc, reused, records, current>>
    BY <1>2 DEF jobs, container
  <2>2. \A j \in Jobs : UNCHANGED <<question(j), Load(source[j])>>
    BY <1>0, <2>1
       DEF bucket, question, Load, Held, Lineage, ClosedUnderParent
  <2>3. AttemptInv'
    BY <1>1, <2>1 DEF AttemptInv, Retired, Nothing
  <2>4. RunInv'
    BY <1>1, <2>1, <2>2 DEF RunInv
  <2>. QED
    BY <1>1, <2>1, <2>2, <2>3, <2>4 DEF CompletedIsWhole
<1>3. ASSUME UNCHANGED <<jobs, container>>, PlanInv' PROVE LineInv'
  BY <1>1, <1>2, <1>3
<1>p. PlanStands(c) /\ (PlanStands(c)' => PlanInv')
  BY DEF PlanInv
<1>4. ASSUME NEW j \in Jobs, PlanFresh(c, j) PROVE PlanInv'
  <2>1. plan'[c] = [job |-> j, prefix |-> Base, source |-> None] /\ step'[c] = "list"
    BY <1>4 DEF PlanFresh, TypeInv, TypeOK
  <2>. QED
    BY <1>p, <2>1 DEF PlanStands
<1>5. ASSUME NEW j \in Jobs, NEW s \in Jobs, PlanResume(c, j, s) PROVE PlanInv'
  <2>1. /\ plan'[c] = [job |-> j, prefix |-> j, source |-> prefix[s]] /\ step'[c] = "list"
        /\ status[s] = "Failed" /\ UNCHANGED <<status, prefix>>
    BY <1>5 DEF PlanResume, MayResume, TypeInv, TypeOK, jobs
  <2>2. PICK p \in Prefixes : p = prefix[s]
    BY <2>1 DEF AttemptInv, TypeInv, TypeOK
  <2>3. Retired(p)'
    BY <2>1, <2>2, ResumeAssumption DEF TypeInv, TypeOK, Retired, Prefixes
  <2>4. plan'[c].source = p /\ plan'[c].prefix = j /\ plan'[c].job = j /\ p # None
    BY <2>1, <2>2, ResumeAssumption DEF Prefixes
  <2>. QED
    BY <1>p, <2>1, <2>3, <2>4 DEF PlanStands, Retired
<1>6. ASSUME ListJobs(c) PROVE PlanInv'
  <2>1. /\ UNCHANGED <<plan, status, pc>>
        /\ step[c] = "list" /\ step'[c] \in {"idle", "empty"}
        /\ step'[c] = "empty" => \A j \in Jobs : status[j] # "InProgress"
    <3>1. /\ UNCHANGED <<plan, status, pc>> /\ step[c] = "list"
          /\ step' = [step EXCEPT ![c] =
                        IF \E j \in Jobs : status[j] = "InProgress" THEN "idle" ELSE "empty"]
      BY <1>6 DEF ListJobs, jobs, container
    <3>2. step'[c] = IF \E j \in Jobs : status[j] = "InProgress" THEN "idle" ELSE "empty"
      BY <3>1 DEF TypeInv, TypeOK
    <3>. QED
      BY <3>1, <3>2
  <2>2. step'[c] = "empty" => \A j \in Jobs : pc'[j] = "off"
    BY <2>1 DEF TypeInv, TypeOK
  <2>. QED
    BY <1>p, <2>1, <2>2 DEF PlanStands, Retired
<1>7. ASSUME CheckEmpty(c) PROVE PlanInv'
  <2>1. /\ UNCHANGED <<plan, status, pc>> /\ step[c] = "empty"
        /\ step' = [step EXCEPT ![c] = IF IsEmpty(plan[c].prefix) THEN "submit" ELSE "idle"]
    BY <1>7 DEF CheckEmpty, jobs, container
  <2>2. /\ step'[c] \in {"idle", "submit"}
        /\ step'[c] = "submit" => IsEmpty(plan[c].prefix)
    BY <2>1 DEF TypeInv, TypeOK
  <2>3. IsEmpty(plan[c].prefix)' <=> IsEmpty(plan[c].prefix)
    BY <1>1, <2>1 DEF IsEmpty, HasObjects, Nothing
  <2>. QED
    BY <1>p, <2>1, <2>2, <2>3 DEF PlanStands, Retired
<1>8. ASSUME Quit(c) PROVE PlanInv'
  <2>1. step'[c] = "idle"
    BY <1>8 DEF Quit, TypeInv, TypeOK
  <2>. QED
    BY <1>p, <2>1 DEF PlanStands
<1>9. CASE Submit(c)
  <2>1. PICK j \in Jobs : j = plan[c].job
    BY <1>9 DEF Submit, TypeInv, Planned, Plans
  <2>2. PICK p \in Prefixes, s \in Prefixes \cup {None} : p = plan[c].prefix /\ s = plan[c].source
    BY <1>9 DEF Submit, TypeInv, Planned, Plans
  <2>3. /\ status' = [status EXCEPT ![j] = "InProgress"]
        /\ prefix' = [prefix EXCEPT ![j] = p]
        /\ source' = [source EXCEPT ![j] = s]
        /\ pc' = [pc EXCEPT ![j] = "load"]
        /\ step'[c] = "idle"
        /\ UNCHANGED <<reused, records, current, plan>>
    BY <1>9, <2>1, <2>2 DEF Submit, TypeInv, TypeOK
  <2>4. /\ status[j] = "none" /\ source[j] = None
        /\ IsEmpty(p) /\ \A k \in Jobs : pc[k] = "off" /\ status[k] # "InProgress"
        /\ \/ p = Base /\ s = None
           \/ p = j /\ s # None /\ Retired(s)
    BY <1>9, <1>p, <2>1, <2>2 DEF Submit, PlanStands, AttemptInv, TypeInv, Planned, TypeOK
  <2>5. s # j /\ (s # None => Retired(s))
    BY <2>4, ResumeAssumption DEF Retired
  <2>6. PlanInv'
    BY <1>p, <2>3 DEF PlanStands
  <2>7. AttemptInv'
    <3>1. ASSUME NEW k \in Jobs, k # j
          PROVE  /\ status'[k] = status[k] /\ source'[k] = source[k] /\ prefix'[k] = prefix[k]
                 /\ source[k] # None => Retired(source[k])'
      <4>1. status'[k] = status[k] /\ source'[k] = source[k] /\ prefix'[k] = prefix[k]
        BY <2>3, <3>1 DEF TypeInv, TypeOK
      <4>. QED
        BY <2>3, <2>4, <4>1 DEF AttemptInv, Retired, TypeInv, TypeOK
    <3>2. /\ status'[j] = "InProgress" /\ source'[j] = s /\ prefix'[j] = p
          /\ s # None => Retired(source[j])'
      BY <2>3, <2>4, <2>5 DEF TypeInv, TypeOK, Retired
    <3>3. /\ parent[j] = None
          /\ s # None => ckpt[j] = Nothing
      BY <2>4 DEF AttemptInv, IsEmpty, HasObjects
    <3>4. ASSUME NEW k \in Jobs, k # j
          PROVE  /\ status'[k] = "none" => source'[k] = None
                 /\ status'[k] # "none" => prefix'[k] # None
                 /\ source'[k] = None => prefix'[k] \in {None, Base}
                 /\ source'[k] # None => prefix'[k] = k /\ source'[k] # k /\ Retired(source[k])'
                 /\ parent'[k] \in {None, source'[k]}
                 /\ source'[k] # None /\ ckpt'[k] # Nothing => parent'[k] = source'[k]
                 /\ status'[k] = "Completed" => private'[prefix'[k]] # None
      BY <1>1, <3>1, <3>4 DEF AttemptInv
    <3>5. /\ status'[j] # "none" /\ prefix'[j] # None /\ status'[j] # "Completed"
          /\ source'[j] = None => prefix'[j] \in {None, Base}
          /\ source'[j] # None => prefix'[j] = j /\ source'[j] # j /\ Retired(source[j])'
          /\ parent'[j] \in {None, source'[j]}
          /\ source'[j] # None /\ ckpt'[j] # Nothing => parent'[j] = source'[j]
      BY <1>1, <2>4, <2>5, <3>2, <3>3, ResumeAssumption DEF Prefixes, Nothing
    <3>. QED
      BY <3>4, <3>5 DEF AttemptInv, Nothing
  <2>8. RunInv'
    <3>1. \A i \in Jobs : pc'[i] # "off" => i = j
      BY <2>3, <2>4 DEF TypeInv, TypeOK
    <3>2. pc'[j] = "load" /\ source'[j] = s
      BY <2>3 DEF TypeInv, TypeOK
    <3>3. ASSUME s = None, NEW k \in Jobs
          PROVE  parent[k] = None /\ ~ (source'[k] # None /\ status'[k] = "Completed")
      <4>1. p = Base /\ \A x \in Prefixes : parent[x] = None /\ private[x] = None
        BY <2>4, <3>3 DEF IsEmpty, HasObjects
      <4>2. k # j => prefix[k] \in {None, Base, k} /\ status'[k] = status[k] /\ source'[k] = source[k]
        BY <2>3 DEF TypeInv, TypeOK
      <4>3. status[k] = "Completed" => private[prefix[k]] # None /\ prefix[k] # None
        BY DEF AttemptInv
      <4>4. status'[j] = "InProgress"
        BY <2>3 DEF TypeInv, TypeOK
      <4>. QED
        BY <4>1, <4>2, <4>3, <4>4 DEF Prefixes
    <3>. QED
      BY <1>1, <3>1, <3>2, <3>3 DEF RunInv
  <2>9. CompletedIsWhole'
    <3>. SUFFICES ASSUME NEW k \in Jobs, status'[k] = "Completed"
                  PROVE  /\ private'[prefix'[k]] # None
                         /\ source'[k] # None =>
                              summary'[prefix'[k]] =
                                Cardinality({q \in Questions : Load(source[k])'[q] # None})
      BY DEF CompletedIsWhole
    <3>1. /\ k # j /\ status[k] = "Completed" /\ prefix'[k] = prefix[k]
          /\ source'[k] = source[k]
      BY <2>3 DEF TypeInv, TypeOK
    <3>2. Load(source[k])' = Load(source[k])
      BY <1>0, <3>1 DEF bucket, Load, Held, Lineage, ClosedUnderParent
    <3>. QED
      BY <1>1, <3>1, <3>2 DEF CompletedIsWhole
  <2>. QED
    BY <1>1, <2>6, <2>7, <2>8, <2>9
<1>. QED
  BY <1>3, <1>4, <1>5, <1>6, <1>7, <1>8, <1>9
     DEF Command, PlanFresh, PlanResume, ListJobs, CheckEmpty, Quit

LEMMA LineKept ==
  ASSUME TypeInv, TypeInv', LineInv, \A c, d \in Commands : c = d, [Next]_vars
  PROVE  LineInv'
<1>1. ASSUME NEW c \in Commands, Command(c) PROVE LineInv'
  BY <1>1, CommandLine
<1>2. ASSUME NEW j \in Jobs, Container(j) \/ Interrupt(j) PROVE LineInv'
  <2>1. AttemptInv'
    BY <1>2, AttemptsKept
  <2>. QED
    BY <1>2, <2>1, PlansKept, RunsKept, AcyclicKept, AgreeingKept, CompletedKept DEF LineInv
<1>3. CASE UNCHANGED vars
  <2>1. UNCHANGED <<parent, ckpt, private, summary, status, prefix, source, pc, reused, records,
                    current, step, plan>>
    BY <1>3 DEF vars, bucket, jobs, container, commands
  <2>2. \A j \in Jobs : UNCHANGED <<question(j), Load(source[j])>>
    BY <2>1 DEF question, Load, Held, Lineage, ClosedUnderParent
  <2>3. PlanInv'
    BY <2>1 DEF LineInv, PlanInv, PlanStands, Retired, IsEmpty, HasObjects, Nothing
  <2>4. AttemptInv'
    BY <2>1 DEF LineInv, AttemptInv, Retired, Nothing
  <2>5. RunInv'
    <3>1. RunInv
      BY DEF LineInv
    <3>. QED
      BY <2>1, <2>2, <3>1 DEF RunInv
  <2>6. CompletedIsWhole'
    BY <2>1, <2>2 DEF LineInv, CompletedIsWhole
  <2>. QED
    BY <2>1, <2>3, <2>4, <2>5, <2>6 DEF LineInv
<1>. QED
  BY <1>1, <1>2, <1>3 DEF Next

LEMMA LineInvariant ==
  ASSUME \A c, d \in Commands : c = d
  PROVE  Spec => [](TypeInv /\ LineInv)
<1>1. Init => LineInv
  <2>. SUFFICES ASSUME Init PROVE LineInv
    OBVIOUS
  <2>. USE ResumeAssumption DEF Init, Prefixes
  <2>1. PlanInv /\ RunInv /\ CompletedIsWhole
    BY DEF PlanInv, PlanStands, RunInv, CompletedIsWhole
  <2>2. AttemptInv
    BY DEF AttemptInv, Nothing
  <2>3. Acyclic(parent)
    BY DEF Acyclic
  <2>4. Agreeing(parent, ckpt)
    BY DEF Agreeing, Nothing, Family
  <2>. QED
    BY <2>1, <2>2, <2>3, <2>4 DEF LineInv
<1>2. TypeInv /\ TypeInv' /\ LineInv /\ [Next]_vars => LineInv'
  BY LineKept
<1>. QED
  BY <1>1, <1>2, TypeInvariant, PTL DEF Spec

LEMMA OneAnswer == ASSUME NEW S, \A x, y \in S : x = y PROVE ~ (Cardinality(S) > 1)
<1>1. CASE S = {}
  BY <1>1, FS_EmptySet
<1>2. ASSUME NEW x \in S PROVE ~ (Cardinality(S) > 1)
  <2>1. S = {x}
    OBVIOUS
  <2>. QED
    BY <2>1, FS_Singleton
<1>. QED
  BY <1>1, <1>2

\* Retained work of a command at a time always loads: attempts of a lineage
\* agree on every answer they hold, however long the chain of resumptions and
\* wherever its jobs were interrupted, and no attempt descends from itself.
THEOREM ConsistentLineage ==
  ASSUME \A c, d \in Commands : c = d
  PROVE  Spec => []LineageIsConsistent
<1>1. TypeInv /\ LineInv => LineageIsConsistent
  <2>. SUFFICES ASSUME TypeInv, LineInv, NEW p \in Prefixes PROVE ~Cyclic(p) /\ ~Contradictory(p)
    BY DEF LineageIsConsistent
  <2>0. parent \in Ancestry /\ Acyclic(parent) /\ Agreeing(parent, ckpt)
    BY DEF TypeInv, TypeOK, Ancestry, LineInv
  <2>1. ~Cyclic(p)
    <3>. SUFFICES ASSUME NEW x \in Lineage(p), parent[x] # None PROVE x \notin Lineage(parent[x])
      BY DEF Cyclic
    <3>1. x \in Prefixes
      BY DEF Lineage
    <3>2. parent[x] \in Prefixes
      BY <2>0, <3>1 DEF Ancestry
    <3>. QED
      BY <2>0, <3>1, <3>2, LoadIsLoaded DEF Acyclic
  <2>2. ~Contradictory(p)
    <3>. SUFFICES ASSUME NEW q \in Questions PROVE ~ (Cardinality(Held(p, q)) > 1)
      BY DEF Contradictory
    <3>1. \A g, h \in Held(p, q) : g = h
      BY <2>0, LoadIsLoaded DEF Held, Agreeing
    <3>. QED
      BY <3>1, OneAnswer
  <2>. QED
    BY <2>1, <2>2
<1>. QED
  BY <1>1, LineInvariant, PTL

\* An attempt that has saved any answer gives back all its source had.
THEOREM LinkedWorkStays ==
  ASSUME \A c, d \in Commands : c = d
  PROVE  Spec => []LinkedWorkIsRetained
<1>1. TypeInv /\ LineInv => LinkedWorkIsRetained
  <2>. SUFFICES ASSUME TypeInv, LineInv, NEW j \in Jobs, source[j] # None,
                       ckpt[prefix[j]] # Nothing, NEW q \in Questions, Load(source[j])[q] # None
                PROVE  Load(prefix[j])[q] = Load(source[j])[q]
    BY DEF LinkedWorkIsRetained
  <2>1. parent \in Ancestry /\ Agreeing(parent, ckpt)
    BY DEF TypeInv, TypeOK, Ancestry, LineInv
  <2>2. /\ prefix[j] = j /\ j \in Prefixes /\ source[j] \in Prefixes
        /\ parent[j] = source[j]
    BY DEF LineInv, AttemptInv, TypeInv, TypeOK, Prefixes
  <2>3. PICK x \in Family(parent, source[j]) : ckpt[x][q] = Load(source[j])[q]
    BY <2>1, <2>2, LoadedIsHeld, LoadIsLoaded
  <2>4. x \in Family(parent, j)
    BY <2>1, <2>2, FamilyOwn
  <2>. QED
    BY <2>1, <2>2, <2>3, <2>4, LoadedIsHeld, LoadIsLoaded
<1>. QED
  BY <1>1, LineInvariant, PTL

\* A completed job has published, and counts as reused what its source holds
\* to this day.
THEOREM WholeWhenCompleted ==
  ASSUME \A c, d \in Commands : c = d
  PROVE  Spec => []CompletedIsWhole
<1>1. LineInv => CompletedIsWhole
  BY DEF LineInv
<1>. QED
  BY <1>1, LineInvariant, PTL
=============================================================================
