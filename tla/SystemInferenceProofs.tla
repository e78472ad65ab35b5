----------------------- MODULE SystemInferenceProofs -----------------------
(***************************************************************************)
(* The inference loop for any number of runs, questions, interruptions and *)
(* any disagreement between model calls: types, and the agreement of what  *)
(* runs accept and publish with what is durable.                           *)
(***************************************************************************)
EXTENDS SystemInference, TLAPS, SequenceTheorems

-----------------------------------------------------------------------------
\* A run with an answer for each question has a result to publish.
LEMMA FullRecords == ASSUME NEW s \in Seq(Answers), Len(s) = N
                     PROVE  s \in [Questions -> Answers]
  BY LenProperties, InferenceAssumption DEF Questions

\* Accepting an answer makes the records one longer, and leaves the others.
LEMMA AppendRecord ==
  ASSUME NEW s \in Seq(Answers), NEW a \in Answers
  PROVE  /\ Append(s, a) \in Seq(Answers)
         /\ Len(Append(s, a)) = Len(s) + 1
         /\ Append(s, a)[Len(s) + 1] = a
         /\ \A q \in 1..Len(s) : Append(s, a)[q] = s[q]
  BY AppendProperties, LenProperties

\* Types are kept by every step: a run never reaches past the last question,
\* and publishes with an answer to every question.
LEMMA TypeStep == ASSUME TypeOK, [Next]_vars PROVE TypeOK'
<1>. USE InferenceAssumption DEF Active
<1>0. \A r \in Runs : records[r] \in Seq(Answers) /\ Len(records[r]) \in Nat
  BY LenProperties DEF TypeOK
<1>. USE DEF TypeOK, Goto, question
<1>1. CASE UNCHANGED vars
  BY <1>1 DEF vars, durable, local, InPosition
<1>2. ASSUME NEW m \in Manifests, Prepare(m) PROVE TypeOK'
  BY <1>2 DEF Prepare, local, InPosition
<1>3. ASSUME NEW r \in Runs, Start(r) PROVE TypeOK'
  BY <1>3 DEF Start, durable, InPosition
<1>4. ASSUME NEW r \in Runs, Lookup(r) PROVE TypeOK'
  <2>1. ASSUME question(r) <= N PROVE answer[question(r)] \in Answers \cup {None}
    BY <1>0, <2>1 DEF Questions
  <2>2. Len(records[r]) = N <=> question(r) > N
    BY <1>0, <1>4 DEF InPosition
  <2>3. Len(records[r]) < N <=> question(r) <= N
    BY <1>0, <1>4 DEF InPosition
  <2>4. InPosition(r)'
    BY <1>4, <2>1, <2>2, <2>3 DEF Lookup, InPosition
  <2>5. \A s \in Runs \ {r} : InPosition(s)'
    BY <1>4 DEF Lookup, InPosition
  <2>. QED
    BY <1>4, <2>1, <2>4, <2>5 DEF Lookup, durable
<1>5. ASSUME NEW r \in Runs, NEW g \in Generations, Generate(r, g) PROVE TypeOK'
  BY <1>5 DEF Generate, durable, Answers, InPosition
<1>6. ASSUME NEW r \in Runs, Write(r) PROVE TypeOK'
  BY <1>6 DEF Write, Questions, InPosition
<1>7. ASSUME NEW r \in Runs, Confirm(r) PROVE TypeOK'
  BY <1>7 DEF Confirm, durable, InPosition
<1>8. ASSUME NEW r \in Runs, Check(r) PROVE TypeOK'
  <2>1. saved[r] \in Answers /\ Len(records[r]) < N
    BY <1>8 DEF Check, InPosition
  <2>2. /\ Append(records[r], saved[r]) \in Seq(Answers)
        /\ Len(Append(records[r], saved[r])) = Len(records[r]) + 1
    BY <1>0, <2>1, AppendRecord
  <2>3. Len(records[r]) + 1 <= N
    BY <1>0, <2>1
  <2>4. InPosition(r)'
    BY <1>8, <2>2, <2>3 DEF Check, InPosition
  <2>5. \A s \in Runs \ {r} : InPosition(s)'
    BY <1>8 DEF Check, InPosition
  <2>. QED
    BY <1>8, <2>2, <2>4, <2>5 DEF Check, durable
<1>9. ASSUME NEW r \in Runs, Publish(r) PROVE TypeOK'
  <2>1. Result(r) \in Results
    BY <1>9, FullRecords DEF Publish, Result, Results, InPosition
  <2>. QED
    BY <1>9, <2>1 DEF Publish, InPosition
<1>10. ASSUME NEW r \in Runs, Verify(r) PROVE TypeOK'
  BY <1>10 DEF Verify, durable, InPosition
<1>11. ASSUME NEW r \in Runs, Crash(r) PROVE TypeOK'
  BY <1>11 DEF Crash, durable, InPosition
<1>12. ASSUME NEW r \in Runs, Rerun(r) PROVE TypeOK'
  BY <1>12 DEF Rerun, durable, InPosition
<1>. QED
  BY <1>1, <1>2, <1>3, <1>4, <1>5, <1>6, <1>7, <1>8, <1>9, <1>10, <1>11, <1>12 DEF Next, Step

THEOREM TypeCorrect == Spec => []TypeOK
<1>1. Init => TypeOK
  BY InferenceAssumption DEF Init, TypeOK, InPosition, Questions, Active
<1>. QED
  BY <1>1, TypeStep, PTL DEF Spec

-----------------------------------------------------------------------------
(***************************************************************************)
(* What a run holds agrees with what is durable: its inputs while it is at *)
(* work, the answer it is about to accept, and those it has accepted.      *)
(* Agreement survives the steps of the other runs because nothing durable  *)
(* is replaced, and a run publishes only from agreement.                   *)
(***************************************************************************)
Agrees(r) == /\ pc[r] \in Active => manifest[r] = inputs
             /\ pc[r] = "check" => saved[r] = answer[question(r)]
             /\ \A q \in DOMAIN records[r] : records[r][q] = answer[q]

AgreementInv == /\ TypeOK
                /\ \A r \in Runs : Agrees(r)
                /\ PublishedIsDurable

\* The length of what a run has accepted, and where its members come from.
LEMMA RecordsType ==
  ASSUME TypeOK, NEW r \in Runs
  PROVE  /\ records[r] \in Seq(Answers)
         /\ Len(records[r]) \in 0..N
         /\ DOMAIN records[r] = 1..Len(records[r])
         /\ \A q \in DOMAIN records[r] : q \in Questions /\ records[r][q] \in Answers
         /\ question(r) \in Nat \ {0}
         /\ question(r) <= N => question(r) \in Questions
<1>1. records[r] \in Seq(Answers) /\ Len(records[r]) <= N
  BY DEF TypeOK, InPosition
<1>2. Len(records[r]) \in Nat /\ DOMAIN records[r] = 1..Len(records[r])
  BY <1>1, LenProperties
<1>3. \A q \in 1..Len(records[r]) : records[r][q] \in Answers
  BY <1>1, ElementOfSeq
<1>. QED
  BY <1>1, <1>2, <1>3, InferenceAssumption DEF Questions, question

\* Nothing durable is ever replaced.
LEMMA DurableStays ==
  ASSUME TypeOK, [Next]_vars
  PROVE  /\ inputs # None => inputs' = inputs
         /\ \A q \in Questions : answer[q] # None => answer'[q] = answer[q]
<1>1. ASSUME NEW m \in Manifests, Prepare(m)
      PROVE  UNCHANGED answer /\ (inputs # None => inputs' = inputs)
  BY <1>1 DEF Prepare
<1>2. ASSUME NEW r \in Runs, Write(r)
      PROVE  UNCHANGED inputs /\ \A q \in Questions : answer[q] # None => answer'[q] = answer[q]
  BY <1>2 DEF Write, TypeOK
<1>3. ASSUME NEW r \in Runs, Start(r) \/ Lookup(r) \/ (\E g \in Generations : Generate(r, g))
                               \/ Confirm(r) \/ Check(r) \/ Publish(r) \/ Verify(r)
                               \/ Crash(r) \/ Rerun(r)
      PROVE  UNCHANGED <<inputs, answer>>
  BY <1>3 DEF Start, Lookup, Generate, Confirm, Check, Publish, Verify, Crash, Rerun, durable
<1>4. CASE UNCHANGED vars
  BY <1>4 DEF vars, durable
<1>. QED
  BY <1>1, <1>2, <1>3, <1>4 DEF Next, Step

\* A run that does not move keeps its agreement.
LEMMA OthersAgree ==
  ASSUME TypeOK, [Next]_vars, NEW r \in Runs, Agrees(r),
         pc'[r] = pc[r], manifest'[r] = manifest[r], saved'[r] = saved[r],
         records'[r] = records[r]
  PROVE  Agrees(r)'
<1>1. pc[r] \in Active => manifest[r] = inputs'
  BY DurableStays, NoneIsNothing DEF Agrees, TypeOK, InPosition
<1>2. pc[r] = "check" => saved[r] = answer'[question(r)]
  <2>1. pc[r] = "check" => question(r) \in Questions /\ saved[r] \in Answers
    BY RecordsType, InferenceAssumption DEF TypeOK, InPosition, question
  <2>. QED
    BY <2>1, DurableStays, NoneIsNothing DEF Agrees
<1>3. \A q \in DOMAIN records[r] : records[r][q] = answer'[q]
  BY RecordsType, DurableStays, NoneIsNothing DEF Agrees
<1>. QED
  BY <1>1, <1>2, <1>3 DEF Agrees, question

\* Each step of a run leaves it in agreement, and so is what it publishes.
LEMMA AgreementStep ==
  ASSUME AgreementInv, TypeOK', NEW r \in Runs, Step(r) \/ Crash(r) \/ Rerun(r)
  PROVE  Agrees(r)'
<1>. USE DEF AgreementInv, Goto
<1>1. Agrees(r) /\ TypeOK
  OBVIOUS
<1>2. CASE Start(r)
  <2>1. /\ pc'[r] \in Active => manifest'[r] = inputs'
        /\ pc'[r] # "check"
        /\ records'[r] = << >>
    BY <1>1, <1>2 DEF Start, durable, TypeOK, Active
  <2>. QED
    BY <2>1 DEF Agrees
<1>3. CASE Lookup(r)
  BY <1>1, <1>3 DEF Lookup, durable, TypeOK, Active, Agrees, question
<1>4. ASSUME NEW g \in Generations, Generate(r, g) PROVE Agrees(r)'
  BY <1>1, <1>4 DEF Generate, durable, TypeOK, Active, Agrees, question
<1>5. CASE Write(r)
  <2>1. \A q \in DOMAIN records[r] : answer'[q] = answer[q]
    BY <1>1, <1>5, RecordsType, NoneIsNothing DEF Write, Agrees, TypeOK
  <2>. QED
    BY <1>1, <1>5, <2>1 DEF Write, TypeOK, Active, Agrees, question
<1>6. CASE Confirm(r)
  BY <1>1, <1>6 DEF Confirm, durable, TypeOK, Active, Agrees, question
<1>7. CASE Check(r)
  <2>1. CASE saved[r].inputs = manifest[r]
    <3>1. saved[r] \in Answers
      BY <1>1, <1>7 DEF Check, TypeOK, InPosition
    <3>2. records'[r] = Append(records[r], saved[r])
      BY <1>1, <1>7, <2>1 DEF Check, TypeOK
    <3>3. DOMAIN records'[r] = 1..(Len(records[r]) + 1)
      BY <1>1, <3>1, <3>2, RecordsType, AppendRecord, LenProperties
    <3>4. \A q \in DOMAIN records'[r] : records'[r][q] = answer[q]
      BY <1>1, <1>7, <3>1, <3>2, <3>3, RecordsType, AppendRecord DEF Agrees, question, Check
    <3>. QED
      BY <1>1, <1>7, <2>1, <3>4 DEF Check, durable, TypeOK, Active, Agrees
  <2>2. CASE saved[r].inputs # manifest[r]
    BY <1>1, <1>7, <2>2 DEF Check, durable, TypeOK, Active, Agrees
  <2>. QED
    BY <2>1, <2>2
<1>8. CASE Publish(r)
  BY <1>1, <1>8 DEF Publish, TypeOK, Active, Agrees
<1>9. CASE Verify(r)
  BY <1>1, <1>9 DEF Verify, durable, TypeOK, Active, Agrees
<1>10. CASE Crash(r)
  BY <1>1, <1>10 DEF Crash, durable, TypeOK, Active, Agrees
<1>11. CASE Rerun(r)
  BY <1>1, <1>11 DEF Rerun, durable, TypeOK, Active, Agrees
<1>. QED
  BY <1>2, <1>3, <1>4, <1>5, <1>6, <1>7, <1>8, <1>9, <1>10, <1>11 DEF Step

\* What is published agrees with what is durable, whoever publishes.
LEMMA PublishedStep ==
  ASSUME AgreementInv, [Next]_vars
  PROVE  PublishedIsDurable'
<1>. USE DEF AgreementInv
<1>1. CASE inference # None /\ inference' = inference
  <2>1. inference \in Results
    BY <1>1 DEF TypeOK
  <2>2. inputs # None /\ \A q \in Questions : answer[q] # None
    BY <1>1, <2>1, NoneIsNothing DEF PublishedIsDurable, Results
  <2>. QED
    BY <1>1, <2>2, DurableStays DEF PublishedIsDurable
<1>2. ASSUME NEW r \in Runs, Publish(r), inference = None PROVE PublishedIsDurable'
  <2>1. Len(records[r]) = N /\ manifest[r] = inputs
    BY <1>2 DEF Publish, TypeOK, InPosition, Agrees, Active
  <2>2. DOMAIN records[r] = Questions
    BY <2>1, RecordsType DEF Questions
  <2>3. inference' = Result(r) /\ UNCHANGED <<inputs, answer>>
    BY <1>2 DEF Publish
  <2>. QED
    BY <2>1, <2>2, <2>3 DEF Agrees, PublishedIsDurable, Result
<1>3. CASE inference' = None
  BY <1>3 DEF PublishedIsDurable
<1>4. ASSUME NEW r \in Runs, Step(r) \/ Crash(r) \/ Rerun(r), inference' # inference
      PROVE  Publish(r) /\ inference = None
  BY <1>4 DEF Step, Start, Lookup, Generate, Write, Confirm, Check, Publish, Verify, Crash,
       Rerun, durable
<1>5. CASE (\E m \in Manifests : Prepare(m)) \/ UNCHANGED vars
  BY <1>5, <1>1, <1>3 DEF Prepare, vars, durable
<1>. QED
  BY <1>1, <1>2, <1>3, <1>4, <1>5 DEF Next

\* Only the run that moves changes its own memory.
LEMMA LocalSteps ==
  ASSUME TypeOK, NEW r \in Runs, NEW s \in Runs, s # r, Step(r) \/ Crash(r) \/ Rerun(r)
  PROVE  /\ pc'[s] = pc[s] /\ manifest'[s] = manifest[s]
         /\ saved'[s] = saved[s] /\ records'[s] = records[s]
  BY DEF Step, Start, Lookup, Generate, Write, Confirm, Check, Publish, Verify, Crash, Rerun,
         TypeOK, Goto

\* Agreement is kept by every step of any run.
LEMMA AgreementKept == ASSUME AgreementInv, [Next]_vars PROVE AgreementInv'
<1>. SUFFICES ASSUME NEW s \in Runs PROVE Agrees(s)'
  BY PublishedStep, TypeStep DEF AgreementInv
<1>0. TypeOK /\ TypeOK' /\ Agrees(s)
  BY TypeStep DEF AgreementInv
<1>1. CASE UNCHANGED local
  BY <1>0, <1>1, OthersAgree DEF local
<1>2. ASSUME NEW r \in Runs, Step(r) \/ Crash(r) \/ Rerun(r) PROVE Agrees(s)'
  <2>1. CASE s = r
    BY <1>0, <1>2, <2>1, AgreementStep
  <2>2. CASE s # r
    BY <1>0, <1>2, <2>2, LocalSteps, OthersAgree
  <2>. QED
    BY <2>1, <2>2
<1>. QED
  BY <1>1, <1>2 DEF Next, vars, Prepare, local

THEOREM Agreement == Spec => []AgreementInv
<1>1. Init => AgreementInv
  BY InferenceAssumption
     DEF Init, AgreementInv, TypeOK, InPosition, Agrees, PublishedIsDurable, Questions, Active
<1>. QED
  BY <1>1, AgreementKept, PTL DEF Spec

\* No accepted answer is lost or replaced, wherever the run that accepted it,
\* or any other, is interrupted.
THEOREM AcceptedWork == Spec => []AcceptedIsDurable
<1>1. AgreementInv => AcceptedIsDurable
  BY DEF AgreementInv, Agrees, AcceptedIsDurable
<1>. QED
  BY <1>1, Agreement, PTL

\* inference.json is the durable inputs and the durable answer to every
\* question, although competing runs may each have written some of them.
THEOREM Published == Spec => []PublishedIsDurable
<1>1. AgreementInv => PublishedIsDurable
  BY DEF AgreementInv
<1>. QED
  BY <1>1, Agreement, PTL

\* A run that comes to publish finds nothing there, or its own result.
THEOREM NoConflictAtTheEnd == Spec => []PublishNeverConflicts
<1>1. AgreementInv => PublishNeverConflicts
  <2>. SUFFICES ASSUME AgreementInv, NEW r \in Runs,
                       pc[r] \in {"publish", "verify"}, inference # None
                PROVE  inference = Result(r)
    BY DEF PublishNeverConflicts
  <2>1. TypeOK /\ Agrees(r) /\ PublishedIsDurable
    BY DEF AgreementInv
  <2>2. inference \in Results /\ records[r] \in [Questions -> Answers]
    BY <2>1, FullRecords DEF TypeOK, InPosition
  <2>3. inference.inputs = manifest[r]
    BY <2>1 DEF Agrees, Active, PublishedIsDurable
  <2>4. \A q \in Questions : inference.records[q] = records[r][q]
    BY <2>1, <2>2 DEF Agrees, PublishedIsDurable
  <2>5. inference.records = records[r]
    BY <2>2, <2>4 DEF Results
  <2>. QED
    BY <2>2, <2>3, <2>5 DEF Results, Result
<1>. QED
  BY <1>1, Agreement, PTL
=============================================================================
