----------------------------- MODULE Evaluation -----------------------------
(***************************************************************************)
(* Scoring of saved answers: evaluate_system (lava/evaluation/system.py)   *)
(* and evaluate_refinement (lava/readers/refinement.py), both with the     *)
(* judge of lava/evaluation/semantic.py, whose decisions on pairs of texts *)
(* are durable and shared.  Evaluators run on one checkout at the same     *)
(* time or one after the other, and may die at any step.  The inference    *)
(* they score is complete and never changes (SystemInference): a constant. *)
(***************************************************************************)
EXTENDS Metric

CONSTANTS Evaluators,
          Probes,        \* the controls: [pair |-> ..., expected |-> "YES" or "NO"]
          References,    \* by question: [format, answer, pages]
          Available,     \* by question: the pages that were retrieved
          First,         \* by question: the prediction [valid, answer, pages]
          Second,        \* by question: that of the second read
          Raws,          \* what the judge's model may say
          MaxCrashes,    \* bound on interruptions
          None

Kinds   == {"first", "second"}
Ids     == DOMAIN References

\* parse_decision: nothing but the two words, with blanks around them or not.
Says(raw) == CASE raw \in {"YES", "YES "} -> "YES"
               [] raw \in {"NO", "NO "}   -> "NO"
               [] OTHER                   -> "none"

\* focus_inputs: the second read sees the pages the first one cited, or all.
Focus(i) == IF First[i].valid /\ First[i].pages # {} THEN First[i].pages ELSE Available[i]

Predicted(kind) == IF kind = "first" THEN First ELSE Second
Shown(kind, i)  == IF kind = "first" THEN Available[i] ELSE Focus(i)

\* A text is the one element of an answer that is not a list.
IsAnswer(format, answer) == /\ answer \in Seq(ToSet(answer))
                            /\ format \notin {"unordered_list", "ordered_list"} => Len(answer) = 1

ASSUME EvaluationAssumption ==
  /\ References \in Seq(ToSet(References)) /\ Probes \in Seq(ToSet(Probes)) /\ Probes # << >>
  /\ \A n \in DOMAIN Probes : Probes[n].expected \in {"YES", "NO"}
  /\ None \notin Raws
  /\ DOMAIN First = Ids /\ DOMAIN Second = Ids /\ DOMAIN Available = Ids
  /\ \A i \in Ids : \A answer \in {References[i].answer, First[i].answer, Second[i].answer} :
       IsAnswer(References[i].format, answer)
  /\ \A i \in Ids : References[i].pages # {} /\ First[i].pages \subseteq Available[i]
                                            /\ Second[i].pages \subseteq Focus(i)
  /\ MaxCrashes \in Nat

\* The pairs a run asks about: the controls, then question after question.
QuestionPairs(kind) ==
  FlattenSeq([i \in Ids |-> PairsOf(References[i].format, References[i].answer, Predicted(kind)[i].answer)])

Asked(kind) == [n \in DOMAIN Probes |-> Probes[n].pair] \o QuestionPairs(kind)

Pairs == UNION {ToSet(Asked(kind)) : kind \in Kinds}

\* score_predictions, for what was said of each pair.
Row(kind, i, said) ==
  LET gold      == References[i]
      p         == Predicted(kind)[i]
      answer    == AnswerScore(gold.format, gold.answer, p.answer, said)
      grounding == SetF1(gold.pages, p.pages) IN
  [answer    |-> answer,
   grounding |-> grounding,
   overall   |-> Mean(answer, grounding),
   category  |-> FailureCategory(p.valid, gold.pages \subseteq Shown(kind, i), answer, grounding)]

Rows(kind, said) == [i \in Ids |-> Row(kind, i, said)]

VARIABLES
  decisions,     \* decisions[p]: the raw decision on pair p, under decisions/
  acceptance,    \* the reports under acceptance/
  summaries,     \* the summaries of first passes under evaluation/
  refinement,    \* evaluation.json of the second pass
  files,         \* reports/system on the checkout: summary.json, its .sha256, refinement.json, its .sha256
  pc, mem, crashes

durable == <<decisions, acceptance, summaries, refinement>>
vars    == <<durable, files, pc, mem, crashes>>

Ended  == {"idle", "done", "failed"}
Active == {"ask", "infer", "put", "report", "save", "file", "sha"}

\* The report of an earlier contract, which the checkout came with.
Old == [kind |-> "old"]

Nothing == [kind |-> "first", at |-> 1, raw |-> None, said |-> << >>, base |-> None, summary |-> None]

TypeOK == /\ decisions \in [Pairs -> {x \in Raws : Says(x) # "none"} \cup {None}]
          /\ acceptance \subseteq [DOMAIN Probes -> {"YES", "NO", "none"}]
          /\ pc \in [Evaluators -> Ended \cup Active]
          /\ \A e \in Evaluators : /\ mem[e].kind \in Kinds
                                   /\ mem[e].at = Len(mem[e].said) + 1
                                   /\ mem[e].at \in 1..(Len(Asked(mem[e].kind)) + 1)
          /\ crashes \in 0..MaxCrashes

Init == /\ decisions = [p \in Pairs |-> None]
        /\ acceptance = {} /\ summaries = {}
        /\ refinement = None
        /\ files = [summary |-> Old, sha |-> Old, refinement |-> Old, refinementSha |-> Old]
        /\ pc = [e \in Evaluators |-> "idle"]
        /\ mem = [e \in Evaluators |-> Nothing]
        /\ crashes = 0

-----------------------------------------------------------------------------
Goto(e, l) == pc' = [pc EXCEPT ![e] = l]
End(e, l)  == Goto(e, l) /\ mem' = [mem EXCEPT ![e] = Nothing]

asked(e)   == Asked(mem[e].kind)
pair(e)    == asked(e)[mem[e].at]
probing(e) == mem[e].at <= Len(Probes)

\* load_summary: nothing from a pair of files that differ, or of old code.
Loaded == IF files.summary = files.sha /\ files.summary.kind = "first" THEN files.summary ELSE None

\* load_refinement: nor from one that names another first pass than is there.
LoadedRefinement ==
  IF /\ files.refinement = files.refinementSha /\ files.refinement.kind = "second"
     /\ files.refinement.named = files.summary
    THEN files.refinement ELSE None

\* A fault: the second pass takes whatever lies on the disk for the first.
StartUnchecked(e, kind) ==
  /\ pc[e] \in Ended
  /\ mem' = [mem EXCEPT ![e] = [Nothing EXCEPT !.kind = kind,
                               !.base = IF kind = "first" THEN None ELSE files.summary]]
  /\ Goto(e, "ask")
  /\ UNCHANGED <<durable, files, crashes>>

Start(e, kind) ==
  /\ pc[e] \in Ended
  /\ kind = "second" => Loaded # None
  /\ mem' = [mem EXCEPT ![e] = [Nothing EXCEPT !.kind = kind, !.base = IF kind = "first" THEN None ELSE Loaded]]
  /\ Goto(e, "ask")
  /\ UNCHANGED <<durable, files, crashes>>

\* What was said of the pair; after the last control comes the report, after
\* the last pair the summary.
Hear(e, said) ==
  /\ mem' = [mem EXCEPT ![e].said = Append(@, said), ![e].at = @ + 1, ![e].raw = None]
  /\ Goto(e, IF mem[e].at = Len(Probes) THEN "report"
             ELSE IF mem[e].at = Len(asked(e)) THEN "save" ELSE "ask")

\* equivalent(): a saved decision is reused ...
Lookup(e) ==
  /\ pc[e] = "ask"
  /\ \/ decisions[pair(e)] = None /\ Goto(e, "infer") /\ UNCHANGED mem
     \/ decisions[pair(e)] # None /\ Hear(e, Says(decisions[pair(e)]))
  /\ UNCHANGED <<durable, files, crashes>>

\* ... and any other pair is put to the model.  A malformed answer is no
\* decision: a control counts it as failed, a question stops the run.
Infer(e, raw) ==
  /\ pc[e] = "infer"
  /\ \/ Says(raw) # "none" /\ mem' = [mem EXCEPT ![e].raw = raw] /\ Goto(e, "put")
     \/ Says(raw) = "none" /\ probing(e) /\ Hear(e, "none")
     \/ Says(raw) = "none" /\ ~probing(e) /\ End(e, "failed")
  /\ UNCHANGED <<durable, files, crashes>>

\* A fault: the put is unconditional.
PutOverwrites(e) ==
  /\ pc[e] = "put"
  /\ decisions' = [decisions EXCEPT ![pair(e)] = mem[e].raw]
  /\ Hear(e, Says(mem[e].raw))
  /\ UNCHANGED <<acceptance, summaries, refinement, files, crashes>>

\* ImmutableS3Objects.write: created, or refused and equal; the same decision
\* in other words is a conflict.
Put(e) ==
  /\ pc[e] = "put"
  /\ IF decisions[pair(e)] \in {None, mem[e].raw}
       THEN /\ decisions' = [decisions EXCEPT ![pair(e)] = mem[e].raw]
            /\ Hear(e, Says(mem[e].raw))
       ELSE End(e, "failed") /\ UNCHANGED decisions
  /\ UNCHANGED <<acceptance, summaries, refinement, files, crashes>>

Observed(e) == [n \in DOMAIN Probes |-> mem[e].said[n]]
Passed      == [n \in DOMAIN Probes |-> Probes[n].expected]

\* A fault: failed controls are reported and no more.
ReportOnly(e) ==
  /\ pc[e] = "report"
  /\ acceptance' = acceptance \cup {Observed(e)}
  /\ Goto(e, "ask") /\ UNCHANGED mem
  /\ UNCHANGED <<decisions, summaries, refinement, files, crashes>>

\* validate(): the report is saved whatever it says, and then stops the run or
\* lets it go on to the questions, which may have no pair.
Report(e) ==
  /\ pc[e] = "report"
  /\ acceptance' = acceptance \cup {Observed(e)}
  /\ IF Observed(e) # Passed THEN End(e, "failed")
     ELSE Goto(e, IF mem[e].at > Len(asked(e)) THEN "save" ELSE "ask") /\ UNCHANGED mem
  /\ UNCHANGED <<decisions, summaries, refinement, files, crashes>>

\* What the run was told of each pair: a pair asked twice was answered alike.
Told(e) == [p \in ToSet(asked(e)) |-> mem[e].said[CHOOSE n \in DOMAIN mem[e].said : asked(e)[n] = p]]

\* The summary is named for its content ...
SaveFirst(e) ==
  /\ pc[e] = "save" /\ mem[e].kind = "first"
  /\ LET s == [kind |-> "first", rows |-> Rows("first", Told(e))] IN
     summaries' = summaries \cup {s} /\ mem' = [mem EXCEPT ![e].summary = s]
  /\ Goto(e, "file")
  /\ UNCHANGED <<decisions, acceptance, refinement, files, crashes>>

\* ... but there is one place for that of the second pass.  It compares itself
\* with the first pass read at the start, and names the file there is now.
SaveSecond(e) ==
  /\ pc[e] = "save" /\ mem[e].kind = "second"
  /\ LET s == [kind |-> "second", rows |-> Rows("second", Told(e)), first |-> mem[e].base,
               named |-> files.summary] IN
     IF refinement \in {None, s}
       THEN refinement' = s /\ mem' = [mem EXCEPT ![e].summary = s] /\ Goto(e, "file")
       ELSE End(e, "failed") /\ UNCHANGED refinement
  /\ UNCHANGED <<decisions, acceptance, summaries, files, crashes>>

\* publish_summary: the report, and then its checksum.
WriteFile(e) ==
  /\ pc[e] = "file"
  /\ files' = IF mem[e].kind = "first" THEN [files EXCEPT !.summary = mem[e].summary]
                                       ELSE [files EXCEPT !.refinement = mem[e].summary]
  /\ Goto(e, "sha")
  /\ UNCHANGED <<durable, mem, crashes>>

WriteSha(e) ==
  /\ pc[e] = "sha"
  /\ files' = IF mem[e].kind = "first" THEN [files EXCEPT !.sha = mem[e].summary]
                                       ELSE [files EXCEPT !.refinementSha = mem[e].summary]
  /\ End(e, "done")
  /\ UNCHANGED <<durable, crashes>>

Crash(e) == /\ pc[e] \in Active
            /\ crashes < MaxCrashes
            /\ crashes' = crashes + 1
            /\ End(e, "failed")
            /\ UNCHANGED <<durable, files>>

Next == \E e \in Evaluators :
          \/ \E kind \in Kinds : Start(e, kind)
          \/ Lookup(e)
          \/ \E raw \in Raws : Infer(e, raw)
          \/ Put(e) \/ Report(e) \/ SaveFirst(e) \/ SaveSecond(e)
          \/ WriteFile(e) \/ WriteSha(e) \/ Crash(e)

Spec == Init /\ [][Next]_vars

-----------------------------------------------------------------------------
\* However many evaluations run, at once or after interruptions, there is one
\* score of the first pass, and it follows from the decisions that are durable,
\* not from what one of the runs happened to hear.
ScoresAreReproducible ==
  LET said == [p \in Pairs |-> IF decisions[p] = None THEN "none" ELSE Says(decisions[p])] IN
  /\ summaries \subseteq {[kind |-> "first", rows |-> Rows("first", said)]}
  /\ refinement # None => refinement.rows = Rows("second", said)

\* Nothing is scored by a judge that fails a control: a wrong decision on one,
\* once written, keeps every later run from publishing, though other runs may
\* have asked about the same pair as a question.
AcceptanceGates ==
  summaries # {} \/ refinement # None =>
    /\ Passed \in acceptance
    /\ \A n \in DOMAIN Probes : /\ decisions[Probes[n].pair] # None
                                /\ Says(decisions[Probes[n].pair]) = Probes[n].expected

\* What the checkout is read as is a durable result of this contract, and a
\* refinement is compared with the very first pass it names, whatever was
\* published while it was being judged.
LineageHolds ==
  /\ Loaded # None => Loaded \in summaries
  /\ LoadedRefinement # None => LoadedRefinement = refinement
  /\ refinement # None => refinement.first \in summaries /\ refinement.named = refinement.first
=============================================================================
