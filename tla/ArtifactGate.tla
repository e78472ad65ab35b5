---------------------------- MODULE ArtifactGate ----------------------------
(***************************************************************************)
(* verify_training_model_artifact of lava/readers/artifact_gate.py, the    *)
(* last word on a Completed job: the smoke gate for one question and the   *)
(* benchmark gate for all of them.  A run leaves raw responses (texts, by  *)
(* file name), one metadata object per response, a record per question, a  *)
(* public summary in two places, and its durable checkpoints.  A response  *)
(* is a reply of ReaderOutput; its SHA-256 and byte count are the reply    *)
(* itself.  The eight lineage fields are one value, run.                   *)
(***************************************************************************)
EXTENDS ReaderOutput, Functions, FiniteSetsExt, TLC

CONSTANTS Questions, \* the frozen examples
          Format,    \* the answer format of each
          Evidence   \* the evidence pages of each

This == "this run"

\* parse_structured_output: the stricter reading that the smoke gate asks
\* for: a string answer that is blank exactly when the model abstains.
StructuredValid(r) ==
  /\ r.json = "object"
  /\ r.schema
  /\ r.answer.type = "string"
  /\ \A p \in Pages(r) : p > 0
  /\ IF r.abstain THEN r.answer.text = Blank /\ Pages(r) = {} ELSE r.answer.text # Blank

\* What a job records for a question from the reply it was given, and what
\* verify_benchmark_record recomputes.
Recorded(q, r) == [question   |-> q,
                   sha        |-> r,
                   prediction |-> Prediction(r, Format[q], Evidence[q]),
                   run        |-> This]

\* The aggregates of _summary, reduced to the three the smoke gate reads.
Aggregate(records) ==
  [count     |-> Len(records),
   valid     |-> Quantify(DOMAIN records, LAMBDA i : records[i].prediction.valid),
   abstained |-> Quantify(DOMAIN records, LAMBDA i : records[i].prediction.abstain)]

Resume(inherited) == [reused |-> Cardinality(DOMAIN inherited),
                      new    |-> Cardinality(Questions) - Cardinality(DOMAIN inherited)]

Summary(records, inherited) == [counts |-> Aggregate(records), resume |-> Resume(inherited), run |-> This]

-----------------------------------------------------------------------------
\* The pass over the metadata objects: each must name a question not yet seen
\* and a text not yet used, and agree with the bytes of that text.
Nobody == [ok |-> TRUE, raw |-> << >>, used |-> {}]

\* A fault: a text may answer for two questions.
FitsAgain(a, m, before) ==
  /\ m.question \in Questions \ DOMAIN before.raw
  /\ m.file \in DOMAIN a.texts
  /\ a.texts[m.file] = m.sha

Fits(a, m, before) ==
  /\ m.question \in Questions \ DOMAIN before.raw
  /\ m.file \in DOMAIN a.texts \ before.used
  /\ a.texts[m.file] = m.sha

Use(a, m, before) ==
  IF before.ok /\ Fits(a, m, before)
    THEN [ok   |-> TRUE,
          raw  |-> m.question :> m.sha @@ before.raw,
          used |-> before.used \cup {m.file}]
    ELSE [before EXCEPT !.ok = FALSE]

RawById(a) ==
  LET after[i \in 0..Len(a.metadata)] ==
        IF i = 0 THEN Nobody ELSE Use(a, a.metadata[i], after[i - 1])
  IN after[Len(a.metadata)]

Checkpointed(a) ==
  /\ DOMAIN a.retained = Questions
  /\ \A i \in DOMAIN a.records : a.retained[a.records[i].question] = a.records[i]
  /\ \A q \in DOMAIN a.inherited : a.retained[q] = a.inherited[q]
  /\ a.summary.resume = Resume(a.inherited)

\* _verify_benchmark_artifact
BenchmarkGate(a) ==
  /\ a.summary = a.copy
  /\ Len(a.records) = Cardinality(Questions)
  /\ {a.records[i].question : i \in DOMAIN a.records} = Questions
  /\ Len(a.metadata) = Cardinality(Questions)
  /\ Cardinality(DOMAIN a.texts) = Cardinality(Questions)
  /\ LET pass == RawById(a) IN
     /\ pass.ok
     /\ a.summary.run = This
     /\ \A i \in DOMAIN a.records : a.records[i] = Recorded(a.records[i].question,
                                                           pass.raw[a.records[i].question])
  /\ a.summary.counts = Aggregate(a.records)
  /\ Checkpointed(a)

\* _verify_public_summary
OneAnswered(summary) == summary.counts = [count |-> 1, valid |-> 1, abstained |-> 0]

\* _verify_uncompressed_model_prefix and _verify_canonical_outputs
SmokeGate(a) ==
  /\ Cardinality(DOMAIN a.texts) = 1
  /\ Len(a.metadata) = 1
  /\ \A f \in DOMAIN a.texts : /\ a.metadata[1].file = f
                               /\ a.metadata[1].sha = a.texts[f]
                               /\ StructuredValid(a.texts[f])
  /\ OneAnswered(a.copy)
  /\ a.summary = a.copy
  /\ Len(a.records) = 1
  /\ a.records[1].sha = a.metadata[1].sha
  /\ a.records[1].run = a.summary.run

Gate(mode, a) == IF mode = "benchmark" THEN BenchmarkGate(a) ELSE SmokeGate(a)

-----------------------------------------------------------------------------
\* The reference: what a run that answered each question once would have left
\* behind.  A listing may be in any order; a file may have any name.
Orders(S) == {f \in [1..Cardinality(S) -> S] : IsInjective(f)}

WholeBenchmark(a) ==
  \E file \in [Questions -> DOMAIN a.texts] :
    LET Said(q)  == a.texts[file[q]]
        answered == [q \in Questions |-> Recorded(q, Said(q))]
    IN /\ IsInjective(file) /\ Range(file) = DOMAIN a.texts
       /\ \E o \in Orders(Questions) :
            a.metadata = [i \in DOMAIN o |-> [question |-> o[i], file |-> file[o[i]], sha |-> Said(o[i])]]
       /\ \E o \in Orders(Questions) : a.records = [i \in DOMAIN o |-> answered[o[i]]]
       /\ a.retained = answered
       /\ a.inherited = Restrict(answered, Questions \cap DOMAIN a.inherited)
       /\ a.summary = Summary(a.records, a.inherited)
       /\ a.copy = a.summary

WholeSmoke(a) ==
  \E f \in DOMAIN a.texts :
    /\ DOMAIN a.texts = {f}
    /\ Len(a.metadata) = 1 /\ a.metadata[1].file = f /\ a.metadata[1].sha = a.texts[f]
    /\ Len(a.records) = 1 /\ a.records[1].sha = a.texts[f]
    /\ StructuredValid(a.texts[f])
    /\ a.summary.counts = [count |-> 1, valid |-> 1, abstained |-> 0]
    /\ a.summary.run = a.records[1].run
    /\ a.copy = a.summary
=============================================================================
