# LAVA multilingual DocVQA: specifications, checks and proofs

LAVA answers questions about multilingual PDF documents. Its expensive step is
a vision-language model that runs in SageMaker training jobs on interruptible
or time-limited instances; everything a job learns is kept in S3 so that a
later job, or another command, can go on from it. There is no database, no
lock service and no queue: correctness rests on conditional puts, on names that
are functions of content, on reading back what was written, and on refusing
anything that differs. That protocol is what these specifications are about,
together with the algorithms whose result it carries: the parser of answers,
the search order of pages, the metric, and the gate at the end.

Paths below are relative to the repository.

## Inventory

### Parts with durable or shared state

| part | state | operations | what makes it hard | what makes it correct |
|---|---|---|---|---|
| **S3 slots** `src/lava/retrieval/storage.py` | one object per key: absent, pending, complete | `read` (creates a pending slot, then gets), `write` (get, get ETag, put under `IfMatch`, on refusal get again) | several processes; 412/409; a put that took effect and whose answer was lost, then retried; death between the puts | nobody is told two values for a key; a refusal is a real conflict; a completed value is final |
| **System and test inference** `src/lava/readers/system.py`, `test_inference.py` | `inputs.json`, one answer per question, `inference.json`, all slots; stage checkpoints and a local cache of sources; in memory the answers accepted so far | prepare stage by stage, per-question lookup / generate / write / read-back, publish, verify | competing runs whose model calls disagree; interruption anywhere; a stale "not saved yet"; stale local copies and checkpoints | what is published is what is durable; accepted work survives; reruns finish; inputs are made of the pinned versions |
| **Job launch** `src/lava/readers/system_execution.py` | durable intent and receipt for each attempt; SageMaker's jobs; the launcher's position | guard, intent, describe, gates, list active jobs, create, reattach, monitor, receipt, verify | a lost answer to `create_training_job`; a detached launcher and a second one from another commit; a job ending while it is described | one job per attempt, the stored request, true receipts, success only with durable inference |
| **Oracle benchmark and resumption** `src/lava/readers/benchmark.py`, `checkpoints.py`, `scripts/run_oracle_reader.py` | per output prefix: question checkpoints, `parent.json`, private records, public summary; SageMaker's jobs | plan (fresh or resumed), list, check empty, submit; in the container load, link, question, save, publish | interruption before, between and after load/link/copy; chains of resumed attempts; two commands between check and submit | what is published is what is saved; a lineage never contradicts itself; linked work is retained; completed jobs are whole |
| **Oracle command, monitor, run state** `scripts/run_oracle_reader.py`, `src/lava/observability/sagemaker_monitor.py`, `state.py` | `latest.json`, jobs that age, objects under output prefixes | guards of limits and cost, quota, list, check prefix, save, submit, save, `wait`, recheck, gate | a command killed around the submission; a ceiling that races the terminal status; jobs that change status while they are listed | a live job is on record; one writer per prefix; the monitor sees the end |
| **Artifact gate** `src/lava/readers/artifact_gate.py` | none of its own: files, metadata, records, summaries, checkpoints of a finished job | smoke gate, benchmark gate | many equalities, each of which passes alone | passes exactly what a whole run leaves |
| **Submission recovery** `pipelines/submission/recovery.py` | OCR pages, attempts per question and window, decisions, report, receipt | OCR, next question, next window, infer, save, decide, report, export | reruns after interruption or after the call allowance; runs at once; partial answers | a decision is the first complete answer in search order; reports agree; reruns end |
| **Submission bundles and export** `src/lava/evaluation/submission.py`, `submission_store.py` | CSV, manifest, receipt; local copies | build, validate, CSV first, manifest last, copies, receipt | interruption between the files; a put refused with 409 | a receipt names a whole bundle of decided answers |
| **Semantic judge and evaluation** `src/lava/evaluation/semantic.py`, `system.py`, `readers/refinement.py` | decisions on pairs, acceptance reports, summaries, public copies with checksums | controls, lookup, infer, put, report, save, publish | evaluators at once; a judge that says the same in other words; a first pass replaced while the second is judged | scores follow from durable decisions; no score past a failed control; a refinement is compared with the pass it names |
| **Notebook publication** `src/lava/notebook_execution.py`, `scripts/execute_notebooks.py` | the notebook, its manifest, staged copies by input and source digest | reuse, stage, execute, install, record, validate | edits of notebook or inputs meanwhile; several publishers over the same files; death between notebook and manifest | what the gate accepts was computed by this code from these inputs |
| **Finish command and its log** `scripts/evaluate_system.py`, `src/lava/readers/runtime_logging.py` | event log, heartbeat thread, archived log and publications | prepare, execute, evaluate, publish, quality, archive | a heartbeat due as the stage ends; a publisher that survives its command; another that installs between gate and archive | an archived log is a whole stage, and final; archived outputs are of the code their manifest names |
| **Kaggle synchronisation** `src/lava/data/kaggle_sync.py` | versioned S3 mirror, manifest, inventory | list pages, head, download, upload, verify, version, manifest, summary | repeated page tokens, replaced files, limited and killed runs | a complete manifest names each file once, with a version that has its digest |
| **Evaluation protocol and gold pages** `src/lava/evaluation/protocol.py`, `splits.py`, `src/lava/readers/oracle_assets.py` | versioned S3 objects: files of each lock, the latest lock, page objects, manifests; the files of a checkout | freeze (local files, uploads with a check each, receipts); prepare (download, render, head, put, manifest twice, summary) | hosts at once; death between the puts; a source replaced between two requests; versions taken from a head or a put | a lock that is announced is whole and its folds leak nothing; a row of a manifest names a version with its digest |
| **Model registry** `src/lava/readers/model_registry.py` | the lock file; in memory the lock that was read, the new candidates, what was fetched | read lock, read configuration, hash it, reuse or fetch a revision, replace | a configuration edited between its two reads; a repository that moves; retries, death | rows are never changed or dropped; a repository has one revision |
| **EventLogger** `src/lava/observability/events.py` | a lock and an output stream, a heartbeat thread for each stage | `emit`, `bind`, `stage` | a join with a timeout | nothing is promised of the order of its lines |

### Parts without state of their own

Modelled as operators: answer parsing and structured output
(`readers/parsing.py`, `structured_output.py`), the search order and selection
of pages (`retrieval/lexical.py`, recovery), metric, matching, measures of
rankings and nested folds (`evaluation/`), the focused pages of the refinement.
Not modelled: the model readers and hardware checks, reports and analysis, the
public demo. They are formatting, or a model on a GPU; `PROJECT.json` lists each
with its reason.

### How the parts interact

```
  launch command --- intent, receipt (slots) ---> S3
        |                                          ^
        | create / describe / list                 | inputs, answers,
        v                                          | inference (slots)
    SageMaker ---- starts and ends ---> container: inference loop

  oracle command --- list, check empty, submit ---> SageMaker ---> container:
        ^  |                                                  load, link, save
        |  +--- latest.json, monitor, artifact gate                 |
        +----- loads the source's checkpoints from S3 <-------------+

  protocol freeze --- lock, folds ---> S3 <--- gold pages, manifest --- asset preparation
  registry lock --- revision of each model ---> oracle command, inference

  kaggle sync --- manifest ---> preparation --- inputs.json ---> inference
  inference.json ---> evaluation ---> reports ---> notebook publication ---> gate,
       |               (judge)                                        archive, log
       +---> recovery of unanswered questions ---> submission bundle
```

The launcher and the loop share only durable objects. A job's exit status says
something about S3 (completed means published), and the launcher does not
believe it without looking. Recovery, evaluation and export read what the loop
published; the finish command runs evaluation, publisher and gate one after the
other over files of the checkout that others may edit.

## Modules

| module | models | relation |
|---|---|---|
| `WriteOnce` | the promise of the slots of S3: empty, then one value for ever | |
| `SlotStore` | the requests of `read` and `write` on S3 | implements `WriteOnce` |
| `SystemInference` | the question loop and its publication, over slots | |
| `JobLaunch` | `execute_prepared` and `ensure_job`, against SageMaker | |
| `Pipeline` | the launcher with the question loop in each of its jobs | extends `JobLaunch`, composes `SystemInference` with it |
| `OracleResume` | launch, resumption and the benchmark's container | |
| `Ordering` | a finite set put in order | operators |
| `ReaderOutput` | from a response of the model to a prediction | operators |
| `PageSearch` | ranking, search order and selection of pages | operators |
| `Submission` | building and validating the CSV | extends `ReaderOutput` |
| `Recovery` | runs of the recovery program and the export | extends `Submission`, `PageSearch` |
| `Metric` | matching, subsequence, F1, joining of scores | operators |
| `Splits` | nested folds, their builders and validators | operators |
| `Protocol` | hosts that freeze the protocol and prepare gold pages | extends `Splits` |
| `Registry` | the resolution of the model registry lock | |
| `Evaluation` | evaluators of first and second pass with the judge | extends `Metric` |
| `ArtifactGate` | the two gates, and what a whole run leaves | extends `ReaderOutput` |
| `OracleCommand` | the oracle command with its monitor and state file | extends `ArtifactGate` |
| `RunLog` | one stage of a runtime log and its heartbeat thread | |
| `NotebookPublication` | the notebook publishers | |
| `KaggleSync` | the synchronisation of the competition's files | |
| `Preparation` | preparation of reader inputs from the pinned sources | extends `KaggleSync` |
| `SystemCommand` | the finish command; composes the four above | extends them |
| `SlotStoreProofs`, `SystemInferenceProofs`, `PipelineProofs`, `OracleResumeProofs`, `OracleCommandProofs`, `SystemCommandProofs`, `RecoveryProofs` | theorems about the module of that name | `PipelineProofs` first proves those of `JobLaunch` |
| `EvaluationProofs` | theorems about `Registry`, `Protocol`, `Evaluation`, and `Splits` and `Metric`, which those use | |
| `MC...` | the instances given to TLC | |

### SlotStore

One action for each request. `pc[p]` names the request that process `p` makes
next: `ensure` is the `put_object(IfNoneMatch="*")` that opens `read`
(`Create`, `CreateRefused`), `fetch` the `get_object` that follows, `etag` the
second `get_object` of `write`, `swap` its `put_object(IfMatch=...)` (`Swap`,
`SwapRefused`), `reensure` and `refetch` the `read` after a refused put. `Swap`
may go to `reensure` although the put took effect: the answer was lost, the SDK
sent the put again, and the slot now refuses it. `Fail` after a put that took
effect is a put whose answer never came; `Fail` anywhere is also the death of
the process. `told` is a history variable, the pairs that a caller has been
given as durable.

The value stands for the canonical JSON with its checksum; a body whose checksum
does not match is an exception (`Fail`). S3 answers a `get` with the last
put, as S3 documents for single objects.

### SystemInference

`inputs`, `answer[q]` and `inference` are the slots; `records[r]` is the list in
the memory of run `r`, and the next question is the one after its last. A read
or a write of a slot is one step here: `SlotStore` shows that its requests come
to a write-once register, which is what `Write` and `Publish` use (accept into an
empty register, accept an equal value, refuse another). The read-back after each
write is a step of its own (`Confirm`, `Verify`), and so is the comparison of a
reused answer with the run's inputs (`Check`). An answer carries the inputs it was
made from; what else is in it (text, pages, telemetry) is a member of
`Generations`, any of which the model may produce each time it is asked.
`Prepare` is input preparation by its durable effect (`Preparation` has its
steps). `Crash` ends a run at any point, and loses its
memory with the next `Start`.

### JobLaunch

A launcher is an invocation of `execute_prepared` for some attempt number, from
some commit. `pc` follows the function: `guard` (inference already complete),
`intent` and `save` (the durable request, taken in place of this checkout's
own), `describe`, `list` and `stopping` (the two listings of active jobs),
`create`, `recheck` (describe again after an error), `monitor`, `verify`. Each
failed gate, exception and detachment ends at `failed`; `differs` and
`incomplete` are the two exceptions no run should ever see and are kept apart
for the properties. `Create` has its three outcomes: answered, done with the
answer lost, and an error without effect. SageMaker is external: one job per
name, any request may raise, and a job moves through its statuses in its own
time. The job is `SystemInference` reduced to "publishes, and completes only
if it has published" (`Pipeline` has the loop itself). A request that SageMaker applies later than the describe
which follows it is not modelled. Budgets and source archives are inputs, and
the local copy of the receipt and the log stream are left out.

### Pipeline

`Pipeline` puts the loop back in the job: the container of attempt `a` is run `a`
of `SystemInference`, over the same bucket, and exists while job `a` is in
progress or stopping. `inference` of `JobLaunch` is the slot `result` of the
loop. A container's end and its job's end are one step: with status 0 when the
loop is done (`ContainerExits`), and in every other way wherever the loop is
(`ContainerEnds`). A job has no retry strategy and no spot training
(`training_request`), so a container is started once. `calls` is a history
variable, the model calls of all jobs. `ImplementsLaunch` says that the
composition is a behaviour of `JobLaunch`, which is proved: what is
proved there of the reduced job holds with the loop in its place, and "completes
only if it has published" is shown instead of assumed.

### OracleResume

`step[c]` follows the launch command (`list`, `empty`, `submit`), `pc[j]` the
container of job `j` (`load`, `link`, `question`, `save`, `summary`, `exit`).
Bucket variables are indexed by output prefix: `Base` for a fresh job, the job
itself for a resumed one, which is how the code names it. `Lineage`, `Cyclic`,
`Contradictory` and `Load` are `CheckpointStore.load` with its exceptions.
`load` is one step although it makes many requests: everything it reads is
write-once, and the source is a job that has ended. `Interrupt` ends a job
anywhere, the time before its container's first step included. `IsEmpty` sees
the objects of the code; SageMaker can leave output of its own under the prefix,
whose only effect is that the command stops, which `Quit` covers. Scoring is
not modelled: a scored answer is a member of `Generations`.

### ReaderOutput, PageSearch, Submission, Recovery

A response of the model is what its parser tells apart: how far its JSON reads,
whether it has the four fields, and their values; `Prediction` is
`parse_reader_response` with the refusals in its order. `SearchOrder` is
`page_search_order`, over a ranking of pages by score with ties by number. Every
sort is `Ordered` of `Ordering`: an item's place is the number of items that precede it.
`BuildSubmission` and `ValidCsv` are the two ends of the CSV.

`Recovery` follows a run by `pc[r]`: OCR pages one by one (`OcrPage`, a slot
each; the pages of the code's pool come in any order), then question after
question: a saved decision is reused, and without one windows are tried in
search order (`NextWindow`, `Predict`, `Save`) until an answer is complete
(`Decide`). Attempts are named for their request and the text that is shown, so
another run's attempt is met again only under equal text. `Report` compares an
earlier report with what this run found, `Export` refuses open questions, and
`PutCsv`, `PutManifest`, the two copies and `Receipt` are the puts in the
order of `persist_submission` and `export_recovered`. What a run holds in memory
is `mem[r]`, lost at its end. A write of a slot is one step (see `SlotStore`).
The windows depend on the text of the pages only, so a run holds the number of
the one it is at (`mem[r].at`) instead of the list that the code's loop goes through.
`disagree` and `refused` are the two refusals that would repeat at every rerun
and are kept apart for `NoDeadEnd`. The base inference is a constant: it is
complete before recovery starts, and never changes.

### Metric, Evaluation

`Matches` is the layered search for augmenting paths of `matching.py`, with its
distances, its partners and the item abandoned at a dead end; `LcsLength` its
table. Scores are fractions. `JoinedTo` is the way the scores of
`score_dataset`, in the order of the questions' names, come back to the rows of
`score_predictions`.

An evaluator asks about pair after pair, the controls first (`pc`: `ask`,
`infer`, `put`), reports its controls (`report`), saves its summary (`save`) and
publishes two files (`file`, `sha`). Decisions are shared by all
evaluators. A control has no place of its own: it is reused and saved like any
pair. The second pass reads the first from the checkout at its start (`Loaded`)
and names the file that is there when it saves. The inference that is scored is
a constant for the same reason as above.

`RetrievalScore` is `score_retrieval` in fractions, without the discounted gain,
which is in logarithms.

### Splits, Protocol

`Splits` builds the folds as the code does and applies the code's own validators
to them (`Folds` says whether they pass). `Isolated` is independent of both: it
looks up the document of each question in the records. The validators alone
would not do: `validate_folds` never relates a question to a document, so a fold
with right names and wrong questions can pass it. What is checked is therefore
that the builders make isolated folds and that the validators refuse none of
them.

In `Protocol` a host runs `freeze_protocol` (`write`, `upload`, `check`) or
`prepare_oracle_assets` (`open`, `head`, `put`, `manifest`, `latest`,
`announce`). An object of the bucket is the sequence of its versions, and a
version id its place. What a freeze writes is named by the content of
`train.csv` it was made from, so that a lock can be compared with the files
under its prefix; the summary carries a time, so it is the number of the run.
Digests are the contents. All requests may fail and all hosts may stop
(`HostStops`), and `ReplaceSource` changes `train.csv` or a PDF between any two
steps. Heads of the training PDFs before a freeze, which change nothing, are left
out, and so are the report in Markdown and the local copy of the manifest.

Three things the code does not promise are in the model and in no property. A
repeated freeze overwrites the summary under the prefix it calls immutable,
because of the time in it. An interrupted freeze of a new content leaves new
references beside the old lock in its checkout. And preparation reads `train.csv`
anew without comparing it with the digest in the lock, so a manifest can carry
the lock of one content and the questions of another.

### Registry

`resolver.pc` follows `resolve_registry`: the lock is read, then the
configuration (`ReadConfig`, with the check for drift), then the configuration's
bytes for their digest (`HashConfig`, before the resolution of an extension and
after that of a first lock), then each new candidate is given the revision of a
row with its repository (`Reuse`) or one that is fetched (`Fetch`, with
`FetchFails` for each failed try), and the file is replaced. Between any two
of these the configuration may be edited, repositories may move, change their
license or be gated, and the command may die. The lock keeps the
configuration as its digest and the rows of its parent as the parent's digest.
The digest of the configuration is of its second reading, so it need not be
that of the rows; the property speaks of the rows. The module has one resolution
at a time: two at once would both extend the lock they read, the second
replacing the rows of the first, and the code has no guard against it.

### ArtifactGate, OracleCommand

The gate is a predicate on what a job leaves: texts by file name, metadata,
records, summary and its copy, retained and inherited checkpoints. A digest is
the text itself; the eight lineage fields are one value. `WholeBenchmark` and
`WholeSmoke` say independently what an honest run would have left.

`OracleCommand` runs one invocation after another. Its `pc` follows `main`:
guards of plan, limits and cost (`Start`), Service Quotas with its retries, the
two listings, the output prefix, `launching` saved, submission, the named state
saved, `monitor`, and then `gate` or the recheck after an exception. Jobs age in
units of `Tick`, each phase with the limit SageMaker enforces, and a monitor
whose sleep is over polls before time passes. `writers` says whose objects are
under a prefix. A create request takes effect, if it does, before its command
ends.

### RunLog, NotebookPublication, KaggleSync, Preparation, SystemCommand

`RunLog` is a stage with its heartbeat thread: the timer expires (`due`), the
thread takes the lifecycle lock, and looks at the stop event under it.

In `NotebookPublication` a notebook is its code and what its outputs were
computed from, so that a property can compare what a manifest says with what was
run, and by which process (`by`): cells keep the times of their execution, so two
processes do not leave the same bytes. A publisher computes the digest of the
inputs once, reads the source several times, and executes on the inputs as they
then are; each read and write of a file is an action. At the end it installs the
notebook that is *then* in the staging directory, and the manifest that it holds
in memory. `pub` has a place for each process that may publish at once: one
checkout and one staging directory, and no lock.

`KaggleSync` has one action for each request of `sync_files`. A content is its
digest; contents have sizes, so a file can be replaced with and without a change
of size. `Preparation` walks the documents of the pinned manifest, in some order, through three
stages with a checkpoint each; what a stage derives from a document is the
document's content. It starts with an outdated local copy and with checkpoints
of an earlier benchmark.

`SystemCommand` composes the four: the finish command of
`scripts/evaluate_system.py` prepares, executes, evaluates, starts the publisher
as a process of its own (which outlives a killed command), asks the gate,
archives notebook and manifest one after the other, ends the stage, and archives
the log. `ExecuteSystem` and `Evaluate` are one step each, since `JobLaunch`,
`SystemInference` and `Evaluation` are about them. Beside it an operator edits
the notebook and the sources, starts publishers by hand whatever the command is
at, prepares an export, and synchronises with a server whose files are replaced.

Assumed of the surroundings: an edited file, once changed, does not get an
earlier content back (inputs that change and change back during an execution
leave no trace in a digest); one synchronisation runs at a time on a checkout
(with two, between a digest and its version, the code promises nothing). Several
publishers, and an edit of the notebook between `Execute` and `InstallNotebook`
(which the published copy then replaces), are part of the model: what the gate
accepts stays true. What is archived afterwards may be another publication (see
the end of the findings).

## What is checked

Bounds are the constants in the `.cfg`; the actions that a bound cuts off are
named below.

| run | instance | shows |
|---|---|---|
| `slot_store` | 3 processes, 1 key, 2 values | `ToldIsDurable`; `ConflictIsReal`; the slots implement `WriteOnce` |
| `system_inference` | 3 runs, 2 questions, 2 manifests, 2 generations, 1 crash | `PublishedIsDurable`; `AcceptedIsDurable`; `InferenceCompletes` |
| `oracle_resume` | 1 command, 3 jobs, 2 questions, 2 generations | `LineageIsConsistent`; `LinkedWorkIsRetained`; `CompletedIsWhole` |
| `oracle_race` | 2 commands, 3 jobs, 2 questions, 2 generations | `PublishedAreCheckpoints` |
| `oracle_interrupted` | as `oracle_resume` | a counterexample to `RetainsAllPriorWork` |
| `oracle_race_lineage` | as `oracle_race` | a counterexample to `LineageIsConsistent` |
| `job_launch` | 2 launchers, 2 attempts, 2 commits, 2 instance types | `JobsFollowIntent`; `OneJobPerAttempt`; `ReattachNeverRefused`; `ReceiptsAreTrue`; `SuccessIsDurable` |
| `pipeline` | 1 launcher, 2 attempts, 1 commit, 2 instance types; 2 questions, 2 generations, each container may die | `OneActiveJob`; `WorkIsPaidOnce`; the whole implements `JobLaunch`; `LaunchersEnd` |
| `recovery` | 2 runs, 3 questions (2 open), 2 pages, 2 texts of a page, 2 responses, 1 model call for each run, 1 crash; search order for every ranking of up to 6 pages | `DecisionIsFirstComplete`; `ExportIsWhole`; `NoDeadEnd`; `SearchOrderIsComplete`; `RecoveryEnds` |
| `evaluation` | 2 evaluators, 1 control, 2 questions, 4 raw answers, 1 crash; or 2 hosts, 2 freezes or preparations, 4 questions, 1 replacement; or 5 configurations, 2 edits, 2 moves, 2 tries; matrices up to 3 by 3; rankings of 4; 5 questions over 4 documents; 1, 16 and 99 questions | `ScoresAreReproducible`; `AcceptanceGates`; `LineageHolds`; `AlgorithmsAreExact`; `LockIsWhole`; `AssetsAreBacked`; `RegistryIsAppendOnly` |
| `oracle_command` | 3 invocations, 2 jobs, 6 plans, queue limit 2, hour 3, upload 1, poll every 2, margin 3; artifacts of two replies | `PrefixHasOneWriter`; `LiveJobIsOnRecord`; `MonitorSeesTheEnd`; `GateIsExact` |
| `system_command` | 2 publishers, 2 files, 3 contents, 2 listings, 2 disturbances | `PublicationIsTrue`; `ArchivedLogIsFinal`; `SourcesAreBacked` |

The type invariants of `SlotStore`, `SystemInference`, `OracleResume`,
`JobLaunch`, `OracleCommand` and `Recovery` are proved for every value of the constants (below) and are not
among what their runs look at. Those of `Evaluation` and `SystemCommand` are stated in their modules and hold under the same
configurations, but the runs look only at what says more. `PublishNeverConflicts`
(`SystemInference`) follows from the inductive invariant that also gives the two
its run looks at, and is proved.

Why these bounds are enough to meet the cases:

- *SlotStore.* Keys share nothing, so one is enough. Two processes give a race
  for the pending slot; a third reads what the loser and the winner were told.
  Two values are enough to disagree. Calls repeat without bound.
- *SystemInference.* Two questions give a run that has accepted one answer and
  loses the other; a third run meets the leavings of two. A crash beyond the
  first adds nothing a refused write (which also ends a run) does not, and
  reruns are unbounded.
- *OracleResume.* Three jobs are a chain of grandparent, parent and child, or a
  fresh job, a resumption, and a competitor. Two questions allow a part copied
  and a part not. `MaxAncestry` is the 64 of the code and is not reached: what
  the ancestry limit does is not exercised by these runs.
- *JobLaunch.* Two launchers that may hold different requests for the same or
  for different attempts, invoked over and over, so that a launcher that
  detached meets its own job, a stopping one, and another's.
- *Pipeline.* One launcher, which is what `OneActiveJob` and `WorkIsPaidOnce` are
  true of: two launchers with different attempts can both pass the listing.
  Two attempts give a container that dies, or is lost, at each point of two
  questions and another that finds what it left. One commit, because which
  request is stored is the business of `job_launch`.
- *Recovery.* One call for each invocation makes a run end by its allowance in
  the middle of a question, which with unbounded reruns is every way of
  splitting the work; two runs interleave at each put; two pages that can rank
  either way have three windows, of which one response is complete only in
  those with page 1. The third question is complete in the base and must not
  change. A crash beyond the first adds to the ends of a run only where the
  first one was spent.
- *Evaluation.* One evaluator of each pass, or two of the same, with a control
  that is also a question's pair; a judge that says YES in two
  ways, NO, or neither. Three items on each side allow an augmenting path through
  two matched ones; 99 is the last number whose two-digit
  name sorts in order.
- *Protocol* and *Registry* are checked in the run `evaluation`, each as
  behaviours of its own (`phase` in `MCEvaluation`): they end long before an
  evaluation and share no file with it that changes meanwhile, so interleaving
  them with the evaluators would only multiply states. Two starts give two
  freezes at once, of the same or of different contents, two preparations, or
  one of each, each dead anywhere; the committed lock is there before. One
  replacement is a new `train.csv` (with the same folds or with too few
  documents) or a PDF with other pages or one less. A page is one object
  instead of three: each is put in the same way, and two pages of a document
  are two objects of one download. All manifests have the same second, so that
  their names collide. Five configurations extend, drift from, and drop from
  each other, with a repository for two candidates and one that two
  candidates expect under different licenses; two edits and two moves fall
  between any steps of any number of resolutions.
- *Splits* and the measures of rankings are compared with their references in
  the same run, for every assignment of five questions to four documents and
  every ranking of four pages.
- *OracleCommand.* Two jobs, so that the second can start, or not, while the
  first is in any phase; a third invocation meets both. Six plans lie on
  either side of each guard. The times are small, but the margin is no more than
  what `TimesAssumption` asks for (upload and one poll), so the ceiling is met
  exactly. The gates are compared with their reference for every assignment of
  two replies to two files with up to two metadata objects and two records
  that need not belong together.
- *SystemCommand.* `MaxDisturbances` counts further invocations, edits,
  replacements, synchronisations, heartbeats, publications by hand and exports
  together: one invocation amid any two of them, two amid any one. `Bounded` in
  `MCSystemCommand` leaves out two publications or exports by hand, and heartbeats
  together with anything but further invocations, since the log shares no state
  with the rest. Steps of a publication, a synchronisation or a preparation that
  has begun are not counted and interleave freely, and so are crashes. Two
  publishers are the command's and one by hand, or the survivor of a killed
  command with either; they are interchangeable, and since the runs look at
  invariants only, symmetry is sound. `PublicationIsTrue` needs both disturbances:
  under `ExecuteUnchecked` (the source is not compared after the execution) it
  falls with a publication by hand and an edit of the notebook.

Deadlock is checked in the slot store, the launches, the recovery and the
evaluation. In `SystemInference`, `OracleResume`, `OracleCommand` and
`SystemCommand` it is not: with every run done, every job or every invocation
used, the system has really stopped. In `MCEvaluation` a step that changes
nothing stands for the hosts of `Protocol` resting after their last start.

Each property has a mutant in `PROJECT.json`: an operator next to the one
it replaces, marked *A fault*, that breaks the code the way a slip would
(a condition forgotten in a put, a lookup skipped, a receipt written early), and
under which TLC finds that property violated.

### Fairness

Only three runs use it (`system_inference`, `pipeline`, `recovery`).
`SystemInference!FairSpec`: a live process takes its next step, the inputs are
prepared, and somebody reruns a failed run; interruption is never fair, and is
bounded by `MaxCrashes`. It is the documented way to operate the pipeline (rerun
the command), and nothing in the loop waits for another run. `LaunchFairness` in
`PipelineSpec`: a launcher takes its next step and its clock passes the
monitor's ceiling (`WF` of `Timeout`: the ceiling stays enabled as long as the
launcher waits, and the code compares it with a clock at each poll). Nothing is
assumed of SageMaker or of a container: a job may stay in progress for ever, and
the invocation ends all the same. `Recovery!FairSpec`: each run is done or goes
on moving, and one that has ended is started once more; it is weak fairness of a
run's next step, written without `ENABLED` because a run that is not done always
has one. Which response the model gives and which text OCR reads is not fair:
`RecoveryEnds` holds also when every window is answered badly, by the report
that says so.

### Findings

- **The ancestry of a resumed attempt is recorded later than its comment says.**
  `link_parent` says "Persist ancestry before copying, so repeated interruptions
  retain all prior work." It is persisted before copying, but only after the
  container has started, installed its dependencies and loaded the source. An
  attempt that ends before that has no parent, is accepted as a source, and
  gives back nothing (`oracle_interrupted`). The work is still there, through
  the older job. What does hold is `LinkedWorkIsRetained`.
- **The active-job check of the oracle command is not atomic with submission.**
  Two commands can pass it and both submit; a fresh job and the resumption of a
  job that left nothing then answer one question twice in one lineage, and
  each later load of it raises (`oracle_race_lineage`). With one command at a
  time `LineageIsConsistent` holds (`oracle_resume`).

Beside these, one thing that the model shows of the finish command has no run of
its own. **What it archives need not be what its gate accepted.** The files are read
again, one by one and without a comparison, after `make quality` has passed. A
publisher started by hand while the command prepares has the digest of the inputs
before the new reports are written; it executes on the new reports while the command's
own publication passes the gate, and then installs its notebook and a manifest that
names the earlier inputs. That pair is archived: its checksums agree with each other,
the gate would have refused it. `ArchiveIsTrue` in `SystemCommand` denies this, and
with `INVARIANTS ArchiveIsTrue` and `MaxDisturbances = 1` in `MCSystemCommand.cfg` TLC
finds that behaviour. What does hold is `PublicationIsTrue`: what the gate accepts is
true, and archived outputs that their manifest vouches for are of the code it names
and no older than the inputs it names.

## What is proved

For every value of the constants. Each theorem about a property names the definition
that a run checks on a small instance. The assumptions are those the modules
declare, and TLC evaluates them: the marks for "nothing" are not values
(`NoRecords`: nor is the mark a set of records; `NoneAssumption`: nor a text, a
saved answer or a bundle), there is at least one question, attempts are within the
code's 1..99, plans are records with a positive runtime (`PlansAssumption`), and
limits and times are positive. Three assumptions say something of the surroundings.
`TimesAssumption`: the margin that the monitor adds to its ceiling (900 s in the
code) covers a poll and the time SageMaker takes to upload what a stopped job
leaves. `ContentsAssumption`: the host of the competition does not bring an earlier
content of a file back. `ChainsAssumption`: a listing whose page tokens do not
repeat names every file. (The code takes a listing that ends for a whole one; one
that the server cuts short without repeating a token would pass, and nothing is
claimed of it.) `RecoveryAssumption` says that the template names a
question once, which `_csv_rows` refuses to read otherwise, and that parsed JSON has
the types the parser looks for. The assumptions of `EvaluationProofs` say what the
parsers of the files refuse: a configuration has candidates, each with a key of its
own (`RegistryAssumption`, from `load_candidates`); a question has evidence pages,
and the prefix of a lock is none of the prefixes of other objects
(`ProtocolAssumption`, from `parse_training_csv` and the names of the objects); a
text answer is one text, a reference has pages, and a prediction cites pages it was
shown (`EvaluationAssumption`, from `ReferenceRecord` and `validate_prediction`);
and the content that the repository's own lock was made from has three documents and
a name for each question (`OriginalIsFrozen`: with fewer that lock could not have
been made). Two theorems about operators have hypotheses of their own:
`FoldsAlwaysIsolate` three documents and own question names, which the builder
checks, and `ScoresGoBackToTheirRows` at most 99 questions, which nothing checks
(the training set has fewer). `PublicationTellsTheTruth` has a hypothesis of its
own, `NoRecordIsNone`: the mark for a manifest that is not there is not a manifest.

Some properties hold with one actor only, and their theorems say so in a hypothesis:
`\A k, l \in Launchers : k = l` or `\A c, d \in Commands : c = d`. It is about how
many commands run *at once*; each may be interrupted and invoked again without end.
The hypothesis cannot be dropped: two launchers of different attempts can both pass
the listing, and two oracle commands break the lineage (`oracle_race_lineage`).

`SlotStoreProofs` (any processes, keys, values):

- `TypeCorrect`: `TypeOK` is inductive by itself. Its last conjuncts say that a call
  past its first request is a call, and past its first read a write.
- `DurableTold`: `ToldIsDurable` is not inductive, because a returning call adds
  what it holds; `DurableInv` adds that what a call is about to return is what the
  slot holds (`ReturnIsDurable`). Both survive a step because a completed value does
  (`CompletedStays`, from `SlotsAdvance`).
- `RealConflicts`: a conflict is raised only at a read, and only over a slot that
  holds something else than the call's value.
- `Refinement`: the slots implement `WriteOnce`; only `Swap` is visible, and it is a
  `Commit`.

`SystemInferenceProofs` (any runs, questions, crashes, disagreement of models):

- `TypeCorrect`: `TypeOK` is inductive because it contains `InPosition`.
- `Agreement`: `PublishedIsDurable` needs to know what runs hold. `AgreementInv`
  adds `Agrees(r)`: a run at work has the durable inputs, an answer at `check` is
  the durable one, and so are the accepted ones. A run that does not move keeps its
  agreement because nothing durable is replaced (`DurableStays`, `OthersAgree`);
  each step of the run keeps or restores it (`AgreementStep`); what is published is
  published from agreement (`PublishedStep`). `AcceptedWork`, `Published` and
  `NoConflictAtTheEnd` follow from the invariant.

`PipelineProofs`, about `JobLaunch` alone (any launchers, attempts, commits,
instance types):

- `LaunchInvariant`: `LaunchInv` is needed even for types, since a job is made from
  what a launcher holds. `Holds(l)` says that a launcher past its intent holds the
  stored request, that one which monitors has a job and, if it has seen it end, has
  seen its last status, and that one which is past its receipt has a completed one.
  `NamedForAttempt` says that a job bears the name of its attempt, `ReceiptsStand`
  that a receipt tells the status and request of the job of that name,
  `CompletedHasInference` what a job's exit status means. The lemma `NothingLost`
  collects what no step takes away; `SharedStep` shows the conjuncts about shared
  objects, `OwnStepHolds` and `OthersHold` those about launchers. `JobsFollow`,
  `NeverRefused`, `NoDuplicateJob`, `TrueReceipts` and `DurableSuccess` follow from
  the invariant. `NoDuplicateJob` is short because the name is a function of the
  attempt, which is the code's argument too.
- `OneJobAtATime`, for one launcher. `OneActiveJob` is not inductive: creation needs
  that nothing is active. `QuietInv` says what the launcher knows on its way there
  (after the first listing no job is in progress, after the second none is stopping
  either), which holds because nobody else creates and no job goes back to an
  earlier status.

`PipelineProofs`, about the composition (any launchers, attempts, questions,
generations):

- `LoopImplementsJob`: `ImplementsLaunch`, with `result` for `inference`. A step of
  a loop that does not publish is a stutter, `Publish` is `Infers`, and a
  container's end is the end of its job; `Completed` needs `PipelineInv`, that a
  loop that is done has published, which is `AgreementInv` of
  `SystemInferenceProofs` over the shared bucket. The theorems about `JobLaunch` so
  hold of the pipeline. `JobsPublishTheDurable` is the same invariant's other half.
- `OneLauncherPaysOnce`, for one launcher. A count is not inductive without knowing
  where each call is. `WorkInv` says that at most the container of the one active
  job is at work (`QuietInv`), that it calls the model only for a question that has
  no durable answer, and that its answer goes nowhere else before it is written;
  `PaidInv` counts: calls are at most the durable answers (`Answered`) and the jobs
  that owe one (`Owing`): those lost, and the one at work on an answer it has not
  written yet.

`OracleResumeProofs` (any commands racing, any jobs and questions):

- `TypeCorrect`: `TypeInv` adds to the types that the job a command is about to
  submit is nobody else's (`Planned`) and where a running job is (`AtWork`).
- `Published`: `KeptInv` adds that what a job *that goes on* has recorded is what
  its prefix holds (`Kept`): a job that recorded an answer and lost the put ends
  there, so its memory is never published.

- `ConsistentLineage`, `LinkedWorkStays`, `WholeWhenCompleted`, for one command,
  from `LineInv`. What a lineage holds is defined on the set of prefixes that
  parents lead to, so the proof needs no induction along the chain: it compares the
  prefixes reached before and after a step (`FamilyIsClosed`, `FamilyElsewhere`,
  `FamilyOwn`). `RunInv` says that what a container reuses is what its source loads,
  and that the source is not running any more; `AttemptInv` that a job that has
  linked has this source for its parent and one that has not has an empty prefix;
  `PlanInv` that the command about to submit found the source ended and the prefix
  empty, which one command can rely on. A link then adds to an empty prefix the
  lineage of an ended job, so no cycle closes (`LinkIsAcyclic`), and a save adds an
  answer no ancestor has (`Agreeing`).

`OracleCommandProofs` (any plans, limits, poll interval, invocations, jobs):

- `TypeCorrect`, `OneWriterPerPrefix`, `RunningJobIsOnRecord`,
  `MonitorOutlastsTheJob`, all from `Inv`. `Alone` is what the listings and the look
  at the prefix are worth while the command goes on to submit: no job is live,
  although the two statuses are asked for one after the other, because jobs move
  from in progress to stopping and never back, and only the command creates.
  `Attached` says that a command with a name is about the only live job. `OneLive`
  is the strengthening of `PrefixHasOneWriter`: a live job has its prefix to itself,
  so what it writes late is alone too. `OnTime` bounds the clock of the monitor by
  the time the job may have been there (`Spent`: the limits of the phases behind it
  and its age), or by the sum of all limits and one poll when it has ended;
  `NeverTooLate` concludes that the ceiling is never passed. SageMaker's steps and
  the clock are one argument (`JobsEvolve`): a job may only evolve (`Evolves`), and
  nothing said above is disturbed by that.

`SystemCommandProofs` (any runs of the command, edits, replacements, publications
and preparations; any files, contents and listings):

- `LogArchivedWhole`, from `LogInv`: until the stage ends the log is open
  (`Opened`), once stop is set it takes one more line, and a command that is not
  running has either told its heartbeat thread to stop or taken it along. A
  heartbeat that was due earlier still runs, but looks at the stop event under the
  lock.
- `PublicationTellsTheTruth`, from `PubInv`, with any number of publishers in one
  checkout. A publisher reads the digest of the inputs before it executes and the
  gate compares it afterwards; nothing compares it in between. The argument is an
  order: no part of the inputs ever returns to an earlier value (`InputStep`), so
  `NotLater` is a partial order that the inputs only climb (`NotLaterIsAnOrder`).
  `Told` says that a manifest names inputs no later than those its outputs were
  computed from, which are no later than the present ones. It holds of what each
  publisher holds (`Truthful`), of what is staged (`StagedInv`), where any publisher
  may have put it, and of what is published (`Honest`), whoever edits, overtakes or
  dies in between. Where the gate finds the first equal to the last, the middle is
  equal too (`ValidIsTrue`). Between gate and archive anybody may publish, so
  `GateInv` keeps only what survives that: there is a manifest, and each archived
  pair is `Vouched`: outputs that its manifest names are of the code it names and no
  older than its inputs.
- `SourcesStayBacked`, from `SourceInv`. `SyncInv` says that the rows of a
  synchronisation at work are backed already (`Held`), and that the newest version
  of the file at hand is the one whose digest it is about to write down; versions
  are only added (`UploadAdds`). A run with as many rows as the competition has
  files has listed them all in their order (`SortedWhole`, from `Unmoved`: a rising
  map of 1..n to itself is the identity, by counting instead of induction).
  `PrepInv` says that checkpoints and the document in hand derive from the pinned
  version or are not there.

`RecoveryProofs` (any runs, questions, pages, texts and responses):

- `EverySearchIsComplete` is about `page_search_order` alone. `OrderedForm` says
  that counting predecessors puts each item in one place (by `PlaceOfEach`: the
  counts are an injection into 0..n-1, so onto it), which makes `Rank` a permutation
  of the pages (`RankForm`) and `Distinct` the sequence of first places
  (`DistinctForm`). Each kind of candidate is a window that one request can carry,
  and the batches begin where the best four end (`BatchCandidates`). The run
  `recovery` checks the same predicate, `IsCompleteSearch`, up to six pages.
- `DecidedOnTheFirst`, from `SearchInv`. The property speaks of one question and of
  attempts by many runs; the invariant says why they may be added up. A run past OCR
  holds the pages that are saved, for good (`Reading`), so all runs have the same
  windows and ask under the same names; there is one attempt under a name
  (`OneOfEachAttempt`), so what was not enough for one run is not enough for any.
  `Searching` then says that the windows behind a run were tried, `Finding` that a
  question it left open is `Hopeless`: every window was tried.
- `NeverRefused` and `ExportsWhole`, from `ExportInv`. A question cannot be decided
  and `Hopeless` (both would need the one attempt to be complete and not), so all
  runs report the same (`ReportAgrees`). What `complete_answer` accepts passes
  `_answer` and `_pages` (`CompleteFits`, `PagesForm`), so the checks of the CSV
  hold when nothing is open (`RowsForm`). A bundle agrees with the decisions, and
  those are never changed (`AgreesStays`); the rest follows a run from put to put
  (`Publishing`).

`EvaluationProofs` (any configurations, hubs, retries; hosts, contents of the
mirror, scans, objects; evaluators, controls, references, predictions, answers of
the judge, crashes). Three components that share no state that changes, hence three
invariants:

- `RegistryInvHolds`, `LocksAreAppendOnly`. The property compares a lock with the
  one it replaces; the rows of the new one were put together one at a time, from a
  configuration read earlier. `RegistryInv` says of a command what makes them fit at
  the end: the lock that it read is still there (`Resolving`, one command at a
  time), the terms of its rows, with what is still wanted, are those of *one*
  configuration (`Wanted`), and the rows found so far agree on a revision and a
  license for each repository with the rows of the parent (`Found`, `Licensed`).
  That is why `Fetch` is only reached for a repository of which no row is known.
- `LocksAreWhole`, `AssetsStayBacked`, from `ProtocolInv`. Everything said of the
  bucket is about versions, which are added and never lost (`PutForm`), so what one
  host needs no put of another takes away (`HostMoves`, `KeptFits`). `LocksFit` says
  that each file under the prefix of a lock is of that lock, whoever put it there,
  and the latest lock is published: a freeze is past its first four uploads when it
  puts the pointer (`FilesUploaded`). `PrepareFits` says that a preparation at its
  n-th object has backed rows for those before (`RowsFit`), and that the rows of a
  document are of one scan (`OneScanEach`); it is where the order of the work
  matters, since a document is opened once because its objects follow each other
  (`OpenPdfKeeps`).
- `ScoresReproduce`, `AcceptanceHolds`, `LineageIsTrue`, from `EvaluationInv`.
  `RunFits` says that what a run has heard is what is recorded for those pairs, in
  the order in which it asks, whoever recorded it; a decision once recorded stays
  (`RunPersists`), so scores computed at the end of a run are still those that the
  decisions give (`RowsAgree`, which needs that the pairs of a question are found
  where `Row` looks for them: `PairsFor`, `FlattenForm`). `Accepted` says that
  whoever goes beyond the controls heard what was expected, and `FirstSummary` and
  `ResultsFit` what a summary saved by another run was.
- `ValidFoldsAreIsolated`: what the validators accept is what folds are for. The
  validators compare sets of questions and lists of documents; the theorem is about
  documents of questions. `FoldsAlwaysIsolate` is the other direction: the builders
  never make folds that are refused, at either level (`LevelIsExact`), so of three documents or more, with own question
  names, there are always folds. That is also how the lock that comes with the
  repository has them (`OriginalHasFolds`), from which `ProtocolInv` starts.
- `ScoresGoBackToTheirRows`: names of two digits are in the order of their numbers
  (`TwoDigitsInOrder`), so each row is in its own place. The bound is sharp: a name
  of three digits is sorted in between.
- `LcsIsLongest`: each entry of the dynamic program is the size of a longest common
  subsequence of what is before it, by the least counterexample (`EntryIsLongest` is
  the step), which also gives that there is such a table at all.

The invariants of `EvaluationProofs` were first checked by TLC on the instance of
`evaluation` (`ProtocolInv` in 384,248 states, `EvaluationInv` in 273,201). The
proofs changed the models in three places. After the last object, the second
alternative of the CASE in `Recorded` (`Protocol`) asked about an object beyond the
list; now the conditions come one after the other. A run with no pair to ask about
beyond its controls (`Evaluation`) had no step after its report; it now saves, as
the code does. A document with a page too few ended a preparation when it was
opened; the code, and now `HeadObjectOf`, first stores the pages before that one.

Induction. The library's induction principles take a predicate as a parameter and
cannot be used, but a set of numbers that is not empty has a least member (`Least`,
from the well-founded order on finite sets), and a least counterexample does for
some functions what induction would: `FlattenForm`, `LcsIsLongest`.

Only model-checked: `GateIsExact` (`oracle_command`), which compares the gate's
verdict with a whole run by evaluation; `SearchOrderIsComplete`, the instance of
`EverySearchIsComplete` that TLC checks; and of `AlgorithmsAreExact` what is left
after the theorems above: that the matching is a maximum one (it needs the theory of
augmenting paths, over a search whose rounds are folds) and the measures of
rankings. Liveness (`InferenceCompletes`, `LaunchersEnd`, `RecoveryEnds`) stays with
TLC for good: the prover does not handle fairness and `ENABLED`.

## Not modelled

- *EventLogger* (`observability/events.py`): its stage joins the heartbeat thread
  with a timeout and holds no lock over the terminal event, and `bind` gives a
  child a lock of its own. It promises no order, and no code reads its lines.
- *Access, preflight and contract checks:* validators of committed files and of
  the surroundings. They have no steps.
- *nDCG:* logarithms in floating point.
- *Model readers, OCR, rendering, the kernel, Unicode normalisation, the grammar
  of the constrained decoder:* libraries and models. Their outputs are arbitrary
  members of small sets.
- *BM25 scores and estimated costs:* floating point. Scores are numbers that
  order pages; the cost guard is stated in whole units.
- *export_test and the oracle submission:* commands that call the functions of
  `Submission` and `Preparation`; their own steps are not modelled.
- *Archives:* the tar form of a job's artifact, and the packaging and restoring of
  private artifacts.
- *Reports, analysis, audits, the public demo:* formatting of finished results.

## Plan

1. *Done:* `WriteOnce`, `SlotStore`, `SystemInference`, `OracleResume`,
   `JobLaunch`, and a module of proofs for each of the four.
2. *Done:* the rest of the pipeline: `Recovery` over `ReaderOutput`, `PageSearch`
   and `Submission`; `Evaluation` over `Metric`; `OracleCommand` over
   `ArtifactGate`; `SystemCommand` over `RunLog`, `NotebookPublication`,
   `KaggleSync` and `Preparation`; what an evaluation rests on: `Protocol` over
   `Splits`, and `Registry`. The pure algorithms are part of the modules
   that use them, and are compared with their references in those runs.
3. *Proofs.* Done: the four modules of 1; for one launcher `OneActiveJob` and
   `WorkIsPaidOnce`, and the steps of `ImplementsLaunch`; for one command
   `LineageIsConsistent`, `LinkedWorkIsRetained` and `CompletedIsWhole`;
   `OracleCommand`; `ArchivedLogIsFinal`, `PublicationIsTrue` and `SourcesAreBacked`
   (`SystemCommand`); `DecisionIsFirstComplete`, `ExportIsWhole` and `NoDeadEnd`
   (`Recovery`); `LockIsWhole` and `AssetsAreBacked` (`Protocol`); `RegistryIsAppendOnly`
   (`Registry`); `ScoresAreReproducible`, `AcceptanceGates` and `LineageHolds` (`Evaluation`);
   folds, joins and the longest common subsequence. To come: that the matching is a maximum one.
4. *Done:* the composition of `JobLaunch` with `SystemInference` as its job
   (`Pipeline`). *To come:* `export_test` as a command of its own.

## Running

```
tlc -config MCSlotStore.cfg MCSlotStore        # and the others alike
tlapm SlotStoreProofs.tla                      # and the others alike
```

`MCOracleRace.cfg`, `MCOracleRaceLineage.cfg` and `MCOracleResumeInterrupted.cfg`
are configurations of `MCOracleResume`. The longest runs (`MCEvaluation`,
`MCPipeline`, `MCRecovery`, `MCSystemCommand`) take up to three minutes, the others less. `EvaluationProofs` is the longest proof,
seven minutes from nothing; the others take less.
