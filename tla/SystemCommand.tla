--------------------------- MODULE SystemCommand ---------------------------
(***************************************************************************)
(* scripts/evaluate_system.py in its finish mode, with everything it       *)
(* shares files with: the notebook publisher it starts and those that are  *)
(* started by hand, the heartbeat thread of its log, a Kaggle              *)
(* synchronisation of the same checkout and an operator who edits sources  *)
(* and the notebook.  The GPU stages are one step here: JobLaunch and      *)
(* SystemInference are about them.                                         *)
(***************************************************************************)
EXTENDS RunLog, NotebookPublication, Preparation

CONSTANTS MaxDisturbances, \* bound on what happens beside the first run of the command: more
                           \* runs, edits, replacements of files, synchronisations, heartbeats,
                           \* publications by hand and exports, together
          Limits           \* values of the limit option of a synchronisation

ASSUME BoundsAssumption == MaxDisturbances \in Nat /\ Limits \subseteq Nat

VARIABLES cmd,       \* the command
          report,    \* the public reports hold the scores
          sources,   \* revision of src/, scripts/ and configs/
          edits,     \* revisions given to the notebook's code
          byHand,    \* publications and preparations of an export started by the operator
          archived,  \* the S3 copy of the run's log
          published  \* the records of archived publications

commandVars == <<cmd, report, sources, edits, byHand, archived, published>>
vars == <<logVars, bookVars, kaggleVars, prepVars, commandVars>>

\* "publisher" is the process that the command waits for.
NoCommand == [pc |-> "idle", run |-> 0, ok |-> TRUE, book |-> NoRecord, publisher |-> NoRecord]

\* analysis_input_digest: what the notebook may read.
Inputs == <<report, sources, summary>>

Init ==
  /\ NoLog /\ Unpublished /\ Mirrored /\ Unprepared
  /\ cmd = NoCommand
  /\ report = FALSE /\ sources = 0 /\ edits = 1 /\ byHand = 0
  /\ archived = << >> /\ published = {}

Beats == Len(SelectSeq(log, LAMBDA line : line = "heartbeat"))
Disturbances == (IF cmd.run > 1 THEN cmd.run - 1 ELSE 0) + (edits - 1) + sources + Changes + byHand + sync.started + Beats
Undisturbed  == Disturbances < MaxDisturbances

Goto(pc) == cmd' = [cmd EXCEPT !.pc = pc]
Raise    == cmd' = [cmd EXCEPT !.pc = "stop", !.ok = FALSE]

Begin ==
  /\ cmd.pc = "idle" /\ (cmd.run > 0 => Undisturbed)
  /\ BeginStage
  /\ cmd' = [NoCommand EXCEPT !.pc = "prepare", !.run = cmd.run + 1]
  /\ archived' = << >>
  /\ UNCHANGED <<bookVars, kaggleVars, prepVars, report, sources, edits, byHand, published>>

\* prepare_inputs.
Prepare ==
  /\ cmd.pc = "prepare"
  /\ OpenSources("system")
  /\ Goto("preparing")
  /\ UNCHANGED <<logVars, bookVars, kaggleVars, report, sources, edits, byHand, archived, published>>

AwaitInputs ==
  /\ cmd.pc = "preparing" /\ prep.pc = "idle"
  /\ IF prep.ok THEN Goto("execute") ELSE Raise
  /\ prep' = NoPrep
  /\ UNCHANGED <<logVars, bookVars, kaggleVars, cache, stages, inputs, report, sources, edits, byHand, archived, published>>

\* execute_system.
ExecuteSystem ==
  /\ cmd.pc = "execute"
  /\ Goto("evaluate") \/ Raise
  /\ UNCHANGED <<logVars, bookVars, kaggleVars, prepVars, report, sources, edits, byHand, archived, published>>

\* evaluate_system leaves the reports as a function of the durable answers.
Evaluate ==
  /\ cmd.pc = "evaluate"
  /\ \/ Goto("notebooks") /\ report' = TRUE
     \/ Raise /\ UNCHANGED report
  /\ UNCHANGED <<logVars, bookVars, kaggleVars, prepVars, sources, edits, byHand, archived, published>>

\* make notebooks, a process of its own.
StartPublisher ==
  /\ cmd.pc = "notebooks"
  /\ \/ \E w \in Publishers : /\ DigestInputs(w, Inputs)
                               /\ cmd' = [cmd EXCEPT !.pc = "publishing", !.publisher = w]
     \/ Raise /\ UNCHANGED bookVars
  /\ UNCHANGED <<logVars, kaggleVars, prepVars, report, sources, edits, byHand, archived, published>>

AwaitPublisher ==
  /\ cmd.pc = "publishing" /\ pub[cmd.publisher].pc = "idle"
  /\ cmd' = IF pub[cmd.publisher].ok
              THEN [cmd EXCEPT !.pc = "quality", !.publisher = NoRecord]
              ELSE [cmd EXCEPT !.pc = "stop", !.ok = FALSE, !.publisher = NoRecord]
  /\ Become(cmd.publisher, NoPublisher)
  /\ UNCHANGED <<logVars, notebook, manifest, staged, kaggleVars, prepVars, report, sources, edits, byHand, archived, published>>

\* make quality ends with the validation of the public notebook.
Quality ==
  /\ cmd.pc = "quality"
  /\ \/ Valid(Inputs) /\ Goto("archive_notebook")
     \/ Raise
  /\ UNCHANGED <<logVars, bookVars, kaggleVars, prepVars, report, sources, edits, byHand, archived, published>>

ArchiveNotebook ==
  /\ cmd.pc = "archive_notebook"
  /\ cmd' = [cmd EXCEPT !.pc = "archive_manifest", !.book = notebook]
  /\ UNCHANGED <<logVars, bookVars, kaggleVars, prepVars, report, sources, edits, byHand, archived, published>>

\* The manifest's blob and the record that names both.
ArchiveManifest ==
  /\ cmd.pc = "archive_manifest"
  /\ \/ Goto("stop") /\ published' = published \cup {[book |-> cmd.book, manifest |-> manifest]}
     \/ Raise /\ UNCHANGED published
  /\ UNCHANGED <<logVars, bookVars, kaggleVars, prepVars, report, sources, edits, byHand, archived>>

Stop ==
  /\ cmd.pc = "stop"
  /\ StopStage
  /\ Goto("end")
  /\ UNCHANGED <<bookVars, kaggleVars, prepVars, report, sources, edits, byHand, archived, published>>

EmitTerminal ==
  /\ cmd.pc = "end"
  /\ EndStage(IF cmd.ok THEN "completed" ELSE "failed")
  /\ Goto("log")
  /\ UNCHANGED <<bookVars, kaggleVars, prepVars, report, sources, edits, byHand, archived, published>>

\* put_blob of the log may fail before or after the object is there.
ArchiveLog ==
  /\ cmd.pc = "log"
  /\ \/ archived' = log /\ UNCHANGED log
     \/ archived' \in {<< >>, log} /\ log' = Append(log, "archive_failed")
  /\ Goto("idle")
  /\ UNCHANGED <<beat, stopped, bookVars, kaggleVars, prepVars, report, sources, edits, byHand, published>>

\* The command is killed, its heartbeat thread with it; the publisher lives on
\* and nobody looks at the log of this run again.
Crash ==
  /\ cmd.pc # "idle"
  /\ cmd' = [cmd EXCEPT !.pc = "idle", !.publisher = NoRecord] /\ archived' = << >>
  /\ log' = << >> /\ beat' = "none" /\ stopped' = FALSE
  /\ prep' = IF cmd.pc = "preparing" THEN NoPrep ELSE prep
  /\ UNCHANGED <<bookVars, kaggleVars, cache, stages, inputs, report, sources, edits, byHand, published>>

Command == \/ Begin \/ Prepare \/ AwaitInputs \/ ExecuteSystem \/ Evaluate \/ StartPublisher \/ AwaitPublisher
           \/ Quality \/ ArchiveNotebook \/ ArchiveManifest \/ Stop \/ EmitTerminal \/ ArchiveLog \/ Crash

\* A publisher of the operator's own, whatever the command is at.
PublishByHand ==
  /\ Undisturbed
  /\ \E w \in Publishers : w # cmd.publisher /\ DigestInputs(w, Inputs)
  /\ byHand' = byHand + 1
  /\ UNCHANGED <<logVars, kaggleVars, prepVars, cmd, report, sources, edits, archived, published>>

\* The export command prepares the test documents.
PrepareExport ==
  /\ "export" \in Splits /\ Undisturbed
  /\ OpenSources("export")
  /\ byHand' = byHand + 1
  /\ UNCHANGED <<logVars, bookVars, kaggleVars, cmd, report, sources, edits, archived, published>>

EditNotebook ==
  /\ Undisturbed
  /\ edits' = edits + 1
  /\ notebook' = [notebook EXCEPT !.code = edits + 1]
  /\ UNCHANGED <<logVars, manifest, staged, pub, kaggleVars, prepVars, cmd, report, sources, byHand, archived, published>>

EditSources ==
  /\ Undisturbed
  /\ sources' = sources + 1
  /\ UNCHANGED <<logVars, bookVars, kaggleVars, prepVars, cmd, report, edits, byHand, archived, published>>

Next ==
  \/ Command
  \/ (WaitReturns(Undisturbed) \/ TakeLifecycleLock \/ Beat) /\ UNCHANGED <<bookVars, kaggleVars, prepVars, commandVars>>
  \/ (\E w \in Publishers : Publisher(w, Inputs) \/ PublisherCrash(w)) /\ UNCHANGED <<logVars, kaggleVars, prepVars, commandVars>>
  \/ PublishByHand
  \/ Undisturbed /\ ListFiles(Limits) /\ UNCHANGED <<logVars, bookVars, prepVars, commandVars>>
  \/ (Sync \/ (Undisturbed /\ Replace)) /\ UNCHANGED <<logVars, bookVars, prepVars, commandVars>>
  \/ PrepStep /\ UNCHANGED <<logVars, bookVars, kaggleVars, commandVars>>
  \/ PrepareExport \/ EditNotebook \/ EditSources

Spec == Init /\ [][Next]_vars
-----------------------------------------------------------------------------
\* The order in which inputs come: reports stay, revisions and manifests are
\* counted, and the host does not bring an old content back.
Before(a, b) == \E i, j \in DOMAIN Contents : i <= j /\ a = Contents[i] /\ b = Contents[j]

NotLater(a, b) ==
  /\ a[1] = TRUE => b[1] = TRUE
  /\ a[2] <= b[2]
  /\ a[3].manifest <= b[3].manifest
  /\ \A f \in Names : Before(a[3].inventory[f], b[3].inventory[f])

-----------------------------------------------------------------------------
TypeOK ==
  /\ beat \in Threads /\ stopped \in BOOLEAN
  /\ \A i \in DOMAIN log : log[i] \in StageEvents \cup {"archive_failed"}
  /\ cmd.publisher \in Publishers \cup {NoRecord}
  /\ \A w \in Publishers :
       /\ pub[w].pc \in {"idle", "check", "stage", "load", "execute", "target", "record", "install", "publish"}
       /\ pub[w].ok \in BOOLEAN
       /\ pub[w].pc = "install" => At(Key(w)).target # NoRecord
  /\ notebook.code \in 1..edits
  /\ \A k \in DOMAIN staged : staged[k].manifest # NoRecord => staged[k].target # NoRecord
  /\ \A f \in Names : raw[f] \in Seq(ToSet(Contents)) /\ kaggle[f] \in ToSet(Contents)
  /\ sync.pc # "idle" => sync.at \in DOMAIN sync.list /\ sync.started \in Nat \ {0}
  /\ prep.pc \in {"idle", "load", "stage", "blobs", "save", "manifest"}
  /\ prep.pc \in {"load", "stage", "blobs", "save"} => prep.rows # {}
  /\ cmd.run \in 0..MaxDisturbances + 1

\* What the gate accepts is true: the outputs of the published notebook are
\* those of its code on the inputs as they are.  And in the archive, which may
\* hold another publication by then, outputs that a manifest vouches for are
\* those of the code it names, computed no earlier than the inputs it names
\* (execute_and_save, publish_notebook, validate_public_notebook, main; edits, a
\* synchronisation, dead publishers and several live ones in between).
PublicationIsTrue ==
  /\ Valid(Inputs) => notebook.ran.code = notebook.code /\ notebook.ran.inputs = Inputs
  /\ \A p \in published : p.manifest.output = p.book =>
       /\ p.book.ran.code = p.manifest.source
       /\ NotLater(p.manifest.inputs, p.book.ran.inputs)

\* Not so: what is archived after the gate was computed from the inputs that its
\* manifest names, as what the gate accepted was.  A publisher started by hand
\* may install between the gate and the archive (main of evaluate_system.py).
ArchiveIsTrue ==
  \A p \in published : p.manifest.output = p.book =>
    /\ p.book.ran.code = p.manifest.source
    /\ p.book.ran.inputs = p.manifest.inputs

\* The archived log of a run is the log of a whole stage, and nothing is added
\* to the file afterwards but the notice that archiving failed: no late
\* heartbeat (RuntimeEventLogger.stage, main).
ArchivedLogIsFinal ==
  archived # << >> =>
    /\ WellFormed(archived)
    /\ IsPrefix(archived, log)
    /\ \A i \in Len(archived) + 1..Len(log) : log[i] = "archive_failed"

\* The manifest of a complete synchronisation names every file once, each with
\* a version that holds what the row says, whatever was replaced or
\* interrupted on the way; and reader inputs are made of the versions that the
\* pinned manifest names, whatever copies and checkpoints earlier runs left and
\* whatever the mirror has become (sync_files, cached_source, prepare_inputs).
SourcesAreBacked ==
  /\ Len(csv.rows) = Len(Files)
  /\ \A i \in DOMAIN Files : csv.rows[i].name = Files[i] /\ Backed(csv.rows[i])
  /\ \A who \in Splits : \A i \in DOMAIN inputs[who] : inputs[who][i] = Contents[1]
=============================================================================
