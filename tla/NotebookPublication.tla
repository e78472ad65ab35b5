------------------------ MODULE NotebookPublication ------------------------
(***************************************************************************)
(* publish_notebook and execute_and_save of lava/notebook_execution.py and *)
(* the kernel run of scripts/execute_notebooks.py: a notebook is executed, *)
(* staged under the digests of its inputs and its source, and only then    *)
(* put in place, notebook first and manifest last.  Nothing keeps two such *)
(* processes from the same checkout and the same staging directory.  A     *)
(* notebook is its code, what its outputs were computed from and by which  *)
(* process: cells keep the times of their execution, so that executions by *)
(* two processes never leave the same bytes.  Its checksum is itself.      *)
(***************************************************************************)
EXTENDS Naturals

CONSTANTS NoRecord,
          Publishers \* processes that run execute_notebooks.py --publish, at most so many at once

VARIABLES notebook, \* notebooks/05_end_to_end_system_evaluation.ipynb
          manifest, \* reports/notebook_execution/05_...manifest.json
          staged,   \* artifacts/notebook_runs, by input digest and source digest
          pub       \* the publishers

bookVars == <<notebook, manifest, staged, pub>>

Unstaged == [target |-> NoRecord, manifest |-> NoRecord]
At(key)  == IF key \in DOMAIN staged THEN staged[key] ELSE Unstaged
Stage(key, entry) == staged' = [k \in DOMAIN staged \cup {key} |-> IF k = key THEN entry ELSE staged[k]]

NoPublisher == [pc |-> "idle", inputs |-> NoRecord, dir |-> 0, source |-> 0, out |-> NoRecord, ok |-> TRUE]

\* A checkout that was never published.
Unpublished ==
  /\ notebook = [code |-> 1, ran |-> NoRecord]
  /\ manifest = NoRecord
  /\ staged = [k \in {} |-> Unstaged]
  /\ pub = [w \in Publishers |-> NoPublisher]

Key(w)       == <<pub[w].inputs, pub[w].dir>>
Record(p)    == [source |-> p.source, inputs |-> p.inputs, output |-> p.out]
Become(w, p) == pub' = [pub EXCEPT ![w] = p]
PubEnd(w, ok) == Become(w, [NoPublisher EXCEPT !.ok = ok])

\* analysis_input_digest, once for all notebooks.
DigestInputs(w, current) ==
  /\ pub[w].pc = "idle"
  /\ Become(w, [NoPublisher EXCEPT !.pc = "check", !.inputs = current])
  /\ UNCHANGED <<notebook, manifest, staged>>

\* publish_notebook: a publication that is still true is reused.
CheckPublished(w) ==
  /\ pub[w].pc = "check"
  /\ IF manifest = [source |-> notebook.code, inputs |-> pub[w].inputs, output |-> notebook]
       THEN PubEnd(w, TRUE)
       ELSE Become(w, [pub[w] EXCEPT !.pc = "stage", !.dir = notebook.code])
  /\ UNCHANGED <<notebook, manifest, staged>>

\* execute_and_save reads the source again, and trusts a staged manifest.
CheckStaged(w) ==
  /\ pub[w].pc = "stage"
  /\ LET m == At(Key(w)).manifest IN
     IF m = NoRecord THEN Become(w, [pub[w] EXCEPT !.pc = "load", !.source = notebook.code])
     ELSE IF \/ m.source # notebook.code
             \/ m.inputs # pub[w].inputs
             \/ m.output # At(Key(w)).target
       THEN PubEnd(w, FALSE)
     ELSE Become(w, [pub[w] EXCEPT !.pc = "install", !.source = notebook.code, !.out = m.output])
  /\ UNCHANGED <<notebook, manifest, staged>>

\* The notebook that the kernel will run is read.
LoadNotebook(w) ==
  /\ pub[w].pc = "load"
  /\ Become(w, [pub[w] EXCEPT !.pc = "execute", !.out = [code |-> notebook.code, ran |-> NoRecord]])
  /\ UNCHANGED <<notebook, manifest, staged>>

\* The cells ran on the reports as they are now.
Executed(w, current) ==
  LET code == pub[w].out.code
      ran  == [code |-> code, inputs |-> current, by |-> w]
  IN Become(w, [pub[w] EXCEPT !.pc = "target", !.out = [code |-> code, ran |-> ran]])

\* A fault: the source of what was executed is not compared.
ExecuteUnchecked(w, current) ==
  /\ pub[w].pc = "execute"
  /\ PubEnd(w, FALSE) \/ Executed(w, current)
  /\ UNCHANGED <<notebook, manifest, staged>>

\* Execution, which may fail, and the comparison of the source.
Execute(w, current) ==
  /\ pub[w].pc = "execute"
  /\ \/ PubEnd(w, FALSE)
     \/ pub[w].out.code = pub[w].source /\ Executed(w, current)
  /\ UNCHANGED <<notebook, manifest, staged>>

StageTarget(w) ==
  /\ pub[w].pc = "target"
  /\ Stage(Key(w), [At(Key(w)) EXCEPT !.target = pub[w].out])
  /\ Become(w, [pub[w] EXCEPT !.pc = "record"])
  /\ UNCHANGED <<notebook, manifest>>

StageManifest(w) ==
  /\ pub[w].pc = "record"
  /\ Stage(Key(w), [At(Key(w)) EXCEPT !.manifest = Record(pub[w])])
  /\ Become(w, [pub[w] EXCEPT !.pc = "install"])
  /\ UNCHANGED <<notebook, manifest>>

\* The notebook is read back from the staging directory ...
InstallNotebook(w) ==
  /\ pub[w].pc = "install"
  /\ notebook' = At(Key(w)).target
  /\ Become(w, [pub[w] EXCEPT !.pc = "publish"])
  /\ UNCHANGED <<manifest, staged>>

\* ... and the manifest is the one in memory.
PublishManifest(w) ==
  /\ pub[w].pc = "publish"
  /\ manifest' = Record(pub[w])
  /\ PubEnd(w, TRUE)
  /\ UNCHANGED <<notebook, staged>>

PublisherCrash(w) ==
  /\ pub[w].pc # "idle"
  /\ PubEnd(w, FALSE)
  /\ UNCHANGED <<notebook, manifest, staged>>

Publisher(w, current) ==
  \/ CheckPublished(w) \/ CheckStaged(w) \/ LoadNotebook(w) \/ Execute(w, current)
  \/ StageTarget(w) \/ StageManifest(w) \/ InstallNotebook(w) \/ PublishManifest(w)

\* validate_public_notebook, as the quality gate asks it.
Valid(current) == manifest = [source |-> notebook.code, inputs |-> current, output |-> notebook]
=============================================================================
