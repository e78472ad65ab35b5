---------------------------- MODULE Preparation ----------------------------
(***************************************************************************)
(* prepare_inputs of lava/readers/system.py and prepare_test_inputs of     *)
(* lava/readers/test_inference.py: the documents that the pinned manifest  *)
(* names are fetched, extracted, ranked and rendered, each stage saved as  *)
(* soon as it is there and reused by the next run, and the inputs of the   *)
(* readers are written last.  What a stage derives from a document is      *)
(* represented by the document's content.                                  *)
(***************************************************************************)
EXTENDS KaggleSync

CONSTANTS Split  \* the preparation each file belongs to: "system" or "export"

VARIABLES cache,   \* content of the local copy of each file, or "none"
          stages,  \* stages[k][f]: what the checkpoint of stage k of file f derives from, or "none"
          inputs,  \* inputs.json of each preparation: what each file's rows derive from
          prep     \* the preparation that is running

prepVars == <<cache, stages, inputs, prep>>

Kinds  == <<"documents", "queries", "pages">>
Splits == {Split[f] : f \in Names}
NoPrep == [pc |-> "idle", who |-> "none", rows |-> {}, kind |-> 1, pdf |-> "none", new |-> "none", made |-> << >>, ok |-> TRUE]

\* Of the system's files an earlier benchmark left stages and an old copy.
Unprepared ==
  /\ cache = [f \in Names |-> IF Split[f] = "system" THEN Contents[2] ELSE "none"]
  /\ stages = [k \in DOMAIN Kinds |-> [f \in Names |-> IF Split[f] = "system" /\ k < 3 THEN Contents[1] ELSE "none"]]
  /\ inputs = [s \in Splits |-> << >>]
  /\ prep = NoPrep

\* validate_manifest, validate_test_manifest: one entry for each document.
Whole(who, made) == Len(made) = Cardinality({f \in Names : Split[f] = who})

PrepEnd(ok) == prep' = [NoPrep EXCEPT !.ok = ok]

\* A fault: a file that is there is taken for the file that was asked for.
CachedIfPresent(row) ==
  IF cache[row.name] # "none" THEN cache[row.name]
  ELSE IF row.version \in DOMAIN raw[row.name] THEN raw[row.name][row.version] ELSE "none"

\* cached_source: the local copy or the version in S3, whichever has the digest.
CachedSource(row) == IF cache[row.name] = row.digest \/ Backed(row) THEN row.digest ELSE "none"

\* Saved inputs are reused; new ones need the manifest the contract is pinned
\* to, and only the rows of this preparation are taken from it.
OpenSources(who) ==
  /\ prep.pc = "idle"
  /\ LET rows == {r \in ToSet(csv.rows) : Split[r.name] = who} IN
     IF inputs[who] # << >> THEN PrepEnd(Whole(who, inputs[who]))
     ELSE IF csv.by # 0 \/ rows = {} THEN PrepEnd(FALSE)
     ELSE prep' = [NoPrep EXCEPT !.pc = IF who = "export" THEN "load" ELSE "stage", !.who = who, !.rows = rows]
  /\ UNCHANGED <<cache, stages, inputs>>

\* The documents are taken in some order.
row     == CHOOSE r \in prep.rows : TRUE
saved   == stages[prep.kind][row.name]
LastKind == prep.kind = Len(Kinds)

\* The next stage of the document, the next document, or the end of both.  The
\* export keeps a document in memory; the other preparation loads it each time.
Advance ==
  IF ~LastKind THEN prep' = [prep EXCEPT !.kind = @ + 1, !.pc = "stage", !.new = "none",
                                         !.pdf = IF prep.who = "export" THEN @ ELSE "none"]
  ELSE LET rest == prep.rows \ {row} IN
       prep' = [prep EXCEPT !.kind = 1, !.pdf = "none", !.new = "none", !.rows = rest,
                            !.made = Append(@, IF prep.new = "none" THEN saved ELSE prep.new),
                            !.pc = IF rest = {} THEN "manifest"
                                   ELSE IF prep.who = "export" THEN "load" ELSE "stage"]

LoadSource ==
  /\ prep.pc = "load"
  /\ IF CachedSource(row) = "none" THEN PrepEnd(FALSE) /\ UNCHANGED cache
     ELSE /\ prep' = [prep EXCEPT !.pdf = CachedSource(row), !.pc = "stage"]
          /\ cache' = [cache EXCEPT ![row.name] = CachedSource(row)]
  /\ UNCHANGED <<stages, inputs>>

\* stage(): a checkpoint is reused; without one the result is computed, from
\* the document or, for a ranking, from the pages extracted from it.
RunStage ==
  /\ prep.pc = "stage"
  /\ IF saved # "none" THEN IF prep.kind = 1 /\ saved # row.digest THEN PrepEnd(FALSE) ELSE Advance
     ELSE IF Kinds[prep.kind] = "queries" THEN prep' = [prep EXCEPT !.new = stages[1][row.name], !.pc = "save"]
     ELSE IF prep.pdf = "none" THEN prep' = [prep EXCEPT !.pc = "load"]
     ELSE prep' = [prep EXCEPT !.new = prep.pdf, !.pc = IF LastKind THEN "blobs" ELSE "save"]
  /\ UNCHANGED <<cache, stages, inputs>>

\* render: image, text and layout are put under the identity of the page
\* before its record; the same rendering may have put them before.
PutBlobs ==
  /\ prep.pc = "blobs"
  /\ prep' = [prep EXCEPT !.pc = "save"]
  /\ UNCHANGED <<cache, stages, inputs>>

SaveStage ==
  /\ prep.pc = "save"
  /\ stages' = [stages EXCEPT ![prep.kind][row.name] = prep.new]
  /\ IF prep.kind = 1 /\ prep.new # row.digest THEN PrepEnd(FALSE) ELSE Advance
  /\ UNCHANGED <<cache, inputs>>

WriteInputs ==
  /\ prep.pc = "manifest"
  /\ IF Whole(prep.who, prep.made)
       THEN inputs' = [inputs EXCEPT ![prep.who] = prep.made] /\ PrepEnd(TRUE)
       ELSE UNCHANGED inputs /\ PrepEnd(FALSE)
  /\ UNCHANGED <<cache, stages>>

PrepFails ==
  /\ prep.pc # "idle"
  /\ PrepEnd(FALSE)
  /\ UNCHANGED <<cache, stages, inputs>>

PrepStep == LoadSource \/ RunStage \/ PutBlobs \/ SaveStage \/ WriteInputs \/ PrepFails
=============================================================================
