----------------------------- MODULE KaggleSync -----------------------------
(***************************************************************************)
(* lava/data/kaggle_sync.py: the competition's files are listed page by    *)
(* page, mirrored to a versioned S3 prefix and written to a manifest that  *)
(* names one version and one digest of each.  Kaggle may replace a file,   *)
(* with or without a change of size, and the sync may stop anywhere.  A    *)
(* content is its own digest.                                              *)
(***************************************************************************)
EXTENDS Naturals, Sequences, FiniteSets, SequencesExt

CONSTANTS Files,        \* the names, in the order in which a listing is sorted
          Contents, Size, \* a file's contents, in the order in which they may replace each other
          Chains        \* page sequences that the listing endpoint may serve

ASSUME FilesAssumption ==
  /\ Files # << >> /\ Files \in Seq(ToSet(Files))
  /\ \A i, j \in DOMAIN Files : Files[i] = Files[j] => i = j

\* An earlier content does not come back.  "none" is the mark for no content.
ASSUME ContentsAssumption ==
  /\ 1 \in DOMAIN Contents /\ DOMAIN Contents \subseteq Nat
  /\ \A i, j \in DOMAIN Contents : Contents[i] = Contents[j] => i = j
  /\ \A i \in DOMAIN Contents : Contents[i] # "none"

\* The endpoint lists the whole competition before its tokens end.
ASSUME ChainsAssumption ==
  \A chain \in Chains :
    (\A i, j \in DOMAIN chain : i # j => chain[i].next # chain[j].next)
      => UNION {chain[i].names : i \in DOMAIN chain} = ToSet(Files)

VARIABLES kaggle,  \* content of each file on the server
          raw,     \* the versions of each S3 object, oldest first
          csv,     \* reports/raw_data_manifest.csv
          summary, \* reports/kaggle_inventory_summary.json and the manifest's own summary
          sync

kaggleVars == <<kaggle, raw, csv, summary, sync>>

Names   == ToSet(Files)
NoSync  == [pc |-> "idle", list |-> << >>, size |-> [f \in {} |-> 0], at |-> 0, digest |-> "none",
            rows |-> << >>, started |-> 0]
Changes == Cardinality({f \in Names : kaggle[f] # Contents[1]})

\* Everything mirrored once; this manifest is the one the contracts are pinned to.
Mirrored ==
  /\ kaggle = [f \in Names |-> Contents[1]]
  /\ raw = [f \in Names |-> <<Contents[1]>>]
  /\ csv = [by |-> 0, rows |-> [i \in DOMAIN Files |->
               [name |-> Files[i], size |-> Size[Contents[1]], digest |-> Contents[1], version |-> 1]]]
  /\ summary = [inventory |-> kaggle, manifest |-> 0]
  /\ sync = NoSync

\* A fault: a repeated token ends the listing like the last page.
ListSoFar(chain) ==
  LET page[i \in 1..Len(chain) + 1] ==
        IF i > Len(chain) THEN {}
        ELSE chain[i].names \cup
             (IF chain[i].next \in {chain[j].next : j \in 1..i - 1} THEN {} ELSE page[i + 1])
  IN [ok |-> TRUE, names |-> page[1]]

\* list_files: follow the tokens; one that was seen before is an error.
List(chain) ==
  [ok    |-> \A i, j \in DOMAIN chain : i # j => chain[i].next # chain[j].next,
   names |-> UNION {chain[i].names : i \in DOMAIN chain}]

\* In the order of the names.
Position(f)   == CHOOSE i \in DOMAIN Files : Files[i] = f
Sorted(names) == CHOOSE s \in [1..Cardinality(names) -> names] :
                   \A i, j \in DOMAIN s : i < j => Position(s[i]) < Position(s[j])

Stored(f) == IF raw[f] = << >> THEN "none" ELSE Last(raw[f])

\* A fault: an object of another size is reused.
StoredAnySize(f, size) == Stored(f)

\* existing_digest: the newest version, if it has the listed size.
Existing(f, size) == IF Stored(f) # "none" /\ Size[Stored(f)] = size THEN Stored(f) ELSE "none"

SyncEnd == sync' = [NoSync EXCEPT !.started = sync.started]

\* The listing and the inventory written from it.
ListFiles(limits) ==
  /\ sync.pc = "idle"
  /\ \E chain \in Chains, limit \in limits :
       IF List(chain).ok
         THEN LET found == Sorted(List(chain).names)
                  take  == IF limit = 0 \/ limit > Len(found) THEN Len(found) ELSE limit
              IN /\ sync' = [NoSync EXCEPT !.pc = "head", !.started = sync.started + 1,
                                           !.list = SubSeq(found, 1, take), !.at = 1,
                                           !.size = [f \in List(chain).names |-> Size[kaggle[f]]]]
                 /\ summary' = [summary EXCEPT !.inventory = [f \in List(chain).names |-> kaggle[f]]]
         ELSE sync' = [NoSync EXCEPT !.started = sync.started + 1] /\ UNCHANGED summary
  /\ UNCHANGED <<kaggle, raw, csv>>

file == sync.list[sync.at]

HeadObject ==
  /\ sync.pc = "head"
  /\ LET d == Existing(file, sync.size[file]) IN
     sync' = [sync EXCEPT !.digest = d, !.pc = IF d = "none" THEN "download" ELSE "version"]
  /\ UNCHANGED <<kaggle, raw, csv, summary>>

\* download_payload: a payload of the listed size, or after three tries none.
Download ==
  /\ sync.pc = "download"
  /\ \/ Size[kaggle[file]] = sync.size[file] /\ sync' = [sync EXCEPT !.pc = "upload", !.digest = kaggle[file]]
     \/ SyncEnd
  /\ UNCHANGED <<kaggle, raw, csv, summary>>

Upload ==
  /\ sync.pc = "upload"
  /\ raw' = [raw EXCEPT ![file] = Append(@, sync.digest)]
  /\ sync' = [sync EXCEPT !.pc = "verify"]
  /\ UNCHANGED <<kaggle, csv, summary>>

VerifyUpload ==
  /\ sync.pc = "verify"
  /\ IF Existing(file, sync.size[file]) = sync.digest THEN sync' = [sync EXCEPT !.pc = "version"] ELSE SyncEnd
  /\ UNCHANGED <<kaggle, raw, csv, summary>>

\* A separate head request names the version of the row.
HeadVersion ==
  /\ sync.pc = "version"
  /\ LET row == [name |-> file, size |-> sync.size[file], digest |-> sync.digest, version |-> Len(raw[file])]
         more == sync.at < Len(sync.list)
     IN sync' = [sync EXCEPT !.rows = Append(@, row), !.digest = "none",
                             !.at = IF more THEN @ + 1 ELSE @, !.pc = IF more THEN "head" ELSE "manifest"]
  /\ UNCHANGED <<kaggle, raw, csv, summary>>

Complete == Len(sync.rows) = Cardinality(DOMAIN sync.size)

\* A limited run writes the _smoke files beside the manifest.
WriteManifest ==
  /\ sync.pc = "manifest"
  /\ csv' = IF Complete THEN [by |-> sync.started, rows |-> sync.rows] ELSE csv
  /\ sync' = [sync EXCEPT !.pc = "summary"]
  /\ UNCHANGED <<kaggle, raw, summary>>

WriteSummary ==
  /\ sync.pc = "summary"
  /\ summary' = [summary EXCEPT !.manifest = @ + 1]
  /\ SyncEnd
  /\ UNCHANGED <<kaggle, raw, csv>>

SyncFails ==
  /\ sync.pc # "idle"
  /\ SyncEnd
  /\ UNCHANGED <<kaggle, raw, csv, summary>>

\* The host replaces a file.
Replace ==
  /\ \E f \in Names, i, j \in DOMAIN Contents :
       /\ i < j /\ kaggle[f] = Contents[i]
       /\ kaggle' = [kaggle EXCEPT ![f] = Contents[j]]
  /\ UNCHANGED <<raw, csv, summary, sync>>

Sync == \/ HeadObject \/ Download \/ Upload \/ VerifyUpload \/ HeadVersion
        \/ WriteManifest \/ WriteSummary \/ SyncFails

\* cached_source: the version a row names still has the digest of the row.
Backed(row) == /\ row.version \in DOMAIN raw[row.name]
               /\ raw[row.name][row.version] = row.digest
               /\ Size[row.digest] = row.size
=============================================================================
