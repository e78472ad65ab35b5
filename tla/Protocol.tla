------------------------------ MODULE Protocol ------------------------------
(***************************************************************************)
(* lava/evaluation/protocol.py and lava/readers/oracle_assets.py: the      *)
(* references and folds are frozen under a lock, then the gold pages are   *)
(* rendered to versioned objects that a manifest names.  Hosts, each with  *)
(* a checkout of its own, do either at any time on one bucket, and may     *)
(* stop anywhere; the mirror of the competition may be replaced meanwhile. *)
(***************************************************************************)
EXTENDS Splits

CONSTANTS Hosts,
          Trains,      \* contents of train.csv by name: sequences of [question, document, pages]
          Original,    \* the name of the one that the repository was frozen with
          Documents,   \* the number of documents that the configuration expects
          Questions,   \*   and of questions
          Scans,       \* contents of a training PDF: for each kind of object, its digest
          PageCount,   \*   and its number of pages
          Objects,     \* the objects of a page, in the order in which they are put
          Seconds,     \* values of the timestamp in the name of a manifest
          MaxStarts,   \* bound on freezes and preparations together
          MaxReplaced, \* bound on replacements in the mirror
          NoLock

\* A lock has a prefix of its own, beside those of the newest files, of the
\* manifests and of the pages; parse_training_csv takes no question without evidence.
ASSUME ProtocolAssumption ==
  /\ Original \in DOMAIN Trains /\ {"latest", "manifest", "page"} \cap DOMAIN Trains = {}
  /\ \A t \in DOMAIN Trains : /\ Trains[t] \in Seq([question : Int, document : Int, pages : SUBSET Nat])
                              /\ Trains[t] # << >>
                              /\ \A i \in DOMAIN Trains[t] : /\ Trains[t][i].pages # {}
                                                            /\ IsFiniteSet(Trains[t][i].pages)
  /\ Objects \in Seq(ToSet(Objects)) /\ Objects # << >>
  /\ 1 \in DOMAIN Scans
  /\ MaxStarts \in Nat /\ MaxReplaced \in Nat

VARIABLES train,    \* which of Trains the mirror holds
          pdfs,     \* and which of Scans, for each document
          bucket,   \* the versions of each other object, oldest first
          checkout, \* the files of each host
          host, starts, replaced

protocolVars == <<train, pdfs, bucket, checkout, host, starts, replaced>>

Sources == UNION {DocumentsOf(Trains[t]) : t \in DOMAIN Trains}
Idle    == [pc |-> "idle", by |-> 0, train |-> Original, lock |-> NoLock, at |-> 1, scan |-> 0,
            rows |-> << >>, version |-> 0]

\* The folds of each content: computed once here, by every freeze in the code.
FoldsOf  == [t \in DOMAIN Trains |-> Folds(Trains[t])]
\* The repository comes with a lock of that content: of three documents or more,
\* by questions of different names.
ASSUME OriginalIsFrozen ==
  /\ Cardinality(DocumentsOf(Trains[Original])) >= 3
  /\ Cardinality(AllQuestions(Trains[Original])) = Len(Trains[Original])

FoldsFit == [t \in DOMAIN Trains |-> FoldsOf[t].ok /\ Isolated(FoldsOf[t].nested, Trains[t])]

\* A fault: what is latest is announced before it is there.
LatestFirst(lock) == <<<<"latest", "lock">>, <<"latest", "summary">>, <<lock, "refs">>, <<lock, "folds">>,
                       <<lock, "lock">>, <<lock, "summary">>>>

\* The keys in the order of their uploads.
Uploads(lock) == <<<<lock, "refs">>, <<lock, "folds">>, <<lock, "lock">>, <<lock, "summary">>,
                   <<"latest", "lock">>, <<"latest", "summary">>>>

\* The repository comes with the lock of the first content, frozen long ago by
\* a host that is not one of these; no page has been rendered.
Committed == [refs |-> Original, folds |-> Original, lock |-> Original, summary |-> 0, receipts |-> NoLock]
OnceUploaded ==
  LET file == [refs |-> Original, folds |-> Original, lock |-> Original, summary |-> 0] IN
  [k \in ToSet(Uploads(Original)) |-> <<file[k[2]]>>]

FrozenOnce == /\ train = Original /\ pdfs = [d \in Sources |-> 1]
              /\ bucket = OnceUploaded
              /\ checkout = [h \in Hosts |-> Committed]
              /\ host = [h \in Hosts |-> Idle]
              /\ starts = 0 /\ replaced = 0

Versions(key)   == IF key \in DOMAIN bucket THEN bucket[key] ELSE << >>
PutVersion(key, value) == bucket' = [k \in DOMAIN bucket \cup {key} |->
                                       IF k = key THEN Append(Versions(key), value) ELSE bucket[k]]

Now(h, pc)   == host' = [host EXCEPT ![h].pc = pc]
Finished(h)  == host' = [host EXCEPT ![h] = Idle]
Saved(h, file, value) == checkout' = [checkout EXCEPT ![h][file] = value]

-----------------------------------------------------------------------------
\* freeze_protocol reads train.csv once; the lock is the digest of that content
\* among others.  A content of other counts, or one without folds, ends it.
BeginFreeze(h) ==
  /\ host[h].pc = "idle" /\ starts < MaxStarts
  /\ starts' = starts + 1
  /\ host' = IF /\ Len(Trains[train]) = Questions
                /\ Cardinality(DocumentsOf(Trains[train])) = Documents
                /\ FoldsOf[train].ok
               THEN [host EXCEPT ![h] = [Idle EXCEPT !.pc = "write", !.by = starts + 1,
                                                     !.train = train, !.lock = train]]
               ELSE host
  /\ UNCHANGED <<train, pdfs, bucket, checkout, replaced>>

\* What a freeze writes: everything but the summary follows from the content,
\* and is named by it.
Frozen(h) == [refs |-> host[h].train, folds |-> host[h].train,
              lock |-> host[h].lock, summary |-> host[h].by]

LocalOrder == <<"refs", "folds", "lock", "summary">>

\* _atomic_write of the private files, the lock and the reports.
WriteLocal(h) ==
  /\ host[h].pc = "write"
  /\ LET file == LocalOrder[host[h].at] IN Saved(h, file, Frozen(h)[file])
  /\ host' = IF host[h].at < Len(LocalOrder) THEN [host EXCEPT ![h].at = @ + 1]
             ELSE [host EXCEPT ![h].at = 1, ![h].pc = "upload"]
  /\ UNCHANGED <<train, pdfs, bucket, starts, replaced>>

Upload(h) ==
  /\ host[h].pc = "upload"
  /\ LET key == Uploads(host[h].lock)[host[h].at] IN PutVersion(key, Frozen(h)[key[2]])
  /\ Now(h, "check")
  /\ UNCHANGED <<train, pdfs, checkout, starts, replaced>>

\* The head request after a put must see the digest that was put; the receipts
\* are the last file.
CheckUpload(h) ==
  /\ host[h].pc = "check"
  /\ LET key  == Uploads(host[h].lock)[host[h].at]
         same == Last(bucket[key]) = Frozen(h)[key[2]]
         last == host[h].at = Len(Uploads(host[h].lock)) IN
     /\ IF same /\ ~last THEN host' = [host EXCEPT ![h].at = @ + 1, ![h].pc = "upload"] ELSE Finished(h)
     /\ IF same /\ last THEN Saved(h, "receipts", host[h].lock) ELSE UNCHANGED checkout
  /\ UNCHANGED <<train, pdfs, bucket, starts, replaced>>

-----------------------------------------------------------------------------
\* The objects to render: document after document, page after page.
Targets(t) == UNION {{<<record.document, page, k>> : page \in record.pages, k \in DOMAIN Objects} :
                     record \in ToSet(Trains[t])}

Earlier(a, b) == \/ a[1] < b[1]
                 \/ a[1] = b[1] /\ a[2] < b[2]
                 \/ a[1] = b[1] /\ a[2] = b[2] /\ a[3] < b[3]

Work == [t \in DOMAIN Trains |->
  LET order == Ordered(Targets(t), {p \in Targets(t) \X Targets(t) : Earlier(p[1], p[2])}) IN
  [n \in DOMAIN order |-> <<"page", order[n][1], order[n][2], Objects[order[n][3]]>>]]

work(h)   == Work[host[h].train]
key(h)    == work(h)[host[h].at]
digest(h) == Scans[host[h].scan][key(h)[4]]

\* prepare_oracle_assets, by an operator who has configured it with the lock of
\* the checkout; train.csv is read again, and is not compared with that lock.
BeginAssets(h) ==
  /\ host[h].pc = "idle" /\ starts < MaxStarts
  /\ starts' = starts + 1
  /\ host' = [host EXCEPT ![h] = [Idle EXCEPT !.pc = "open", !.by = starts + 1,
                                              !.train = train, !.lock = checkout[h].lock]]
  /\ UNCHANGED <<train, pdfs, bucket, checkout, replaced>>

\* A fault: the document is downloaded again for each object.
OpenAgain(h) ==
  /\ host[h].pc \in {"open", "head"}
  /\ host' = [host EXCEPT ![h].pc = "head", ![h].scan = pdfs[key(h)[2]]]
  /\ UNCHANGED <<train, pdfs, bucket, checkout, starts, replaced>>

\* One download of a document for all its pages.
OpenPdf(h) ==
  /\ host[h].pc = "open"
  /\ host' = [host EXCEPT ![h].pc = "head", ![h].scan = pdfs[key(h)[2]]]
  /\ UNCHANGED <<train, pdfs, bucket, checkout, starts, replaced>>

\* The object is at version: its row, and the next object, the next document or the manifest.
Recorded(h, version) ==
  LET row  == [key |-> key(h), version |-> version, digest |-> digest(h)]
      next == host[h].at + 1 IN
  host' = [host EXCEPT ![h].rows = Append(@, row), ![h].at = next,
             ![h].pc = IF next > Len(work(h))              THEN "manifest"
                       ELSE IF work(h)[next][2] # key(h)[2] THEN "open" ELSE "head"]

\* A fault: an object that exists is reused whatever its digest.
HeadOnly(h) ==
  /\ host[h].pc = "head"
  /\ LET old == Versions(key(h)) IN
     IF old # << >> THEN Recorded(h, Len(old)) ELSE Now(h, "put")
  /\ UNCHANGED <<train, pdfs, bucket, checkout, starts, replaced>>

\* A page the document has not ends the command.  _put_if_changed: the newest
\* version is reused if it has the digest.
HeadObjectOf(h) ==
  /\ host[h].pc = "head"
  /\ LET old == Versions(key(h)) IN
     IF key(h)[3] > PageCount[host[h].scan]      THEN Finished(h)
     ELSE IF old # << >> /\ Last(old) = digest(h) THEN Recorded(h, Len(old)) ELSE Now(h, "put")
  /\ UNCHANGED <<train, pdfs, bucket, checkout, starts, replaced>>

PutObject(h) ==
  /\ host[h].pc = "put"
  /\ PutVersion(key(h), digest(h))
  /\ Recorded(h, Len(Versions(key(h))) + 1)
  /\ UNCHANGED <<train, pdfs, checkout, starts, replaced>>

Manifest(h) == [train |-> host[h].train, lock |-> host[h].lock, rows |-> host[h].rows]

\* Two commands of one second share the name of their manifests.
PutManifest(h) ==
  /\ host[h].pc = "manifest"
  /\ \E second \in Seconds : PutVersion(<<"manifest", second>>, Manifest(h))
  /\ Now(h, "latest")
  /\ UNCHANGED <<train, pdfs, checkout, starts, replaced>>

PutLatest(h) ==
  /\ host[h].pc = "latest"
  /\ PutVersion(<<"manifest", "latest">>, Manifest(h))
  /\ host' = [host EXCEPT ![h].pc = "announce", ![h].version = Len(Versions(<<"manifest", "latest">>)) + 1]
  /\ UNCHANGED <<train, pdfs, checkout, starts, replaced>>

\* A fault: the summary names the newest version there is.
AnnounceNewest(h) ==
  /\ host[h].pc = "announce"
  /\ PutVersion(<<"latest", "assets">>, [version |-> Len(Versions(<<"manifest", "latest">>)), manifest |-> Manifest(h)])
  /\ Finished(h)
  /\ UNCHANGED <<train, pdfs, checkout, starts, replaced>>

\* The public summary pins the version of the manifest.
Announce(h) ==
  /\ host[h].pc = "announce"
  /\ PutVersion(<<"latest", "assets">>, [version |-> host[h].version, manifest |-> Manifest(h)])
  /\ Finished(h)
  /\ UNCHANGED <<train, pdfs, checkout, starts, replaced>>

-----------------------------------------------------------------------------
\* An error of a request and a kill leave the same.
HostStops(h) ==
  /\ host[h].pc # "idle"
  /\ Finished(h)
  /\ UNCHANGED <<train, pdfs, bucket, checkout, starts, replaced>>

\* The competition publishes another file and the mirror follows.
ReplaceSource ==
  /\ replaced < MaxReplaced /\ replaced' = replaced + 1
  /\ \/ train' \in DOMAIN Trains \ {train} /\ UNCHANGED pdfs
     \/ /\ \E d \in Sources, s \in DOMAIN Scans : s # pdfs[d] /\ pdfs' = [pdfs EXCEPT ![d] = s]
        /\ UNCHANGED train
  /\ UNCHANGED <<bucket, checkout, host, starts>>

ProtocolNext ==
  \/ \E h \in Hosts :
       \/ BeginFreeze(h) \/ WriteLocal(h) \/ Upload(h) \/ CheckUpload(h)
       \/ BeginAssets(h) \/ OpenPdf(h) \/ HeadObjectOf(h) \/ PutObject(h)
       \/ PutManifest(h) \/ PutLatest(h) \/ Announce(h) \/ HostStops(h)
  \/ ReplaceSource

ProtocolSpec == FrozenOnce /\ [][ProtocolNext]_protocolVars

-----------------------------------------------------------------------------
\* The lock a reader finds as the latest, and the one of a freeze that reported
\* success, has all its files under its own prefix: the references and the
\* folds of the content it was frozen from, and these are isolated.  Freezes at
\* once, of the same or of another content, do not disturb that
\* (freeze_protocol, build_nested_leave_one_document_out_folds).
LockIsWhole ==
  \A lock \in (ToSet(Versions(<<"latest", "lock">>)) \cup {checkout[h].receipts : h \in Hosts}) \ {NoLock} :
    \A file \in {"refs", "folds", "lock", "summary"} :
      /\ Versions(<<lock, file>>) # << >>
      /\ file # "summary" => ToSet(Versions(<<lock, file>>)) = {lock} /\ FoldsFit[lock]

\* Every row of every manifest names a version that has the digest of the row,
\* the objects of a document come from one content of it, and the public
\* summary pins the manifest it describes, with preparations at once and the
\* sources replaced between two of their requests (prepare_oracle_assets).
AssetsAreBacked ==
  /\ \A k \in DOMAIN bucket : k[1] = "manifest" =>
       \A m \in ToSet(bucket[k]) :
         /\ [n \in DOMAIN m.rows |-> m.rows[n].key] = Work[m.train]
         /\ \A n \in DOMAIN m.rows :
              LET row == m.rows[n] IN
              row.version \in DOMAIN bucket[row.key] /\ bucket[row.key][row.version] = row.digest
         /\ \A d \in DocumentsOf(Trains[m.train]) : \E s \in DOMAIN Scans :
              \A n \in DOMAIN m.rows : m.rows[n].key[2] = d => m.rows[n].digest = Scans[s][m.rows[n].key[4]]
  /\ \A a \in ToSet(Versions(<<"latest", "assets">>)) :
       Versions(<<"manifest", "latest">>)[a.version] = a.manifest
=============================================================================
