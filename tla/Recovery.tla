------------------------------ MODULE Recovery ------------------------------
(***************************************************************************)
(* pipelines/submission/recovery.py: the questions that the base inference *)
(* left without a complete answer are asked again, over windows of pages   *)
(* in the order of PageSearch, and one CSV is exported when every one of   *)
(* them is recovered.  Runs of the program share the durable objects of    *)
(* one contract: OCR pages, attempts, decisions, the report, the receipt,  *)
(* each a slot of SlotStore (a write is accepted, finds an equal value, or *)
(* raises; its read-back cannot differ), and the submission bundles of     *)
(* lava/evaluation/submission_store.py.  A run holds everything else in    *)
(* memory, and loses it at any exception.                                  *)
(***************************************************************************)
EXTENDS Submission, PageSearch

CONSTANTS Runs,        \* executions, each of a code revision of its own
          Order,       \* the questions, in the order of the template
          Format,      \* Format[q]: the answer format of q
          PageCount,   \* pages of the document they ask about
          Base,        \* Base[q]: the response of the base inference
          Responses,   \* what the reader may answer
          Texts,       \* what OCR may read on a page, as its score
          MaxCalls,    \* POLICY["maximum_model_calls"]
          MaxCrashes,  \* bound on interruptions
          None

Questions == ToSet(Order)
PageSet   == 1..PageCount

ASSUME RecoveryAssumption == /\ Order \in Seq(Nat) /\ IsInjective(Order)
                             /\ Format \in [Questions -> Formats]
                             /\ PageCount \in Nat \ {0}
                             /\ Texts \subseteq Nat
                             /\ MaxCalls \in Nat \ {0}
                             /\ MaxCrashes \in Nat
                             /\ \A x \in Responses \cup {Base[q] : q \in Questions} :
                                  /\ x.json \in Reads /\ x.pages \in Seq(Int)
                                  /\ x.answer.text \in STRING /\ x.answer.items \in Seq(STRING)

\* complete_answer: structural completeness, which says nothing of correctness.
CompleteAnswer(p, format) ==
  p.valid /\ ~p.abstain /\ ~EmptyAnswer(p.answer, format) /\ p.pages # {}

BasePrediction(q) == Prediction(Base[q], Format[q], PageSet)

\* inspect_base: the questions to recover.
Failed == {q \in Questions : ~CompleteAnswer(BasePrediction(q), Format[q])}

\* A saved answer: its request, the OCR text it was shown, the raw response.
Contexts == UNION {[w -> Texts] : w \in (SUBSET PageSet) \ {{}}}
Records  == [question : Failed, context : Contexts, response : Responses]

Parsed(s)   == Prediction(s.response, Format[s.question], DOMAIN s.context)
Complete(s) == CompleteAnswer(Parsed(s), Format[s.question])

Rows   == Seq([id : Questions, answer : Seq(STRING), pages : Seq(Nat)])
Bundle == [rows : Rows, by : Runs]

ASSUME NoneAssumption == None \notin Texts \cup Records \cup Bundle

\* page_search_order for every text the pages may have.
Windows == [c \in [PageSet -> Texts] |-> SearchOrder(Rank(c))]

VARIABLES
  ocr,         \* ocr[p]: ocr/<document>/<p>.json
  attempts,    \* the records under attempts/, one for each request and context
  decision,    \* decision[q]: answers/<q>.json
  report,      \* report.json
  csvs,        \* the bundles with a submission.csv in S3 ...
  manifests,   \* ... and those with a manifest.json
  receipt,     \* export.json: the bundle it names
  pc,          \* pc[r]: where run r is, or how it ended
  mem,         \* mem[r]: what r holds in memory
  current,     \* current[r]: the submission.csv and manifest.json on r's disk
  crashes

durable == <<ocr, attempts, decision, report, csvs, manifests, receipt>>
vars    == <<durable, pc, mem, current, crashes>>

Ended  == {"idle", "done", "failed", "disagree", "unresolved", "refused"}
Active == {"ocr", "question", "window", "predict", "save", "decide", "report",
           "writereport", "export", "csv", "manifest", "copycsv", "copymanifest", "receipt"}

Nothing == [context   |-> [p \in PageSet |-> None],
            asked     |-> {},
            recovered |-> [q \in Failed |-> None],
            at        |-> 0,
            calls     |-> 0,
            saved     |-> None]

\* What a run holds in memory.
Memory == [context : [PageSet -> Texts \cup {None}], asked : SUBSET Failed,
           recovered : [Failed -> Records \cup {None}],
           at : Nat, calls : 0..MaxCalls, saved : Records \cup {None}]

SearchTypes ==
  /\ ocr \in [PageSet -> Texts \cup {None}]
  /\ attempts \subseteq Records
  /\ decision \in [Failed -> Records \cup {None}]
  /\ report \in [unresolved : SUBSET Failed, by : Runs] \cup {None}
  /\ pc \in [Runs -> Ended \cup Active]
  /\ mem \in [Runs -> Memory]

ExportTypes ==
  /\ csvs \subseteq Bundle /\ manifests \subseteq Bundle
  /\ receipt \in Bundle \cup {None}
  /\ current \in [Runs -> [csv : Bundle \cup {None}, manifest : Bundle \cup {None}]]
  /\ crashes \in 0..MaxCrashes

TypeOK == SearchTypes /\ ExportTypes

Init == /\ ocr = [p \in PageSet |-> None]
        /\ attempts = {}
        /\ decision = [q \in Failed |-> None]
        /\ report = None
        /\ csvs = {} /\ manifests = {}
        /\ receipt = None
        /\ pc = [r \in Runs |-> "idle"]
        /\ mem = [r \in Runs |-> Nothing]
        /\ current = [r \in Runs |-> [csv |-> None, manifest |-> None]]
        /\ crashes = 0

-----------------------------------------------------------------------------
Goto(r, l) == pc' = [pc EXCEPT ![r] = l]

\* The run ends, and with it what it held.
End(r, l) == Goto(r, l) /\ mem' = [mem EXCEPT ![r] = Nothing]

AfterOcr(c) == IF None \in {c[p] : p \in PageSet} THEN "ocr" ELSE "question"

\* The question a run is at, and the text it would show of a window.
question(r) == Min(Failed \ mem[r].asked)
shown(r, w) == [p \in w |-> mem[r].context[p]]

\* The windows of the question, and the one the run is at.
windows(r) == Windows[mem[r].context]
window(r)  == windows(r)[mem[r].at]

\* Attempts are named for their request and context.
Saved(q, c) == {s \in attempts : s.question = q /\ s.context = c}

\* check_recovery_record: a saved answer was given to this run's OCR text.
Fits(r, s) == s.context = shown(r, DOMAIN s.context)

-----------------------------------------------------------------------------
\* A run reads export.json first; without one, the OCR pages saved so far.
Start(r) ==
  /\ pc[r] \in Ended
  /\ receipt = None
  /\ mem' = [mem EXCEPT ![r] = [Nothing EXCEPT !.context = ocr]]
  /\ Goto(r, AfterOcr(ocr))
  /\ UNCHANGED <<durable, current, crashes>>

\* With one, the bundle it names is verified and copied once more.
Reuse(r) ==
  /\ pc[r] \in Ended
  /\ receipt # None
  /\ IF receipt \in csvs /\ receipt \in manifests
       THEN /\ current' = [current EXCEPT ![r] = [csv |-> receipt, manifest |-> receipt]]
            /\ End(r, "done")
       ELSE End(r, "failed") /\ UNCHANGED current
  /\ UNCHANGED <<durable, crashes>>

\* A fault: a page is read again without asking the store.
OcrIntoMemory(r, p, t) ==
  /\ pc[r] = "ocr" /\ mem[r].context[p] = None
  /\ mem' = [mem EXCEPT ![r].context[p] = t]
  /\ Goto(r, AfterOcr(mem'[r].context))
  /\ ocr' = [ocr EXCEPT ![p] = IF @ = None THEN t ELSE @]
  /\ UNCHANGED <<attempts, decision, report, csvs, manifests, receipt, current, crashes>>

\* document_text: pages are read by a pool and saved as they come.
OcrPage(r, p, t) ==
  /\ pc[r] = "ocr" /\ mem[r].context[p] = None
  /\ IF ocr[p] \in {None, t}
       THEN /\ ocr' = [ocr EXCEPT ![p] = t]
            /\ mem' = [mem EXCEPT ![r].context[p] = t]
            /\ Goto(r, AfterOcr(mem'[r].context))
       ELSE End(r, "failed") /\ UNCHANGED ocr
  /\ UNCHANGED <<attempts, decision, report, csvs, manifests, receipt, current, crashes>>

\* The next question: its decision is reused if there is one.
NextQuestion(r) ==
  /\ pc[r] = "question"
  /\ \/ /\ mem[r].asked = Failed
        /\ Goto(r, "report")
        /\ UNCHANGED mem
     \/ /\ mem[r].asked # Failed
        /\ LET q == question(r) IN
           \/ /\ decision[q] = None
              /\ Goto(r, "window")
              /\ mem' = [mem EXCEPT ![r].at = 1]
           \/ /\ decision[q] # None
              /\ IF Fits(r, decision[q]) /\ Complete(decision[q])
                   THEN /\ mem' = [mem EXCEPT ![r].recovered[q] = decision[q],
                                              ![r].asked = @ \cup {q}]
                        /\ UNCHANGED pc
                   ELSE End(r, "failed")
  /\ UNCHANGED <<durable, current, crashes>>

\* What is made of an answer once it is saved: the first complete one is
\* decided on, any other sends the run on to the next window.
Judge(r, s) ==
  IF ~Fits(r, s) THEN End(r, "failed")
  ELSE IF Complete(s) THEN Goto(r, "decide") /\ mem' = [mem EXCEPT ![r].saved = s]
  ELSE Goto(r, "window") /\ mem' = [mem EXCEPT ![r].saved = None, ![r].at = @ + 1]

\* The next window: after the last one the question stays unresolved; within
\* the allowance of model calls a saved attempt is reused, or one is made.
NextWindow(r) ==
  /\ pc[r] = "window"
  /\ IF mem[r].at > Len(windows(r))
       THEN /\ mem' = [mem EXCEPT ![r].asked = @ \cup {question(r)}, ![r].at = 0]
            /\ Goto(r, "question")
       ELSE IF mem[r].calls >= MaxCalls
       THEN End(r, "failed")
       ELSE LET old == Saved(question(r), shown(r, window(r))) IN
            IF old = {} THEN Goto(r, "predict") /\ UNCHANGED mem
                        ELSE Judge(r, CHOOSE s \in old : TRUE)
  /\ UNCHANGED <<durable, current, crashes>>

\* reader.predict
Predict(r, x) ==
  /\ pc[r] = "predict"
  /\ mem' = [mem EXCEPT ![r].saved = [question |-> question(r),
                                      context  |-> shown(r, window(r)),
                                      response |-> x],
                        ![r].calls = @ + 1]
  /\ Goto(r, "save")
  /\ UNCHANGED <<durable, current, crashes>>

\* A fault: only answers worth deciding on are saved.
SaveCompleteOnly(r) ==
  /\ pc[r] = "save"
  /\ attempts' = IF Complete(mem[r].saved) THEN attempts \cup {mem[r].saved} ELSE attempts
  /\ Judge(r, mem[r].saved)
  /\ UNCHANGED <<ocr, decision, report, csvs, manifests, receipt, current, crashes>>

\* The attempt is saved, complete or not, before anything is made of it; it
\* carries its timings, so another run's in its place is never equal.
Save(r) ==
  /\ pc[r] = "save"
  /\ LET s == mem[r].saved IN
     IF Saved(s.question, s.context) = {}
       THEN attempts' = attempts \cup {s} /\ Judge(r, s)
       ELSE End(r, "failed") /\ UNCHANGED attempts
  /\ UNCHANGED <<ocr, decision, report, csvs, manifests, receipt, current, crashes>>

Decide(r) ==
  /\ pc[r] = "decide"
  /\ LET s == mem[r].saved
         q == s.question IN
     IF decision[q] \in {None, s}
       THEN /\ decision' = [decision EXCEPT ![q] = s]
            /\ mem' = [mem EXCEPT ![r].recovered[q] = s, ![r].asked = @ \cup {q},
                                  ![r].saved = None, ![r].at = 0]
            /\ Goto(r, "question")
       ELSE End(r, "failed") /\ UNCHANGED decision
  /\ UNCHANGED <<ocr, attempts, report, csvs, manifests, receipt, current, crashes>>

-----------------------------------------------------------------------------
\* What the run has found: the questions no window of theirs was enough for.
Unresolved(r) == {q \in Failed : mem[r].recovered[q] = None}

\* report.json of an earlier run must agree, apart from its calls and its time.
Report(r) ==
  /\ pc[r] = "report"
  /\ \/ report = None /\ Goto(r, "writereport") /\ UNCHANGED mem
     \/ /\ report # None
        /\ IF report.unresolved = Unresolved(r) THEN Goto(r, "export") /\ UNCHANGED mem
                                                ELSE End(r, "disagree")
  /\ UNCHANGED <<durable, current, crashes>>

\* The report carries the time it took: two runs never write the same one.
WriteReport(r) ==
  /\ pc[r] = "writereport"
  /\ IF report = None
       THEN /\ report' = [unresolved |-> Unresolved(r), by |-> r]
            /\ Goto(r, "export") /\ UNCHANGED mem
       ELSE End(r, "failed") /\ UNCHANGED report
  /\ UNCHANGED <<ocr, attempts, decision, csvs, manifests, receipt, current, crashes>>

\* The rows to export: a complete base answer stays, any other is replaced by
\* what was decided.
Chosen(r, q) == IF q \in Failed THEN Parsed(mem[r].recovered[q]) ELSE BasePrediction(q)

Predicted(r) == [i \in DOMAIN Order |-> [id     |-> Order[i],
                                         answer |-> Chosen(r, Order[i]).answer,
                                         pages  |-> SetToSeq(Chosen(r, Order[i]).pages)]]

Counts == [q \in Questions |-> PageCount]

Exported(r) == [rows |-> BuildSubmission(Predicted(r), Order), by |-> r]

\* export_recovered refuses an open question; build_submission an unfit row.
Export(r) ==
  /\ pc[r] = "export"
  /\ IF Unresolved(r) # {} THEN End(r, "unresolved")
     ELSE IF /\ Accepted(Predicted(r), Order, Format, Counts)
             /\ ValidCsv(Exported(r).rows, Order, Format, Counts)
     THEN Goto(r, "csv") /\ UNCHANGED mem
     ELSE End(r, "refused")
  /\ UNCHANGED <<durable, current, crashes>>

\* A fault: an unresolved question keeps its failed base answer.
ExportAnyway(r) ==
  /\ pc[r] = "export"
  /\ Goto(r, "csv") /\ UNCHANGED mem
  /\ UNCHANGED <<durable, current, crashes>>

\* persist_submission: the CSV under the bundle's name, created or found ...
PutCsv(r) ==
  /\ pc[r] = "csv"
  /\ csvs' = csvs \cup {Exported(r)}
  /\ Goto(r, "manifest")
  /\ UNCHANGED <<ocr, attempts, decision, report, manifests, receipt, mem, current, crashes>>

\* ... and the manifest that commits it ...
PutManifest(r) ==
  /\ pc[r] = "manifest"
  /\ manifests' = manifests \cup {Exported(r)}
  /\ Goto(r, "copycsv")
  /\ UNCHANGED <<ocr, attempts, decision, report, csvs, receipt, mem, current, crashes>>

\* ... then the convenience copies, one file after the other ...
CopyCsv(r) ==
  /\ pc[r] = "copycsv"
  /\ current' = [current EXCEPT ![r].csv = Exported(r)]
  /\ Goto(r, "copymanifest")
  /\ UNCHANGED <<durable, mem, crashes>>

CopyManifest(r) ==
  /\ pc[r] = "copymanifest"
  /\ current' = [current EXCEPT ![r].manifest = Exported(r)]
  /\ Goto(r, "receipt")
  /\ UNCHANGED <<durable, mem, crashes>>

\* A fault: the receipt of another run is not compared.
KeepAnyReceipt(r) ==
  /\ pc[r] = "receipt"
  /\ receipt' = IF receipt = None THEN Exported(r) ELSE receipt
  /\ End(r, "done")
  /\ UNCHANGED <<ocr, attempts, decision, report, csvs, manifests, current, crashes>>

\* ... and the receipt, export.json: only now is the recovery over.
Receipt(r) ==
  /\ pc[r] = "receipt"
  /\ IF receipt \in {None, Exported(r)}
       THEN receipt' = Exported(r) /\ End(r, "done")
       ELSE UNCHANGED receipt /\ End(r, "failed")
  /\ UNCHANGED <<ocr, attempts, decision, report, csvs, manifests, current, crashes>>

\* The allowance of time is used up, a put is refused with 409, the instance
\* is reclaimed.
Crash(r) == /\ pc[r] \in Active
            /\ crashes < MaxCrashes
            /\ crashes' = crashes + 1
            /\ End(r, "failed")
            /\ UNCHANGED <<durable, current>>

Step(r) == \/ Start(r) \/ Reuse(r)
           \/ \E p \in PageSet, t \in Texts : OcrPage(r, p, t)
           \/ NextQuestion(r) \/ NextWindow(r)
           \/ \E x \in Responses : Predict(r, x)
           \/ Save(r) \/ Decide(r)
           \/ Report(r) \/ WriteReport(r) \/ Export(r)
           \/ PutCsv(r) \/ PutManifest(r) \/ CopyCsv(r) \/ CopyManifest(r) \/ Receipt(r)

Next == \E r \in Runs : Step(r) \/ Crash(r)

Spec == Init /\ [][Next]_vars

\* A process that runs takes its next step, and somebody starts one that has
\* ended once more: weak fairness of Step(r), which has a step to take in every
\* state until r is done.
Moves(r) == crashes' = crashes /\ <<pc[r], mem[r]>>' # <<pc[r], mem[r]>>

FairSpec == Spec /\ \A r \in Runs : []<>(pc[r] = "done") \/ []<><<Moves(r)>>_vars

-----------------------------------------------------------------------------
\* "First complete non-abstaining answer in the fixed page-search order": what
\* was decided was tried and is complete, and every window before it was tried
\* and is not, whichever runs made the attempts and however they ended.
DecisionIsFirstComplete ==
  \A q \in Failed : decision[q] # None =>
    /\ decision[q] \in attempts /\ Complete(decision[q])
    /\ None \notin ToSet(ocr)
    /\ LET w == Windows[ocr] IN
       \E i \in DOMAIN w :
         /\ decision[q].context = [p \in w[i] |-> ocr[p]]
         /\ \A j \in 1..(i - 1) : \E s \in Saved(q, [p \in w[j] |-> ocr[p]]) : ~Complete(s)

\* What is due for a question: its decision, or the complete answer it had.
Due(q) == IF q \in Failed THEN Parsed(decision[q]) ELSE BasePrediction(q)

Agrees(b) ==
  \A i \in DOMAIN Order :
    LET q == Order[i] IN
    /\ q \in Failed => decision[q] # None
    /\ b.rows[i].id = q
    /\ b.rows[i].answer = Due(q).answer /\ ToSet(b.rows[i].pages) = Due(q).pages

\* No CSV before every question is decided, and none that changes an answer
\* the base inference had completed; a receipt names a whole bundle, and the
\* files a finished run leaves on its disk are those of the receipt.
ExportIsWhole ==
  /\ \A b \in csvs : Agrees(b)
  /\ manifests \subseteq csvs
  /\ receipt # None => receipt \in manifests
  /\ \A r \in Runs : pc[r] = "done" => /\ receipt # None
                                       /\ current[r] = [csv |-> receipt, manifest |-> receipt]

\* The refusals at the end are never met: the report of an earlier run agrees
\* with every later one, and what was durably decided on as complete can be
\* written to the CSV.  Either would repeat at each rerun, for good.
NoDeadEnd == \A r \in Runs : pc[r] \notin {"disagree", "refused"}

\* However often runs are interrupted or run out of calls, reruns come to an
\* end: the export, or a report of what no window could answer.
RecoveryEnds == <>(receipt # None \/ (report # None /\ report.unresolved # {}))
=============================================================================
