------------------------ MODULE SystemCommandProofs ------------------------
(***************************************************************************)
(* The finish command for any number of runs, edits, replacements and      *)
(* publications: an archived log is a whole stage, and final; a            *)
(* publication that the gate accepts was computed from what it names; the  *)
(* manifest of the sources is whole, and inputs come from pinned versions. *)
(***************************************************************************)
EXTENDS SystemCommand, TLAPS, SequenceTheorems, FiniteSetTheorems

-----------------------------------------------------------------------------
(***************************************************************************)
(* The log.                                                                *)
(***************************************************************************)
Lines == StageEvents \cup {"archive_failed"}

CommandForm == cmd = [pc |-> cmd.pc, run |-> cmd.run, ok |-> cmd.ok, book |-> cmd.book,
                      publisher |-> cmd.publisher]

\* A stage that has begun and not ended.
Opened(lines) ==
  /\ Len(lines) >= 1
  /\ lines[1] = "started"
  /\ \A i \in 2..Len(lines) : lines[i] = "heartbeat"

\* What is written under the lifecycle lock after the stop event is terminal,
\* so the log of a command that has ended stands.
LogInv ==
  /\ CommandForm
  /\ log \in Seq(Lines) /\ archived \in Seq(Lines) /\ stopped \in BOOLEAN
  /\ cmd.pc \notin {"idle", "log"} => /\ Opened(log) /\ archived = << >>
                                      /\ stopped <=> cmd.pc = "end"
  /\ cmd.pc = "log" => stopped /\ WellFormed(log) /\ archived = << >>
  /\ cmd.pc = "idle" => stopped \/ beat = "none"
  /\ ArchivedLogIsFinal

LEMMA Lengthened ==
  ASSUME NEW s \in Seq(Lines), NEW e \in Lines
  PROVE  LET t == Append(s, e) IN
         /\ t \in Seq(Lines) /\ Len(t) = Len(s) + 1 /\ Len(s) \in Nat
         /\ \A i \in 1..Len(s) : t[i] = s[i]
         /\ t[Len(s) + 1] = e
  BY AppendProperties, LenProperties

LEMMA StillOpened ==
  ASSUME NEW s \in Seq(Lines), Opened(s)
  PROVE  Opened(Append(s, "heartbeat"))
<1>. DEFINE t == Append(s, "heartbeat")
<1>1. /\ Len(t) = Len(s) + 1 /\ Len(s) \in Nat
      /\ \A i \in 1..Len(s) : t[i] = s[i]
      /\ t[Len(s) + 1] = "heartbeat"
  BY Lengthened DEF Lines, StageEvents
<1>2. \A i \in 2..Len(t) : t[i] = "heartbeat"
  <2>1. SUFFICES ASSUME NEW i \in 2..Len(s) + 1 PROVE t[i] = "heartbeat"
    BY <1>1
  <2>. QED
    BY <1>1, <2>1 DEF Opened
<1>3. Len(t) >= 1 /\ t[1] = "started"
  BY <1>1 DEF Opened
<1>. QED
  BY <1>2, <1>3 DEF Opened

LEMMA ClosedIsWhole ==
  ASSUME NEW s \in Seq(Lines), Opened(s), NEW e \in {"completed", "failed"}
  PROVE  WellFormed(Append(s, e))
<1>. DEFINE t == Append(s, e)
<1>1. /\ Len(t) = Len(s) + 1 /\ Len(s) \in Nat
      /\ \A i \in 1..Len(s) : t[i] = s[i]
      /\ t[Len(s) + 1] = e
  BY Lengthened DEF Lines, StageEvents
<1>2. Len(s) >= 1 /\ s[1] = "started" /\ \A i \in 2..Len(s) : s[i] = "heartbeat"
  BY DEF Opened
<1>3. \A i \in 2..Len(t) - 1 : t[i] = "heartbeat"
  BY <1>1, <1>2
<1>4. Len(t) >= 2 /\ t[1] = "started" /\ t[Len(t)] \in {"completed", "failed"}
  BY <1>1, <1>2
<1>. QED
  BY <1>3, <1>4 DEF WellFormed

LEMMA PrefixOfItself ==
  ASSUME NEW s \in Seq(Lines)
  PROVE  IsPrefix(s, s) /\ \A e \in Lines : IsPrefix(s, Append(s, e))
<1>1. Len(s) \in Nat
  BY LenProperties
<1>2. IsPrefix(s, s)
  BY <1>1 DEF IsPrefix
<1>3. ASSUME NEW e \in Lines PROVE IsPrefix(s, Append(s, e))
  <2>1. /\ Append(s, e) \in Seq(Lines) /\ Len(Append(s, e)) = Len(s) + 1
        /\ \A i \in 1..Len(s) : Append(s, e)[i] = s[i]
    BY Lengthened
  <2>2. SubSeq(s, 1, Len(s)) = SubSeq(Append(s, e), 1, Len(s))
    BY <1>1, <2>1
  <2>. QED
    BY <1>1, <2>1, <2>2 DEF IsPrefix
<1>. QED
  BY <1>2, <1>3

\* Steps that touch neither the log nor what is archived.
LEMMA LogUntouched ==
  ASSUME LogInv, UNCHANGED <<log, archived, stopped>>, CommandForm',
         \/ cmd'.pc = cmd.pc
         \/ /\ cmd.pc \notin {"idle", "log", "end", "stop"}
            /\ cmd'.pc \notin {"idle", "log", "end"},
         beat' = beat \/ beat # "none"
  PROVE  LogInv'
  BY DEF LogInv, Opened, WellFormed, ArchivedLogIsFinal, IsPrefix

LEMMA NoLines == << >> \in Seq(Lines)
  BY EmptySeq

LEMMA LogInitially == Init => LogInv
<1>1. Init => /\ log = << >> /\ archived = << >> /\ stopped = FALSE /\ beat = "none"
              /\ cmd.pc = "idle" /\ CommandForm
  BY DEF Init, NoLog, NoCommand, CommandForm
<1>. QED
  BY <1>1, NoLines DEF LogInv, ArchivedLogIsFinal

\* What the rest of the system does beside a line.
LEMMA LogStep == ASSUME LogInv, [Next]_vars PROVE LogInv'
<1>. USE DEF CommandForm, Goto, Raise, logVars, commandVars
<1>1. CASE Begin
  <2>1. log' = <<"started">> /\ archived' = << >> /\ stopped' = FALSE
        /\ cmd'.pc = "prepare" /\ CommandForm'
    BY <1>1 DEF Begin, BeginStage, NoCommand
  <2>2. log' \in Seq(Lines) /\ archived' \in Seq(Lines) /\ Opened(log')
    BY <2>1 DEF Lines, StageEvents, Opened
  <2>. QED
    BY <2>1, <2>2 DEF LogInv, Opened, ArchivedLogIsFinal
<1>2. CASE \/ Prepare \/ AwaitInputs \/ ExecuteSystem \/ Evaluate \/ StartPublisher \/ AwaitPublisher
           \/ Quality \/ ArchiveNotebook \/ ArchiveManifest
  <2>1. /\ UNCHANGED <<log, archived, stopped>> /\ beat' = beat
        /\ cmd.pc \notin {"idle", "log", "end", "stop"}
        /\ cmd'.pc \notin {"idle", "log", "end"}
    BY <1>2 DEF LogInv, Prepare, AwaitInputs, ExecuteSystem, Evaluate, StartPublisher, AwaitPublisher,
                Quality, ArchiveNotebook, ArchiveManifest
  <2>2. CommandForm'
    BY <1>2 DEF LogInv, Prepare, AwaitInputs, ExecuteSystem, Evaluate, StartPublisher, AwaitPublisher,
                Quality, ArchiveNotebook, ArchiveManifest
  <2>. QED
    BY <2>1, <2>2, LogUntouched
<1>3. CASE Stop
  <2>1. /\ UNCHANGED <<log, archived>> /\ stopped' = TRUE /\ cmd.pc = "stop" /\ cmd'.pc = "end" /\ CommandForm'
    BY <1>3 DEF Stop, StopStage, LogInv
  <2>. QED
    BY <2>1 DEF LogInv, Opened, ArchivedLogIsFinal
<1>4. CASE EmitTerminal
  <2>1. /\ cmd.pc = "end" /\ cmd'.pc = "log" /\ CommandForm' /\ UNCHANGED <<stopped, archived>>
        /\ \E e \in {"completed", "failed"} : log' = Append(log, e)
    BY <1>4 DEF EmitTerminal, EndStage, LogInv
  <2>2. PICK e \in {"completed", "failed"} : log' = Append(log, e)
    BY <2>1
  <2>3. stopped /\ Opened(log) /\ archived = << >> /\ log \in Seq(Lines)
    BY <2>1 DEF LogInv
  <2>4. WellFormed(log') /\ log' \in Seq(Lines)
    BY <2>2, <2>3, ClosedIsWhole, Lengthened DEF Lines, StageEvents
  <2>. QED
    BY <2>1, <2>3, <2>4 DEF LogInv, ArchivedLogIsFinal
<1>5. CASE ArchiveLog
  <2>1. /\ cmd.pc = "log" /\ cmd'.pc = "idle" /\ CommandForm' /\ UNCHANGED stopped
        /\ archived' \in {<< >>, log}
        /\ log' = log \/ log' = Append(log, "archive_failed")
    BY <1>5 DEF ArchiveLog, LogInv
  <2>2. stopped /\ WellFormed(log) /\ log \in Seq(Lines)
    BY <2>1 DEF LogInv
  <2>3. /\ log' \in Seq(Lines) /\ IsPrefix(log, log')
        /\ \A i \in Len(log) + 1..Len(log') : log'[i] = "archive_failed"
    <3>1. "archive_failed" \in Lines /\ Len(log) \in Nat
      BY <2>2, LenProperties DEF Lines
    <3>2. CASE log' = log
      BY <2>2, <3>1, <3>2, PrefixOfItself
    <3>3. CASE log' = Append(log, "archive_failed")
      BY <2>2, <3>1, <3>3, PrefixOfItself, Lengthened
    <3>. QED
      BY <2>1, <3>2, <3>3
  <2>4. archived' \in Seq(Lines)
    BY <2>1, <2>2, NoLines
  <2>5. ArchivedLogIsFinal'
    <3>1. CASE archived' = << >>
      BY <3>1 DEF ArchivedLogIsFinal
    <3>2. CASE archived' = log
      BY <2>2, <2>3, <3>2 DEF ArchivedLogIsFinal
    <3>. QED
      BY <2>1, <3>1, <3>2
  <2>. QED
    BY <2>1, <2>2, <2>3, <2>4, <2>5 DEF LogInv
<1>6. CASE Crash
  <2>1. log' = << >> /\ archived' = << >> /\ beat' = "none" /\ stopped' = FALSE /\ cmd'.pc = "idle" /\ CommandForm'
    BY <1>6 DEF Crash, LogInv
  <2>. QED
    BY <2>1, NoLines DEF LogInv, ArchivedLogIsFinal
<1>7. CASE Beat /\ UNCHANGED commandVars
  <2>1. /\ beat = "locked" /\ UNCHANGED <<stopped, cmd, archived>> /\ CommandForm'
        /\ IF stopped THEN UNCHANGED log ELSE log' = Append(log, "heartbeat")
    BY <1>7 DEF Beat, LogInv
  <2>2. CASE stopped
    BY <2>1, <2>2, LogUntouched
  <2>3. CASE ~stopped
    <3>1. cmd.pc \notin {"idle", "log"}
      BY <2>1, <2>3 DEF LogInv
    <3>2. Opened(log) /\ log \in Seq(Lines) /\ archived = << >> /\ cmd.pc # "end"
      BY <2>3, <3>1 DEF LogInv
    <3>3. log' = Append(log, "heartbeat") /\ "heartbeat" \in Lines
      BY <2>1, <2>3 DEF Lines, StageEvents
    <3>4. log' \in Seq(Lines)
      BY <3>2, <3>3, Lengthened
    <3>5. Opened(log')
      BY <3>2, <3>3, StillOpened
    <3>. QED
      BY <2>1, <2>3, <3>1, <3>2, <3>4, <3>5 DEF LogInv, ArchivedLogIsFinal
  <2>. QED
    BY <2>1, <2>2, <2>3 DEF LogInv
<1>8. CASE /\ UNCHANGED <<log, cmd, archived, stopped>>
           /\ beat' = beat \/ beat # "none"
  BY <1>8, LogUntouched DEF LogInv
<1>9. CASE (WaitReturns(Undisturbed) \/ TakeLifecycleLock) /\ UNCHANGED commandVars
  BY <1>8, <1>9 DEF WaitReturns, TakeLifecycleLock
<1>10. CASE \/ PublishByHand \/ PrepareExport \/ EditNotebook \/ EditSources
            \/ UNCHANGED <<logVars, commandVars>>
            \/ UNCHANGED vars
  BY <1>8, <1>10 DEF PublishByHand, PrepareExport, EditNotebook, EditSources, vars
<1>. QED
  BY <1>1, <1>2, <1>3, <1>4, <1>5, <1>6, <1>7, <1>9, <1>10 DEF Next, Command

\* The log that main archives is the log of a whole stage, and the heartbeat
\* thread adds nothing to the file afterwards, in however many runs.
THEOREM LogArchivedWhole == Spec => []ArchivedLogIsFinal
<1>1. LogInv => ArchivedLogIsFinal
  BY DEF LogInv
<1>2. LogInv /\ [Next]_vars => LogInv'
  BY LogStep
<1>. QED
  BY LogInitially, <1>1, <1>2, PTL DEF Spec

-----------------------------------------------------------------------------
(***************************************************************************)
(* The inputs of the notebook.  None of their parts ever returns to an     *)
(* earlier value: reports stay, revisions and manifests are counted, and   *)
(* the host does not bring an old content back.  So inputs that are read   *)
(* in one order can only be equal if nothing changed in between.           *)
(***************************************************************************)
Known == {Contents[i] : i \in DOMAIN Contents}

Summaries == [inventory : [Names -> Known], manifest : Nat]
InputSet  == BOOLEAN \X Nat \X Summaries

InputInv ==
  /\ report \in BOOLEAN /\ sources \in Nat
  /\ kaggle \in [Names -> Known] /\ summary \in Summaries
  /\ \A f \in Names : Before(summary.inventory[f], kaggle[f])

-----------------------------------------------------------------------------
(***************************************************************************)
(* The publication.                                                        *)
(***************************************************************************)
\* What a manifest says of its outputs: they are those of its source, computed
\* no earlier than its inputs were read and no later than now.
Told(m, now) ==
  /\ m.inputs \in InputSet /\ m.output.ran.inputs \in InputSet
  /\ m.output.ran.code = m.source
  /\ NotLater(m.inputs, m.output.ran.inputs)
  /\ NotLater(m.output.ran.inputs, now)

\* No record is not a manifest.
NoRecordIsNone == \A s, i, o : NoRecord # [source |-> s, inputs |-> i, output |-> o]

Honest(m, now) == m = NoRecord \/ Told(m, now)

\* Every executed notebook, in a publisher's hands, staged or published.
StagedInv ==
  \A k \in DOMAIN staged :
    /\ staged[k] = [target |-> staged[k].target, manifest |-> staged[k].manifest]
    /\ Honest(staged[k].manifest, Inputs)

\* A publisher digests its inputs first, and has the right source of what it
\* executed or took from the staging directory.
Truthful(p, now) ==
  /\ p = [pc |-> p.pc, inputs |-> p.inputs, dir |-> p.dir, source |-> p.source, out |-> p.out, ok |-> p.ok]
  /\ p.pc # "idle" => p.inputs \in InputSet /\ NotLater(p.inputs, now)
  /\ p.pc \in {"target", "record", "install", "publish"} => Told(Record(p), now)

PublisherInv ==
  /\ pub = [w \in Publishers |-> pub[w]]
  /\ \A w \in Publishers : Truthful(pub[w], Inputs)

\* Once the gate has accepted there is a manifest; whichever it is by the time
\* it is archived, what it says of a notebook with its checksum is true.
Vouched(p) ==
  p.manifest.output = p.book => /\ p.book.ran.code = p.manifest.source
                                /\ NotLater(p.manifest.inputs, p.book.ran.inputs)

GateInv ==
  /\ cmd.pc \in {"archive_notebook", "archive_manifest"} => manifest # NoRecord
  /\ \A p \in published : Vouched(p)

PubInv ==
  /\ CommandForm
  /\ InputInv
  /\ Honest(manifest, Inputs)
  /\ StagedInv
  /\ PublisherInv
  /\ GateInv

-----------------------------------------------------------------------------
(***************************************************************************)
(* The order of the inputs.                                                *)
(***************************************************************************)
LEMMA BeforeIsAnOrder ==
  /\ \A a \in Known : Before(a, a)
  /\ \A a, b, c : Before(a, b) /\ Before(b, c) => Before(a, c)
  /\ \A a, b : Before(a, b) /\ Before(b, a) => a = b
<1>1. ASSUME NEW a \in Known PROVE Before(a, a)
  BY ContentsAssumption DEF Known, Before
<1>2. ASSUME NEW a, NEW b, NEW c, Before(a, b), Before(b, c) PROVE Before(a, c)
  <2>1. PICK i, j \in DOMAIN Contents : i <= j /\ a = Contents[i] /\ b = Contents[j]
    BY <1>2 DEF Before
  <2>2. PICK k, l \in DOMAIN Contents : k <= l /\ b = Contents[k] /\ c = Contents[l]
    BY <1>2 DEF Before
  <2>3. j = k /\ i \in Nat /\ j \in Nat /\ l \in Nat
    BY <2>1, <2>2, ContentsAssumption
  <2>4. i <= l
    BY <2>1, <2>2, <2>3
  <2>. QED
    BY <2>1, <2>2, <2>4 DEF Before
<1>3. ASSUME NEW a, NEW b, Before(a, b), Before(b, a) PROVE a = b
  <2>1. PICK i, j \in DOMAIN Contents : i <= j /\ a = Contents[i] /\ b = Contents[j]
    BY <1>3 DEF Before
  <2>2. PICK k, l \in DOMAIN Contents : k <= l /\ b = Contents[k] /\ a = Contents[l]
    BY <1>3 DEF Before
  <2>3. j = k /\ i = l /\ i \in Nat /\ j \in Nat
    BY <2>1, <2>2, ContentsAssumption
  <2>. QED
    BY <2>1, <2>2, <2>3
<1>. QED
  BY <1>1, <1>2, <1>3

LEMMA SummaryForm ==
  ASSUME NEW x \in Summaries
  PROVE  /\ x.manifest \in Nat /\ x.inventory \in [Names -> Known]
         /\ x = [inventory |-> x.inventory, manifest |-> x.manifest]
  BY DEF Summaries

LEMMA InputForm ==
  ASSUME NEW a \in InputSet
  PROVE  /\ a[1] \in BOOLEAN /\ a[2] \in Nat /\ a[3] \in Summaries
         /\ a = <<a[1], a[2], a[3]>>
  BY DEF InputSet

LEMMA NotLaterIsAnOrder ==
  /\ \A a \in InputSet : NotLater(a, a)
  /\ \A a, b, c \in InputSet : NotLater(a, b) /\ NotLater(b, c) => NotLater(a, c)
  /\ \A a, b \in InputSet : NotLater(a, b) /\ NotLater(b, a) => a = b
<1>1. ASSUME NEW a \in InputSet PROVE NotLater(a, a)
  <2>1. a[2] \in Nat /\ a[3].manifest \in Nat /\ a[3].inventory \in [Names -> Known]
    BY InputForm, SummaryForm
  <2>. QED
    BY <2>1, BeforeIsAnOrder DEF NotLater
<1>2. ASSUME NEW a \in InputSet, NEW b \in InputSet, NEW c \in InputSet, NotLater(a, b), NotLater(b, c)
      PROVE NotLater(a, c)
  <2>1. /\ a[2] \in Nat /\ b[2] \in Nat /\ c[2] \in Nat
        /\ a[3].manifest \in Nat /\ b[3].manifest \in Nat /\ c[3].manifest \in Nat
    BY InputForm, SummaryForm
  <2>2. a[2] <= c[2] /\ a[3].manifest <= c[3].manifest
    BY <1>2, <2>1 DEF NotLater
  <2>3. a[1] = TRUE => c[1] = TRUE
    BY <1>2 DEF NotLater
  <2>4. \A f \in Names : Before(a[3].inventory[f], c[3].inventory[f])
    BY <1>2, BeforeIsAnOrder DEF NotLater
  <2>. QED
    BY <2>2, <2>3, <2>4 DEF NotLater
<1>3. ASSUME NEW a \in InputSet, NEW b \in InputSet, NotLater(a, b), NotLater(b, a) PROVE a = b
  <2>1. /\ a[1] \in BOOLEAN /\ b[1] \in BOOLEAN /\ a[2] \in Nat /\ b[2] \in Nat
        /\ a[3] \in Summaries /\ b[3] \in Summaries
        /\ a = <<a[1], a[2], a[3]>> /\ b = <<b[1], b[2], b[3]>>
    BY InputForm
  <2>2. a[1] = b[1]
    BY <1>3, <2>1 DEF NotLater
  <2>3. a[2] = b[2]
    BY <1>3, <2>1 DEF NotLater
  <2>4. a[3].manifest = b[3].manifest
    BY <1>3, <2>1, SummaryForm DEF NotLater
  <2>5. a[3].inventory = b[3].inventory
    <3>1. \A f \in Names : a[3].inventory[f] = b[3].inventory[f]
      BY <1>3, BeforeIsAnOrder DEF NotLater
    <3>2. a[3].inventory \in [Names -> Known] /\ b[3].inventory \in [Names -> Known]
      BY <2>1, SummaryForm
    <3>. QED
      BY <3>1, <3>2
  <2>6. a[3] = b[3]
    BY <2>1, <2>4, <2>5, SummaryForm
  <2>. QED
    BY <2>1, <2>2, <2>3, <2>6
<1>. QED
  BY <1>1, <1>2, <1>3

LEMMA InputsTyped ==
  ASSUME InputInv
  PROVE  /\ Inputs \in InputSet
         /\ Inputs[1] = report /\ Inputs[2] = sources /\ Inputs[3] = summary
         /\ summary.manifest \in Nat /\ summary.inventory \in [Names -> Known]
         /\ NotLater(Inputs, Inputs)
<1>1. Inputs \in InputSet
  BY DEF InputInv, Inputs, InputSet
<1>. QED
  BY <1>1, SummaryForm, NotLaterIsAnOrder DEF InputInv, Inputs

LEMMA InputsKept ==
  ASSUME InputInv, UNCHANGED <<report, sources, kaggle, summary>>
  PROVE  InputInv' /\ NotLater(Inputs, Inputs')
<1>1. Inputs' = Inputs
  BY DEF Inputs
<1>2. NotLater(Inputs, Inputs')
  BY <1>1, InputsTyped
<1>. QED
  BY <1>2 DEF InputInv

LEMMA WholeListing == \A chain \in Chains : List(chain).ok => List(chain).names = Names
  BY ChainsAssumption DEF List, Names

LEMMA InputsListed ==
  ASSUME InputInv, NEW limits, ListFiles(limits), UNCHANGED <<report, sources>>
  PROVE  InputInv' /\ NotLater(Inputs, Inputs')
<1>1. CASE UNCHANGED summary
  BY <1>1, InputsKept DEF ListFiles
<1>2. CASE \E chain \in Chains :
             List(chain).ok /\ summary' = [summary EXCEPT !.inventory = [f \in List(chain).names |-> kaggle[f]]]
  <2>1. summary' = [summary EXCEPT !.inventory = [f \in Names |-> kaggle[f]]]
    BY <1>2, WholeListing
  <2>2. kaggle' = kaggle /\ kaggle \in [Names -> Known]
    BY DEF ListFiles, InputInv
  <2>3. summary' = [summary EXCEPT !.inventory = kaggle]
    BY <2>1, <2>2
  <2>4. /\ summary' \in Summaries /\ summary'.inventory = kaggle /\ summary'.manifest = summary.manifest
    BY <2>2, <2>3 DEF InputInv, Summaries
  <2>5. InputInv'
    BY <2>2, <2>4, BeforeIsAnOrder DEF InputInv
  <2>6. NotLater(Inputs, Inputs')
    <3>1. summary.manifest \in Nat
      BY InputsTyped
    <3>. QED
      BY <2>4, <3>1 DEF InputInv, NotLater, Inputs
  <2>. QED
    BY <2>5, <2>6
<1>. QED
  BY <1>1, <1>2 DEF ListFiles

LEMMA InputsReplaced ==
  ASSUME InputInv, Replace, UNCHANGED <<report, sources>>
  PROVE  InputInv' /\ NotLater(Inputs, Inputs')
<1>1. PICK f \in Names, i \in DOMAIN Contents, j \in DOMAIN Contents :
        i < j /\ kaggle[f] = Contents[i] /\ kaggle' = [kaggle EXCEPT ![f] = Contents[j]]
  BY DEF Replace
<1>2. summary' = summary /\ kaggle \in [Names -> Known]
  BY DEF Replace, InputInv
<1>3. kaggle' \in [Names -> Known]
  BY <1>1, <1>2 DEF Known
<1>4. Before(kaggle[f], kaggle'[f])
  BY <1>1, <1>2, ContentsAssumption DEF Before
<1>5. \A g \in Names : Before(kaggle[g], kaggle'[g])
  BY <1>1, <1>2, <1>4, BeforeIsAnOrder
<1>6. InputInv'
  BY <1>2, <1>3, <1>5, BeforeIsAnOrder DEF InputInv
<1>7. Inputs' = Inputs
  BY <1>2 DEF Inputs
<1>. QED
  BY <1>6, <1>7, InputsTyped

LEMMA InputsSummed ==
  ASSUME InputInv, WriteSummary, UNCHANGED <<report, sources>>
  PROVE  InputInv' /\ NotLater(Inputs, Inputs')
<1>1. summary' = [summary EXCEPT !.manifest = summary.manifest + 1] /\ kaggle' = kaggle
  BY DEF WriteSummary
<1>2. summary.manifest \in Nat /\ summary.inventory \in [Names -> Known] /\ summary \in Summaries
  BY InputsTyped DEF InputInv
<1>3. /\ summary'.manifest = summary.manifest + 1 /\ summary'.inventory = summary.inventory
      /\ summary' \in Summaries
  BY <1>1, <1>2 DEF Summaries
<1>4. InputInv'
  BY <1>1, <1>3 DEF InputInv
<1>5. NotLater(Inputs, Inputs')
  <2>1. \A f \in Names : Before(summary.inventory[f], summary.inventory[f])
    BY <1>2, BeforeIsAnOrder
  <2>. QED
    BY <1>2, <1>3, <2>1 DEF InputInv, NotLater, Inputs
<1>. QED
  BY <1>4, <1>5

\* The steps that the inputs do not notice.
LEMMA SyncApart ==
  ASSUME Sync, ~WriteSummary
  PROVE  UNCHANGED <<kaggle, summary>>
<1>1. HeadObject => UNCHANGED <<kaggle, summary>>
  BY DEF HeadObject
<1>2. Download => UNCHANGED <<kaggle, summary>>
  BY DEF Download
<1>3. Upload => UNCHANGED <<kaggle, summary>>
  BY DEF Upload
<1>4. VerifyUpload => UNCHANGED <<kaggle, summary>>
  BY DEF VerifyUpload
<1>5. HeadVersion => UNCHANGED <<kaggle, summary>>
  BY DEF HeadVersion
<1>6. WriteManifest => UNCHANGED <<kaggle, summary>>
  BY DEF WriteManifest
<1>7. SyncFails => UNCHANGED <<kaggle, summary>>
  BY DEF SyncFails
<1>. QED
  BY <1>1, <1>2, <1>3, <1>4, <1>5, <1>6, <1>7 DEF Sync

LEMMA InputStep ==
  ASSUME InputInv, [Next]_vars
  PROVE  InputInv' /\ NotLater(Inputs, Inputs')
<1>1. CASE Evaluate
  <2>1. report' = report \/ report' = TRUE
    BY <1>1 DEF Evaluate
  <2>2. UNCHANGED <<sources, kaggle, summary>>
    BY <1>1 DEF Evaluate, kaggleVars
  <2>3. InputInv'
    BY <2>1, <2>2 DEF InputInv
  <2>4. NotLater(Inputs, Inputs')
    BY <2>1, <2>2, InputsTyped DEF NotLater, Inputs
  <2>. QED
    BY <2>3, <2>4
<1>2. CASE EditSources
  <2>1. sources' = sources + 1 /\ UNCHANGED <<report, kaggle, summary>>
    BY <1>2 DEF EditSources, kaggleVars
  <2>2. InputInv'
    BY <2>1 DEF InputInv
  <2>3. NotLater(Inputs, Inputs')
    <3>1. sources \in Nat
      BY DEF InputInv
    <3>. QED
      BY <2>1, <3>1, InputsTyped DEF NotLater, Inputs
  <2>. QED
    BY <2>2, <2>3
<1>3. CASE ListFiles(Limits) /\ UNCHANGED commandVars
  BY <1>3, InputsListed DEF commandVars
<1>4. CASE Replace /\ UNCHANGED commandVars
  BY <1>4, InputsReplaced DEF commandVars
<1>5. CASE WriteSummary /\ UNCHANGED commandVars
  BY <1>5, InputsSummed DEF commandVars
<1>6. CASE Sync /\ ~WriteSummary /\ UNCHANGED commandVars
  BY <1>6, SyncApart, InputsKept DEF commandVars
<1>7. CASE UNCHANGED <<report, sources, kaggleVars>>
  BY <1>7, InputsKept DEF kaggleVars
<1>8. CASE Command /\ ~Evaluate
  <2>1. UNCHANGED <<report, sources, kaggleVars>>
    BY <1>8 DEF Command, Begin, Prepare, AwaitInputs, ExecuteSystem, StartPublisher, AwaitPublisher,
                Quality, ArchiveNotebook, ArchiveManifest, Stop, EmitTerminal, ArchiveLog, Crash
  <2>. QED
    BY <1>7, <2>1
<1>9. CASE PublishByHand \/ PrepareExport \/ EditNotebook
  <2>1. UNCHANGED <<report, sources, kaggleVars>>
    BY <1>9 DEF PublishByHand, PrepareExport, EditNotebook
  <2>. QED
    BY <1>7, <2>1
<1>10. CASE UNCHANGED <<kaggleVars, commandVars>> \/ UNCHANGED vars
  BY <1>7, <1>10 DEF vars, commandVars
<1>. QED
  BY <1>1, <1>2, <1>3, <1>4, <1>5, <1>6, <1>8, <1>9, <1>10 DEF Next

-----------------------------------------------------------------------------
(***************************************************************************)
(* The publisher.                                                          *)
(***************************************************************************)
LEMMA ToldLater ==
  ASSUME NEW m, NEW a \in InputSet, NEW b \in InputSet, NotLater(a, b)
  PROVE  /\ Told(m, a) => Told(m, b)
         /\ Honest(m, a) => Honest(m, b)
<1>1. Told(m, a) => Told(m, b)
  BY NotLaterIsAnOrder DEF Told
<1>. QED
  BY <1>1 DEF Honest

LEMMA TruthfulLater ==
  ASSUME NEW p, NEW a \in InputSet, NEW b \in InputSet, NotLater(a, b), Truthful(p, a)
  PROVE  Truthful(p, b)
<1>1. p.pc # "idle" => p.inputs \in InputSet /\ NotLater(p.inputs, b)
  BY NotLaterIsAnOrder DEF Truthful
<1>2. p.pc \in {"target", "record", "install", "publish"} => Told(Record(p), b)
  BY ToldLater DEF Truthful
<1>. QED
  BY <1>1, <1>2 DEF Truthful

\* Time passes for a publication that nobody touches.
LEMMA BookLater ==
  ASSUME PubInv, InputInv', NotLater(Inputs, Inputs'), UNCHANGED <<manifest, staged, pub>>
  PROVE  Honest(manifest, Inputs)' /\ StagedInv' /\ PublisherInv'
<1>1. Inputs \in InputSet /\ Inputs' \in InputSet
  BY InputsTyped DEF PubInv, InputInv, Inputs, InputSet
<1>2. Honest(manifest', Inputs')
  BY <1>1, ToldLater DEF PubInv
<1>3. \A k \in DOMAIN staged' :
        /\ staged'[k] = [target |-> staged'[k].target, manifest |-> staged'[k].manifest]
        /\ Honest(staged'[k].manifest, Inputs')
  BY <1>1, ToldLater DEF PubInv, StagedInv
<1>4. \A w \in Publishers : Truthful(pub[w], Inputs')
  BY <1>1, TruthfulLater DEF PubInv, PublisherInv
<1>5. StagedInv'
  BY <1>3 DEF StagedInv
<1>6. PublisherInv'
  BY <1>4 DEF PubInv, PublisherInv
<1>. QED
  BY <1>2, <1>5, <1>6

\* The gate is not concerned while the command is elsewhere.
LEMMA GateApart ==
  ASSUME GateInv, published' = published, cmd'.pc \notin {"archive_notebook", "archive_manifest"}
  PROVE  GateInv'
  BY DEF GateInv

LEMMA GateUntouched ==
  ASSUME GateInv, UNCHANGED <<published, cmd>>, manifest' = manifest \/ manifest' # NoRecord
  PROVE  GateInv'
  BY DEF GateInv

\* One publisher goes on, the others stand.
LEMMA Becomes ==
  ASSUME PublisherInv, UNCHANGED Inputs, NEW w \in Publishers, NEW p, Become(w, p), Truthful(p, Inputs)
  PROVE  PublisherInv'
<1>1. pub' = [pub EXCEPT ![w] = p]
  BY DEF Become
<1>2. pub' = [v \in Publishers |-> IF v = w THEN p ELSE pub[v]]
  BY <1>1 DEF PublisherInv
<1>3. \A v \in Publishers : Truthful(pub'[v], Inputs)
  BY <1>2 DEF PublisherInv
<1>4. \A v \in Publishers : Truthful(pub'[v], Inputs')
  BY <1>3
<1>5. pub' = [v \in Publishers |-> pub'[v]]
  BY <1>2
<1>. QED
  BY <1>4, <1>5 DEF PublisherInv

\* What a step of a publisher leaves: the inputs, the command and what is archived.
LEMMA PublisherApart ==
  ASSUME PubInv, UNCHANGED <<kaggleVars, commandVars>>,
         manifest' = manifest \/ manifest' # NoRecord,
         Honest(manifest', Inputs), StagedInv', PublisherInv'
  PROVE  PubInv'
<1>1. UNCHANGED <<report, sources, kaggle, summary, cmd, published>>
  BY DEF kaggleVars, commandVars
<1>2. InputInv' /\ CommandForm' /\ Inputs' = Inputs
  BY <1>1 DEF PubInv, InputInv, CommandForm, Inputs
<1>3. GateInv'
  BY <1>1, GateUntouched DEF PubInv
<1>4. Honest(manifest, Inputs)'
  BY <1>2
<1>. QED
  BY <1>2, <1>3, <1>4 DEF PubInv

LEMMA IdleIsTruthful == \A ok, now : Truthful([NoPublisher EXCEPT !.ok = ok], now)
  BY DEF Truthful, NoPublisher

LEMMA StagedKept ==
  ASSUME StagedInv, UNCHANGED <<staged, kaggleVars, commandVars>>
  PROVE  StagedInv'
<1>1. Inputs' = Inputs
  BY DEF Inputs, kaggleVars, commandVars
<1>. QED
  BY <1>1 DEF StagedInv

\* An entry of the staging directory is replaced.
LEMMA StagedAnew ==
  ASSUME StagedInv, NEW key, NEW entry, Stage(key, entry), UNCHANGED <<kaggleVars, commandVars>>,
         entry = [target |-> entry.target, manifest |-> entry.manifest],
         Honest(entry.manifest, Inputs)
  PROVE  StagedInv'
<1>1. Inputs' = Inputs
  BY DEF Inputs, kaggleVars, commandVars
<1>2. staged' = [k \in DOMAIN staged \cup {key} |-> IF k = key THEN entry ELSE staged[k]]
  BY DEF Stage
<1>3. ASSUME NEW k \in DOMAIN staged'
      PROVE  /\ staged'[k] = [target |-> staged'[k].target, manifest |-> staged'[k].manifest]
             /\ Honest(staged'[k].manifest, Inputs')
  <2>1. CASE k = key
    BY <1>1, <1>2, <2>1
  <2>2. CASE k # key
    BY <1>1, <1>2, <2>2 DEF StagedInv
  <2>. QED
    BY <2>1, <2>2
<1>. QED
  BY <1>3 DEF StagedInv

LEMMA StagedEntry ==
  ASSUME StagedInv, NEW key
  PROVE  /\ At(key) = [target |-> At(key).target, manifest |-> At(key).manifest]
         /\ Honest(At(key).manifest, Inputs)
<1>1. CASE key \in DOMAIN staged
  BY <1>1 DEF StagedInv, At
<1>2. CASE key \notin DOMAIN staged
  BY <1>2 DEF At, Unstaged, Honest
<1>. QED
  BY <1>1, <1>2

LEMMA PublisherStep ==
  ASSUME NoRecordIsNone, PubInv, NEW w \in Publishers,
         Publisher(w, Inputs) \/ PublisherCrash(w), UNCHANGED <<kaggleVars, commandVars>>
  PROVE  PubInv'
<1>. DEFINE now == Inputs
            me  == pub[w]
<1>1. now' = now
  BY DEF Inputs, kaggleVars, commandVars
<1>2. now \in InputSet /\ NotLater(now, now)
  BY InputsTyped DEF PubInv
<1>3. Truthful(me, now)
  BY DEF PubInv, PublisherInv
<1>. HIDE DEF now, me
<1>a. me = [pc |-> me.pc, inputs |-> me.inputs, dir |-> me.dir, source |-> me.source, out |-> me.out, ok |-> me.ok]
  BY <1>3 DEF Truthful
<1>4. ASSUME NEW p, Become(w, p), Truthful(p, now) PROVE PublisherInv'
  BY <1>1, <1>4, Becomes DEF PubInv, now
<1>5. ASSUME NEW p, Become(w, p), Truthful(p, now), UNCHANGED <<manifest, staged>> PROVE PubInv'
  <2>1. PublisherInv'
    BY <1>4, <1>5
  <2>2. StagedInv'
    BY <1>5, StagedKept DEF PubInv
  <2>3. Honest(manifest', Inputs)
    BY <1>5 DEF PubInv
  <2>. QED
    BY <1>5, <2>1, <2>2, <2>3, PublisherApart
<1>6. ASSUME NEW ok, PubEnd(w, ok), UNCHANGED <<manifest, staged>> PROVE PubInv'
  BY <1>5, <1>6, IdleIsTruthful DEF PubEnd
<1>7. CASE CheckPublished(w)
  <2>1. CASE PubEnd(w, TRUE)
    BY <1>6, <1>7, <2>1 DEF CheckPublished
  <2>. DEFINE p == [me EXCEPT !.pc = "stage", !.dir = notebook.code]
  <2>2. CASE Become(w, p)
    <3>1. me.pc = "check"
      BY <1>7 DEF CheckPublished, me
    <3>2. Become(w, p) /\ p = [me EXCEPT !.pc = "stage", !.dir = notebook.code]
      BY <2>2
    <3>. HIDE DEF p
    <3>3. p = [pc |-> "stage", inputs |-> me.inputs, dir |-> notebook.code, source |-> me.source,
               out |-> me.out, ok |-> me.ok]
      BY <1>a, <3>2
    <3>4. Truthful(p, now)
      BY <1>3, <3>1, <3>3 DEF Truthful
    <3>. QED
      BY <1>5, <1>7, <3>2, <3>4 DEF CheckPublished
  <2>. QED
    BY <1>7, <2>1, <2>2 DEF CheckPublished, me
<1>8. CASE CheckStaged(w)
  <2>. DEFINE m == At(Key(w)).manifest
              p == [me EXCEPT !.pc = "load", !.source = notebook.code]
              q == [me EXCEPT !.pc = "install", !.source = notebook.code, !.out = m.output]
  <2>1. me.pc = "stage" /\ UNCHANGED <<manifest, staged>>
    BY <1>8 DEF CheckStaged, me
  <2>2. CASE PubEnd(w, FALSE)
    BY <1>6, <2>1, <2>2
  <2>3. CASE Become(w, p)
    <3>1. Become(w, p) /\ p = [me EXCEPT !.pc = "load", !.source = notebook.code]
      BY <2>3
    <3>. HIDE DEF p
    <3>2. p = [pc |-> "load", inputs |-> me.inputs, dir |-> me.dir, source |-> notebook.code,
               out |-> me.out, ok |-> me.ok]
      BY <1>a, <3>1
    <3>3. Truthful(p, now)
      BY <1>3, <2>1, <3>2 DEF Truthful
    <3>. QED
      BY <1>5, <2>1, <3>1, <3>3
  <2>4. CASE /\ m # NoRecord /\ m.source = notebook.code /\ m.inputs = me.inputs
             /\ Become(w, q)
    <3>0. Become(w, q) /\ q = [me EXCEPT !.pc = "install", !.source = notebook.code, !.out = m.output]
      BY <2>4
    <3>1. Told(m, now)
      BY <2>4, StagedEntry DEF PubInv, Honest, now
    <3>. HIDE DEF m, q
    <3>2. q = [pc |-> "install", inputs |-> me.inputs, dir |-> me.dir, source |-> notebook.code,
               out |-> m.output, ok |-> me.ok]
      BY <1>a, <3>0
    <3>3. Told(Record(q), now)
      BY <2>4, <3>1, <3>2 DEF Told, Record
    <3>4. q.inputs \in InputSet /\ NotLater(q.inputs, now)
      BY <1>3, <2>1, <2>4, <3>2 DEF Truthful
    <3>5. Truthful(q, now)
      BY <3>2, <3>3, <3>4 DEF Truthful
    <3>. QED
      BY <1>5, <2>1, <3>0, <3>5
  <2>. QED
    BY <1>8, <2>2, <2>3, <2>4 DEF CheckStaged, me
<1>9. CASE LoadNotebook(w)
  <2>. DEFINE p == [me EXCEPT !.pc = "execute", !.out = [code |-> notebook.code, ran |-> NoRecord]]
  <2>1. /\ me.pc = "load" /\ Become(w, p) /\ UNCHANGED <<manifest, staged>>
        /\ p = [me EXCEPT !.pc = "execute", !.out = [code |-> notebook.code, ran |-> NoRecord]]
    BY <1>9 DEF LoadNotebook, me
  <2>. HIDE DEF p
  <2>2. p = [pc |-> "execute", inputs |-> me.inputs, dir |-> me.dir, source |-> me.source,
             out |-> [code |-> notebook.code, ran |-> NoRecord], ok |-> me.ok]
    BY <1>a, <2>1
  <2>3. Truthful(p, now)
    BY <1>3, <2>1, <2>2 DEF Truthful
  <2>. QED
    BY <1>5, <2>1, <2>3
<1>10. CASE Execute(w, Inputs)
  <2>1. me.pc = "execute" /\ UNCHANGED <<manifest, staged>>
    BY <1>10 DEF Execute, me
  <2>2. CASE PubEnd(w, FALSE)
    BY <1>6, <2>1, <2>2
  <2>3. CASE me.out.code = me.source /\ Executed(w, Inputs)
    <3>. DEFINE ran == [code |-> me.source, inputs |-> now, by |-> w]
                out == [code |-> me.source, ran |-> ran]
                p   == [me EXCEPT !.pc = "target", !.out = out]
    <3>1. Become(w, p) /\ p = [me EXCEPT !.pc = "target", !.out = out]
      BY <2>3 DEF Executed, me, now
    <3>. HIDE DEF p
    <3>2. p = [pc |-> "target", inputs |-> me.inputs, dir |-> me.dir, source |-> me.source,
               out |-> out, ok |-> me.ok]
      BY <1>a, <3>1
    <3>3. me.inputs \in InputSet /\ NotLater(me.inputs, now)
      BY <1>3, <2>1 DEF Truthful
    <3>4. Told([source |-> me.source, inputs |-> me.inputs, output |-> out], now)
      BY <1>2, <3>3 DEF Told
    <3>5. Told(Record(p), now)
      BY <3>2, <3>4 DEF Record
    <3>6. Truthful(p, now)
      BY <3>2, <3>3, <3>5 DEF Truthful
    <3>. QED
      BY <1>5, <2>1, <3>1, <3>6
  <2>. QED
    BY <1>10, <2>2, <2>3 DEF Execute, me
<1>11. CASE StageTarget(w)
  <2>. DEFINE p     == [me EXCEPT !.pc = "record"]
              entry == [target |-> me.out, manifest |-> At(Key(w)).manifest]
  <2>1. /\ me.pc = "target" /\ manifest' = manifest /\ Become(w, p)
        /\ Stage(Key(w), [At(Key(w)) EXCEPT !.target = me.out])
    BY <1>11 DEF StageTarget, me
  <2>2. p = [pc |-> "record", inputs |-> me.inputs, dir |-> me.dir, source |-> me.source, out |-> me.out, ok |-> me.ok]
    BY <1>a
  <2>3. Truthful(p, now)
    BY <1>3, <2>1, <2>2 DEF Truthful, Record
  <2>4. Stage(Key(w), entry) /\ Honest(entry.manifest, Inputs)
    BY <2>1, StagedEntry DEF PubInv
  <2>5. StagedInv'
    <3>1. entry = [target |-> entry.target, manifest |-> entry.manifest]
      OBVIOUS
    <3>. QED
      BY <2>4, <3>1, StagedAnew DEF PubInv
  <2>. QED
    BY <1>4, <2>1, <2>3, <2>5, PublisherApart DEF PubInv
<1>12. CASE StageManifest(w)
  <2>. DEFINE p     == [me EXCEPT !.pc = "install"]
              entry == [target |-> At(Key(w)).target, manifest |-> Record(me)]
  <2>1. /\ me.pc = "record" /\ manifest' = manifest /\ Become(w, p)
        /\ Stage(Key(w), [At(Key(w)) EXCEPT !.manifest = Record(me)])
    BY <1>12 DEF StageManifest, me
  <2>2. p = [pc |-> "install", inputs |-> me.inputs, dir |-> me.dir, source |-> me.source, out |-> me.out, ok |-> me.ok]
    BY <1>a
  <2>3. Truthful(p, now)
    BY <1>3, <2>1, <2>2 DEF Truthful, Record
  <2>4. Told(Record(me), now)
    BY <1>3, <2>1 DEF Truthful
  <2>5. Stage(Key(w), entry) /\ Honest(entry.manifest, Inputs)
    BY <2>1, <2>4, StagedEntry DEF PubInv, Honest, now
  <2>6. StagedInv'
    <3>1. entry = [target |-> entry.target, manifest |-> entry.manifest]
      OBVIOUS
    <3>. QED
      BY <2>5, <3>1, StagedAnew DEF PubInv
  <2>. QED
    BY <1>4, <2>1, <2>3, <2>6, PublisherApart DEF PubInv
<1>13. CASE InstallNotebook(w)
  <2>. DEFINE p == [me EXCEPT !.pc = "publish"]
  <2>1. me.pc = "install" /\ Become(w, p) /\ UNCHANGED <<manifest, staged>>
    BY <1>13 DEF InstallNotebook, me
  <2>2. p = [pc |-> "publish", inputs |-> me.inputs, dir |-> me.dir, source |-> me.source, out |-> me.out, ok |-> me.ok]
    BY <1>a
  <2>3. Truthful(p, now)
    BY <1>3, <2>1, <2>2 DEF Truthful, Record
  <2>. QED
    BY <1>5, <2>1, <2>3
<1>14. CASE PublishManifest(w)
  <2>1. me.pc = "publish" /\ manifest' = Record(me) /\ staged' = staged /\ PubEnd(w, TRUE)
    BY <1>14 DEF PublishManifest, me
  <2>2. Told(Record(me), now) /\ Record(me) # NoRecord
    BY <1>3, <2>1 DEF Truthful, NoRecordIsNone, Record
  <2>3. Honest(manifest', Inputs) /\ manifest' # NoRecord
    BY <2>1, <2>2 DEF Honest, now
  <2>4. StagedInv'
    BY <2>1, StagedKept DEF PubInv
  <2>5. PublisherInv'
    BY <1>4, <2>1, IdleIsTruthful DEF PubEnd
  <2>. QED
    BY <2>3, <2>4, <2>5, PublisherApart
<1>15. CASE PublisherCrash(w)
  BY <1>6, <1>15 DEF PublisherCrash
<1>. QED
  BY <1>7, <1>8, <1>9, <1>10, <1>11, <1>12, <1>13, <1>14, <1>15 DEF Publisher, now

-----------------------------------------------------------------------------
(***************************************************************************)
(* The command, and everything together.                                   *)
(***************************************************************************)
\* A manifest that is valid now was computed from the inputs that it names.
LEMMA ValidIsTrue ==
  ASSUME NoRecordIsNone, InputInv, Honest(manifest, Inputs), Valid(Inputs)
  PROVE  /\ manifest # NoRecord
         /\ notebook.ran.code = notebook.code /\ notebook.ran.inputs = Inputs
<1>. DEFINE now == Inputs
<1>1. now \in InputSet
  BY InputsTyped
<1>. HIDE DEF now
<1>2. /\ manifest = [source |-> notebook.code, inputs |-> now, output |-> notebook]
      /\ manifest # NoRecord
  BY DEF Valid, NoRecordIsNone, now
<1>3. Told(manifest, now)
  BY <1>2 DEF Honest, now
<1>4. /\ manifest.inputs = now /\ manifest.output = notebook /\ manifest.source = notebook.code
  BY <1>2
<1>5. /\ manifest.output.ran.inputs \in InputSet
      /\ NotLater(now, manifest.output.ran.inputs) /\ NotLater(manifest.output.ran.inputs, now)
      /\ manifest.output.ran.code = manifest.source
  BY <1>3, <1>4 DEF Told
<1>6. manifest.output.ran.inputs = now
  BY <1>1, <1>5, NotLaterIsAnOrder
<1>. QED
  BY <1>2, <1>4, <1>5, <1>6 DEF now

LEMMA PubInitially == Init => PubInv
<1>. SUFFICES ASSUME Init PROVE PubInv
  OBVIOUS
<1>1. CommandForm /\ cmd.pc = "idle" /\ published = {} /\ report = FALSE /\ sources = 0
  BY DEF Init, NoCommand, CommandForm
<1>2. /\ kaggle = [f \in Names |-> Contents[1]] /\ summary = [inventory |-> kaggle, manifest |-> 0]
  BY DEF Init, Mirrored
<1>3. manifest = NoRecord /\ DOMAIN staged = {} /\ pub = [w \in Publishers |-> NoPublisher]
  BY DEF Init, Unpublished
<1>4. InputInv
  <2>1. Contents[1] \in Known
    BY ContentsAssumption DEF Known
  <2>2. kaggle \in [Names -> Known]
    BY <1>2, <2>1
  <2>3. summary \in Summaries
    BY <1>2, <2>2 DEF Summaries
  <2>4. \A f \in Names : Before(summary.inventory[f], kaggle[f])
    BY <1>2, <2>1, <2>2, BeforeIsAnOrder
  <2>. QED
    BY <1>1, <2>2, <2>3, <2>4 DEF InputInv
<1>5. PublisherInv
  BY <1>3 DEF PublisherInv, Truthful, NoPublisher
<1>6. GateInv
  BY <1>1 DEF GateInv
<1>7. StagedInv /\ Honest(manifest, Inputs)
  BY <1>3 DEF StagedInv, Honest
<1>. QED
  BY <1>1, <1>4, <1>5, <1>6, <1>7 DEF PubInv

LEMMA CommandKeepsForm == ASSUME CommandForm, [Next]_vars PROVE CommandForm'
<1>. USE DEF CommandForm, Goto, Raise, commandVars
<1>1. CASE Begin
  BY <1>1 DEF Begin, NoCommand
<1>2. CASE \/ Prepare \/ AwaitInputs \/ ExecuteSystem \/ Evaluate \/ StartPublisher \/ AwaitPublisher
           \/ Quality \/ ArchiveNotebook \/ ArchiveManifest
  BY <1>2 DEF Prepare, AwaitInputs, ExecuteSystem, Evaluate, StartPublisher, AwaitPublisher,
              Quality, ArchiveNotebook, ArchiveManifest
<1>3. CASE Stop \/ EmitTerminal \/ ArchiveLog \/ Crash
  BY <1>3 DEF Stop, EmitTerminal, ArchiveLog, Crash
<1>4. CASE PublishByHand \/ PrepareExport \/ EditNotebook \/ EditSources
  BY <1>4 DEF PublishByHand, PrepareExport, EditNotebook, EditSources
<1>5. CASE UNCHANGED commandVars \/ UNCHANGED vars
  BY <1>5 DEF vars
<1>. QED
  BY <1>1, <1>2, <1>3, <1>4, <1>5 DEF Next, Command

\* A publisher starts: it has digested the inputs as they are.
LEMMA PublisherStarts ==
  ASSUME PubInv, UNCHANGED Inputs, NEW w \in Publishers, DigestInputs(w, Inputs)
  PROVE  PublisherInv'
<1>. DEFINE p == [NoPublisher EXCEPT !.pc = "check", !.inputs = Inputs]
<1>1. Inputs \in InputSet /\ NotLater(Inputs, Inputs)
  BY InputsTyped DEF PubInv
<1>2. p = [NoPublisher EXCEPT !.pc = "check", !.inputs = Inputs] /\ (DigestInputs(w, Inputs) => Become(w, p))
  BY DEF DigestInputs
<1>. HIDE DEF p
<1>3. p = [pc |-> "check", inputs |-> Inputs, dir |-> 0, source |-> 0, out |-> NoRecord, ok |-> TRUE]
  BY <1>2 DEF NoPublisher
<1>4. Truthful(p, Inputs)
  BY <1>1, <1>3 DEF Truthful
<1>. QED
  BY <1>2, <1>4, Becomes DEF PubInv

LEMMA PubStep == ASSUME NoRecordIsNone, PubInv, [Next]_vars PROVE PubInv'
<1>1. CommandForm' /\ InputInv' /\ NotLater(Inputs, Inputs')
  BY CommandKeepsForm, InputStep DEF PubInv
<1>2. CASE UNCHANGED <<manifest, staged, pub>> /\ GateInv'
  BY <1>1, <1>2, BookLater DEF PubInv
<1>3. CASE /\ \E w \in Publishers : Publisher(w, Inputs) \/ PublisherCrash(w)
           /\ UNCHANGED <<logVars, kaggleVars, prepVars, commandVars>>
  BY <1>3, PublisherStep
<1>4. CASE UNCHANGED <<manifest, staged, Inputs>> /\ PublisherInv' /\ GateInv'
  <2>1. Honest(manifest, Inputs)' /\ StagedInv'
    BY <1>4 DEF PubInv, StagedInv
  <2>. QED
    BY <1>1, <1>4, <2>1 DEF PubInv
<1>5. CASE UNCHANGED <<manifest, staged, pub, cmd, published>>
  BY <1>2, <1>5, GateUntouched DEF PubInv
<1>6. CASE /\ UNCHANGED <<manifest, staged, pub, published>>
           /\ cmd'.pc \notin {"archive_notebook", "archive_manifest"}
  BY <1>2, <1>6, GateApart DEF PubInv
<1>7. CASE Begin \/ Prepare \/ AwaitInputs \/ ExecuteSystem \/ Evaluate \/ Stop \/ EmitTerminal \/ ArchiveLog \/ Crash
  <2>1. UNCHANGED <<manifest, staged, pub, published>>
    BY <1>7 DEF Begin, Prepare, AwaitInputs, ExecuteSystem, Evaluate, Stop, EmitTerminal, ArchiveLog, Crash, bookVars
  <2>2. cmd'.pc \notin {"archive_notebook", "archive_manifest"}
    BY <1>7 DEF Begin, Prepare, AwaitInputs, ExecuteSystem, Evaluate, Stop, EmitTerminal, ArchiveLog, Crash,
                Goto, Raise, NoCommand, PubInv, CommandForm
  <2>. QED
    BY <1>6, <2>1, <2>2
<1>8. CASE StartPublisher
  <2>1. /\ cmd'.pc \in {"publishing", "stop"}
        /\ UNCHANGED <<manifest, staged, published, report, sources, kaggleVars>>
        /\ (\E w \in Publishers : DigestInputs(w, Inputs)) \/ pub' = pub
    BY <1>8 DEF StartPublisher, Goto, Raise, PubInv, CommandForm, DigestInputs, bookVars
  <2>2. CASE pub' = pub
    BY <1>6, <2>1, <2>2
  <2>3. CASE \E w \in Publishers : DigestInputs(w, Inputs)
    <3>1. UNCHANGED Inputs
      BY <2>1 DEF Inputs, kaggleVars
    <3>2. PublisherInv'
      BY <2>3, <3>1, PublisherStarts
    <3>3. GateInv'
      BY <2>1, GateApart DEF PubInv
    <3>. QED
      BY <1>4, <2>1, <3>1, <3>2, <3>3
  <2>. QED
    BY <2>1, <2>2, <2>3
<1>9. CASE PublishByHand
  <2>1. /\ UNCHANGED <<cmd, manifest, staged, published, report, sources, kaggleVars>>
        /\ \E w \in Publishers : DigestInputs(w, Inputs)
    BY <1>9 DEF PublishByHand, DigestInputs
  <2>2. UNCHANGED Inputs
    BY <2>1 DEF Inputs, kaggleVars
  <2>3. PublisherInv'
    BY <2>1, <2>2, PublisherStarts
  <2>4. GateInv'
    BY <2>1, GateUntouched DEF PubInv
  <2>. QED
    BY <1>4, <2>1, <2>2, <2>3, <2>4
<1>10. CASE AwaitPublisher
  <2>1. /\ UNCHANGED <<manifest, staged, published, report, sources, kaggleVars>>
        /\ cmd'.pc \notin {"archive_notebook", "archive_manifest"}
        /\ Become(cmd.publisher, NoPublisher)
    BY <1>10 DEF AwaitPublisher, PubInv, CommandForm
  <2>2. UNCHANGED Inputs
    BY <2>1 DEF Inputs, kaggleVars
  <2>3. Truthful(NoPublisher, Inputs)
    BY DEF Truthful, NoPublisher
  <2>4. PublisherInv'
    <3>1. CASE cmd.publisher \in Publishers
      BY <2>1, <2>2, <2>3, <3>1, Becomes DEF PubInv
    <3>2. CASE cmd.publisher \notin Publishers
      <4>1. pub' = pub
        BY <2>1, <3>2 DEF Become, PubInv, PublisherInv
      <4>. QED
        BY <2>2, <4>1 DEF PubInv, PublisherInv
    <3>. QED
      BY <3>1, <3>2
  <2>5. GateInv'
    BY <2>1, GateApart DEF PubInv
  <2>. QED
    BY <1>4, <2>1, <2>2, <2>4, <2>5
<1>11. CASE Quality
  <2>1. UNCHANGED <<manifest, staged, pub, published>>
    BY <1>11 DEF Quality, bookVars
  <2>2. CASE Valid(Inputs)
    <3>1. manifest # NoRecord
      BY <2>2, ValidIsTrue DEF PubInv
    <3>2. GateInv'
      BY <2>1, <3>1 DEF PubInv, GateInv
    <3>. QED
      BY <1>2, <2>1, <3>2
  <2>3. CASE cmd'.pc = "stop"
    BY <1>6, <2>1, <2>3
  <2>. QED
    BY <1>11, <2>2, <2>3 DEF Quality, Raise, PubInv, CommandForm
<1>12. CASE ArchiveNotebook
  <2>1. UNCHANGED <<manifest, staged, pub, published>> /\ cmd.pc = "archive_notebook"
    BY <1>12 DEF ArchiveNotebook, bookVars
  <2>2. GateInv'
    BY <2>1 DEF PubInv, GateInv
  <2>. QED
    BY <1>2, <2>1, <2>2
<1>13. CASE ArchiveManifest
  <2>1. UNCHANGED <<manifest, staged, pub>> /\ cmd.pc = "archive_manifest" /\ cmd'.pc = "stop"
    BY <1>13 DEF ArchiveManifest, bookVars, Goto, Raise, PubInv, CommandForm
  <2>. DEFINE new == [book |-> cmd.book, manifest |-> manifest]
  <2>2. published' = published \/ published' = published \cup {new}
    BY <1>13 DEF ArchiveManifest
  <2>3. Told(manifest, Inputs)
    BY <2>1 DEF PubInv, GateInv, Honest
  <2>4. Vouched(new)
    BY <2>3 DEF Vouched, Told
  <2>5. \A p \in published' : Vouched(p)
    BY <2>2, <2>4 DEF PubInv, GateInv
  <2>6. GateInv'
    BY <2>1, <2>5 DEF GateInv
  <2>. QED
    BY <1>2, <2>1, <2>6
<1>14. CASE PrepareExport \/ EditNotebook \/ EditSources
  BY <1>5, <1>14 DEF PrepareExport, EditNotebook, EditSources, bookVars
<1>15. CASE UNCHANGED <<bookVars, commandVars>> \/ UNCHANGED vars
  BY <1>5, <1>15 DEF bookVars, commandVars, vars
<1>. QED
  BY <1>3, <1>7, <1>8, <1>9, <1>10, <1>11, <1>12, <1>13, <1>14, <1>15 DEF Next, Command

\* What the quality gate accepts was computed from the inputs that its manifest
\* names, with any number of publishers at work and whatever is edited, replaced
\* or resynchronised; and of what is archived after it, outputs with the
\* checksum of their manifest are of its source, and no older than its inputs.
THEOREM PublicationTellsTheTruth ==
  ASSUME NoRecordIsNone
  PROVE  Spec => []PublicationIsTrue
<1>1. PubInv => PublicationIsTrue
  BY ValidIsTrue DEF PubInv, GateInv, Vouched, PublicationIsTrue
<1>2. PubInv /\ [Next]_vars => PubInv'
  BY PubStep
<1>. QED
  BY PubInitially, <1>1, <1>2, PTL DEF Spec

-----------------------------------------------------------------------------
(***************************************************************************)
(* The sources: the mirror, its manifest, and what is prepared from them.  *)
(***************************************************************************)
Sizes == {Size[c] : c \in Known}
Row   == [name : Names, size : Sizes, digest : Known, version : Nat]

\* Backed, with the versions as an argument.
Held(r, versions) == /\ r.version \in DOMAIN versions[r.name]
                     /\ versions[r.name][r.version] = r.digest
                     /\ Size[r.digest] = r.size

MirrorInv == raw \in [Names -> Seq(Known)] /\ \A f \in Names : raw[f] # << >>

\* The manifest is whole, and number 0 is the one that contracts are pinned to.
ManifestInv ==
  /\ csv.rows \in Seq(Row) /\ Len(csv.rows) = Len(Files)
  /\ \A i \in DOMAIN Files : csv.rows[i].name = Files[i] /\ Held(csv.rows[i], raw)
  /\ csv.by = 0 => \A i \in DOMAIN Files : csv.rows[i].digest = Contents[1]

\* What a synchronisation has written down so far holds already; the file at
\* hand has a version with the digest as soon as one has been looked for.
SyncInv ==
  /\ sync = [pc |-> sync.pc, list |-> sync.list, size |-> sync.size, at |-> sync.at,
             digest |-> sync.digest, rows |-> sync.rows, started |-> sync.started]
  /\ sync.pc \in {"idle", "head", "download", "upload", "verify", "version", "manifest", "summary"}
  /\ sync.started \in Nat
  /\ sync.pc # "idle" =>
       /\ sync.started # 0
       /\ sync.list \in Seq(Names) /\ sync.at \in 1..Len(sync.list)
       /\ sync.size \in [Names -> Sizes]
       /\ Len(sync.list) = Len(Files) => sync.list = Files
       /\ sync.rows \in Seq(Row)
       /\ Len(sync.rows) = IF sync.pc \in {"manifest", "summary"} THEN Len(sync.list) ELSE sync.at - 1
       /\ \A i \in 1..Len(sync.rows) : sync.rows[i].name = sync.list[i] /\ Held(sync.rows[i], raw)
  /\ sync.pc \in {"upload", "verify", "version"} => sync.digest \in Known /\ Size[sync.digest] = sync.size[file]
  /\ sync.pc \in {"verify", "version"} => Last(raw[file]) = sync.digest

Pinned == Contents[1]

\* Every checkpoint derives from the pinned version of its document.
PrepInv ==
  /\ prep = [pc |-> prep.pc, who |-> prep.who, rows |-> prep.rows, kind |-> prep.kind, pdf |-> prep.pdf,
             new |-> prep.new, made |-> prep.made, ok |-> prep.ok]
  /\ stages \in [1..3 -> [Names -> {"none", Pinned}]]
  /\ inputs \in [Splits -> Seq({Pinned})]
  /\ prep.kind \in 1..3 /\ prep.made \in Seq({Pinned}) /\ prep.pdf \in {"none", Pinned}
  /\ \A r \in prep.rows : r.name \in Names /\ r.digest = Pinned
  /\ prep.pc \in {"load", "stage", "blobs", "save"} =>
       /\ prep.rows # {}
       /\ prep.new = IF prep.pc \in {"load", "stage"} THEN "none" ELSE Pinned
       /\ prep.kind # 1 => stages[1][row.name] = Pinned

SourceInv == MirrorInv /\ ManifestInv /\ SyncInv /\ PrepInv

-----------------------------------------------------------------------------
(***************************************************************************)
(* A complete listing is the files in their order.                         *)
(***************************************************************************)
LEMMA FilesForm ==
  /\ Len(Files) \in Nat \ {0} /\ DOMAIN Files = 1..Len(Files)
  /\ Files \in [1..Len(Files) -> Names]
  /\ Names = {Files[i] : i \in 1..Len(Files)}
  /\ \A i, j \in 1..Len(Files) : Files[i] = Files[j] => i = j
<1>1. Files \in Seq(Names) /\ Files # << >>
  BY FilesAssumption DEF Names
<1>2. Len(Files) \in Nat /\ DOMAIN Files = 1..Len(Files) /\ Files \in [1..Len(Files) -> Names]
  BY <1>1, LenProperties
<1>3. Len(Files) # 0
  BY <1>1, EmptySeq
<1>. QED
  BY <1>2, <1>3, FilesAssumption DEF Names, ToSet

LEMMA NamesCounted == IsFiniteSet(Names) /\ Cardinality(Names) = Len(Files)
<1>1. IsFiniteSet(1..Len(Files)) /\ Cardinality(1..Len(Files)) = Len(Files)
  BY FilesForm, FS_Interval
<1>2. Files \in Bijection(1..Len(Files), Names)
  BY FilesForm DEF Bijection, Injection, Surjection, IsInjective
<1>3. ExistsBijection(1..Len(Files), Names)
  BY <1>2 DEF ExistsBijection
<1>. QED
  BY <1>1, <1>3, FS_Bijection

LEMMA PositionForm ==
  /\ \A i \in 1..Len(Files) : Position(Files[i]) = i
  /\ \A f \in Names : Position(f) \in 1..Len(Files) /\ Files[Position(f)] = f
  BY FilesForm DEF Position

\* A map of 1..n to itself that never falls or rests moves nothing.
LEMMA Unmoved ==
  ASSUME NEW n \in Nat, NEW p \in [1..n -> 1..n],
         \A i, j \in 1..n : i < j => p[i] < p[j]
  PROVE  \A i \in 1..n : p[i] = i
<1>. SUFFICES ASSUME NEW i \in 1..n PROVE p[i] = i
  OBVIOUS
<1>0. n \in Int /\ i \in Int /\ p[i] \in Int /\ p[i] \in 1..n
  OBVIOUS
<1>1. \A j, k \in 1..n : p[j] = p[k] => j = k
  BY SMT
<1>2. i <= p[i]
  <2>. DEFINE low == [j \in 1..i |-> p[j]]
  <2>1. low \in [1..i -> 1..p[i]]
    <3>1. ASSUME NEW j \in 1..i PROVE p[j] \in 1..p[i]
      <4>1. j \in 1..n /\ p[j] \in 1..n /\ (j = i \/ j < i)
        BY <1>0
      <4>2. p[j] <= p[i]
        BY <1>0, <4>1
      <4>. QED
        BY <1>0, <4>1, <4>2
    <3>. QED
      BY <3>1
  <2>2. low \in Injection(1..i, 1..p[i])
    BY <1>1, <2>1 DEF Injection, IsInjective
  <2>3. IsFiniteSet(1..p[i]) /\ Cardinality(1..p[i]) = p[i]
    BY <1>0, FS_Interval
  <2>4. Cardinality(1..i) = i
    BY <1>0, FS_Interval
  <2>. HIDE DEF low
  <2>5. Cardinality(1..i) <= Cardinality(1..p[i])
    BY <2>2, <2>3, FS_Injection
  <2>. QED
    BY <2>3, <2>4, <2>5
<1>3. p[i] <= i
  <2>. DEFINE high == [j \in i..n |-> p[j]]
  <2>1. high \in [i..n -> p[i]..n]
    <3>1. ASSUME NEW j \in i..n PROVE p[j] \in p[i]..n
      <4>1. j \in 1..n /\ p[j] \in 1..n /\ (j = i \/ i < j)
        BY <1>0
      <4>2. p[i] <= p[j]
        BY <1>0, <4>1
      <4>. QED
        BY <1>0, <4>1, <4>2
    <3>. QED
      BY <3>1
  <2>2. high \in Injection(i..n, p[i]..n)
    <3>1. \A j \in i..n : j \in 1..n
      BY <1>0
    <3>. QED
      BY <1>1, <2>1, <3>1 DEF Injection, IsInjective
  <2>3. IsFiniteSet(p[i]..n) /\ Cardinality(p[i]..n) = n - p[i] + 1
    BY <1>0, FS_Interval
  <2>4. Cardinality(i..n) = n - i + 1
    BY <1>0, FS_Interval
  <2>. HIDE DEF high
  <2>5. Cardinality(i..n) <= Cardinality(p[i]..n)
    BY <2>2, <2>3, FS_Injection
  <2>. QED
    BY <1>0, <2>3, <2>4, <2>5
<1>. QED
  BY <1>0, <1>2, <1>3

LEMMA SortedWhole == Sorted(Names) = Files
<1>. DEFINE Maps      == [1..Cardinality(Names) -> Names]
            Rising(s) == \A i, j \in DOMAIN s : i < j => Position(s[i]) < Position(s[j])
<1>1. Maps = [1..Len(Files) -> Names]
  BY NamesCounted
<1>2. Files \in Maps /\ Rising(Files)
  BY <1>1, FilesForm, PositionForm
<1>3. ASSUME NEW s \in Maps, Rising(s) PROVE s = Files
  <2>. DEFINE p == [i \in 1..Len(Files) |-> Position(s[i])]
  <2>1. s \in [1..Len(Files) -> Names]
    BY <1>1
  <2>2. p \in [1..Len(Files) -> 1..Len(Files)]
    BY <2>1, PositionForm
  <2>3. \A i, j \in 1..Len(Files) : i < j => p[i] < p[j]
    BY <1>3, <2>1
  <2>4. Len(Files) \in Nat
    BY FilesForm
  <2>5. \A i \in 1..Len(Files) : p[i] = Position(s[i])
    OBVIOUS
  <2>. HIDE DEF p
  <2>6. \A i \in 1..Len(Files) : p[i] = i
    BY <2>2, <2>3, <2>4, Unmoved
  <2>7. \A i \in 1..Len(Files) : s[i] = Files[i]
    BY <2>1, <2>5, <2>6, PositionForm
  <2>8. Files \in [1..Len(Files) -> Names]
    BY FilesForm
  <2>. HIDE DEF Maps, Rising
  <2>. QED
    BY <2>1, <2>7, <2>8
<1>4. Sorted(Names) = CHOOSE s \in Maps : Rising(s)
  BY DEF Sorted
<1>. HIDE DEF Maps, Rising
<1>. QED
  BY <1>2, <1>3, <1>4

-----------------------------------------------------------------------------
(***************************************************************************)
(* The synchronisation.                                                    *)
(***************************************************************************)
LEMMA RowForm ==
  ASSUME NEW r \in Row
  PROVE  r.name \in Names /\ r.size \in Sizes /\ r.digest \in Known /\ r.version \in Nat
  BY DEF Row

LEMMA NewestForm ==
  ASSUME MirrorInv, NEW f \in Names
  PROVE  /\ Len(raw[f]) \in 1..Len(raw[f]) /\ Len(raw[f]) \in Nat /\ DOMAIN raw[f] = 1..Len(raw[f])
         /\ Last(raw[f]) = raw[f][Len(raw[f])] /\ Last(raw[f]) \in Known
<1>1. raw[f] \in Seq(Known) /\ raw[f] # << >>
  BY DEF MirrorInv
<1>2. /\ Len(raw[f]) \in Nat /\ Len(raw[f]) # 0 /\ DOMAIN raw[f] = 1..Len(raw[f])
      /\ raw[f] \in [1..Len(raw[f]) -> Known]
  BY <1>1, LenProperties, EmptySeq
<1>. QED
  BY <1>2 DEF Last

LEMMA ExistingForm ==
  ASSUME MirrorInv, NEW f \in Names, NEW size, Existing(f, size) # "none"
  PROVE  /\ Existing(f, size) = Last(raw[f])
         /\ Existing(f, size) \in Known
         /\ Size[Existing(f, size)] = size
<1>1. raw[f] # << >>
  BY DEF MirrorInv
<1>2. Stored(f) = Last(raw[f])
  BY <1>1 DEF Stored
<1>3. Existing(f, size) = Stored(f) /\ Size[Stored(f)] = size
  BY DEF Existing
<1>. QED
  BY <1>2, <1>3, NewestForm

\* A new version takes nothing away from the older ones.
LEMMA UploadAdds ==
  ASSUME MirrorInv, NEW f \in Names, NEW d \in Known, raw' = [raw EXCEPT ![f] = Append(raw[f], d)]
  PROVE  /\ MirrorInv'
         /\ Last(raw'[f]) = d
         /\ \A r \in Row : Held(r, raw) => Held(r, raw')
<1>. DEFINE longer == Append(raw[f], d)
<1>1. raw[f] \in Seq(Known)
  BY DEF MirrorInv
<1>2. /\ longer \in Seq(Known) /\ longer # << >>
      /\ Len(longer) = Len(raw[f]) + 1 /\ DOMAIN longer = 1..Len(longer)
      /\ \A i \in 1..Len(raw[f]) : longer[i] = raw[f][i]
      /\ longer[Len(raw[f]) + 1] = d
  BY <1>1, AppendProperties, LenProperties
<1>3. raw' \in [Names -> Seq(Known)] /\ raw'[f] = longer /\ \A g \in Names : g # f => raw'[g] = raw[g]
  BY <1>2 DEF MirrorInv
<1>. HIDE DEF longer
<1>4. MirrorInv'
  BY <1>2, <1>3 DEF MirrorInv
<1>5. Last(raw'[f]) = d
  BY <1>2, <1>3 DEF Last
<1>6. ASSUME NEW r \in Row, Held(r, raw) PROVE Held(r, raw')
  <2>1. r.name \in Names
    BY RowForm
  <2>2. CASE r.name = f
    <3>1. DOMAIN raw[f] = 1..Len(raw[f]) /\ Len(raw[f]) \in Nat
      BY NewestForm
    <3>2. r.version \in 1..Len(raw[f]) /\ raw[f][r.version] = r.digest /\ Size[r.digest] = r.size
      BY <1>6, <2>2, <3>1 DEF Held
    <3>3. r.version \in DOMAIN longer /\ longer[r.version] = r.digest
      BY <1>2, <3>1, <3>2
    <3>. QED
      BY <1>3, <2>2, <3>2, <3>3 DEF Held
  <2>3. CASE r.name # f
    BY <1>3, <1>6, <2>1, <2>3 DEF Held
  <2>. QED
    BY <2>2, <2>3
<1>. QED
  BY <1>4, <1>5, <1>6

LEMMA ManifestKept ==
  ASSUME ManifestInv, csv' = csv, \A r \in Row : Held(r, raw) => Held(r, raw')
  PROVE  ManifestInv'
<1>1. \A i \in DOMAIN Files : csv.rows[i] \in Row
  BY FilesForm, LenProperties DEF ManifestInv
<1>2. \A i \in DOMAIN Files : csv.rows[i].name = Files[i] /\ Held(csv.rows[i], raw')
  BY <1>1 DEF ManifestInv
<1>3. csv'.rows = csv.rows /\ csv'.by = csv.by
  OBVIOUS
<1>. QED
  BY <1>2, <1>3 DEF ManifestInv

LEMMA SyncEnds ==
  ASSUME SyncInv, SyncEnd
  PROVE  SyncInv'
<1>1. sync' = [pc |-> "idle", list |-> << >>, size |-> [f \in {} |-> 0], at |-> 0,
               digest |-> "none", rows |-> << >>, started |-> sync.started]
  BY DEF SyncEnd, NoSync
<1>. QED
  BY <1>1 DEF SyncInv

\* What is known of a synchronisation at work.
Recorded(s, versions) ==
  /\ s = [pc |-> s.pc, list |-> s.list, size |-> s.size, at |-> s.at,
          digest |-> s.digest, rows |-> s.rows, started |-> s.started]
  /\ s.started \in Nat \ {0}
  /\ s.list \in Seq(Names) /\ s.at \in 1..Len(s.list)
  /\ s.size \in [Names -> Sizes]
  /\ Len(s.list) = Len(Files) => s.list = Files
  /\ s.rows \in Seq(Row)
  /\ \A i \in 1..Len(s.rows) : s.rows[i].name = s.list[i] /\ Held(s.rows[i], versions)

LEMMA AtWorkForm ==
  ASSUME SyncInv, sync.pc # "idle"
  PROVE  Recorded(sync, raw) /\ file \in Names /\ sync.size[file] \in Sizes
<1>1. Recorded(sync, raw)
  BY DEF SyncInv, Recorded
<1>2. file \in Names
  BY <1>1, LenProperties DEF Recorded, file
<1>. QED
  BY <1>1, <1>2 DEF Recorded

\* The lookups, the download and the check of the upload.
LEMMA SyncLooks ==
  ASSUME MirrorInv, InputInv, SyncInv, HeadObject \/ Download \/ VerifyUpload
  PROVE  SyncInv'
<1>1. CASE SyncEnd
  BY <1>1, SyncEnds
<1>2. CASE ~SyncEnd
  <2>1. sync.pc \in {"head", "download", "verify"} /\ raw' = raw
    BY DEF HeadObject, Download, VerifyUpload
  <2>2. Recorded(sync, raw) /\ file \in Names /\ Len(sync.rows) = sync.at - 1
    BY <2>1, AtWorkForm DEF SyncInv
  <2>3. \E pc \in {"download", "version", "upload"} : \E d :
          /\ sync' = [sync EXCEPT !.pc = pc, !.digest = d]
          /\ pc # "download" => d \in Known /\ Size[d] = sync.size[file]
          /\ pc = "version" => Last(raw[file]) = d
    <3>1. CASE HeadObject
      <4>. DEFINE d == Existing(file, sync.size[file])
      <4>1. sync' = [sync EXCEPT !.digest = d, !.pc = IF d = "none" THEN "download" ELSE "version"]
        BY <3>1 DEF HeadObject
      <4>2. d # "none" => d \in Known /\ Size[d] = sync.size[file] /\ Last(raw[file]) = d
        BY <2>2, ExistingForm
      <4>. HIDE DEF d
      <4>3. CASE d = "none"
        <5>1. sync' = [sync EXCEPT !.pc = "download", !.digest = d]
          BY <4>1, <4>3
        <5>. QED
          BY <5>1
      <4>4. CASE d # "none"
        <5>1. sync' = [sync EXCEPT !.pc = "version", !.digest = d]
          BY <4>1, <4>4
        <5>. QED
          BY <4>2, <4>4, <5>1
      <4>. QED
        BY <4>3, <4>4
    <3>2. CASE Download
      <4>1. Size[kaggle[file]] = sync.size[file] /\ sync' = [sync EXCEPT !.pc = "upload", !.digest = kaggle[file]]
        BY <1>2, <3>2 DEF Download
      <4>2. kaggle[file] \in Known
        BY <2>2 DEF InputInv
      <4>. QED
        BY <4>1, <4>2
    <3>3. CASE VerifyUpload
      <4>1. Existing(file, sync.size[file]) = sync.digest /\ sync' = [sync EXCEPT !.pc = "version"]
            /\ sync.pc = "verify"
        BY <1>2, <3>3 DEF VerifyUpload
      <4>2. sync.digest \in Known /\ Size[sync.digest] = sync.size[file] /\ Last(raw[file]) = sync.digest
        BY <4>1 DEF SyncInv
      <4>3. sync' = [sync EXCEPT !.pc = "version", !.digest = sync.digest]
        BY <2>2, <4>1 DEF Recorded
      <4>. QED
        BY <4>2, <4>3
    <3>. QED
      BY <3>1, <3>2, <3>3
  <2>4. PICK pc \in {"download", "version", "upload"} : \E d :
          /\ sync' = [sync EXCEPT !.pc = pc, !.digest = d]
          /\ pc # "download" => d \in Known /\ Size[d] = sync.size[file]
          /\ pc = "version" => Last(raw[file]) = d
    BY <2>3
  <2>5. PICK d :
          /\ sync' = [sync EXCEPT !.pc = pc, !.digest = d]
          /\ pc # "download" => d \in Known /\ Size[d] = sync.size[file]
          /\ pc = "version" => Last(raw[file]) = d
    BY <2>4
  <2>6. sync' = [pc |-> pc, list |-> sync.list, size |-> sync.size, at |-> sync.at,
                 digest |-> d, rows |-> sync.rows, started |-> sync.started]
    BY <2>2, <2>5 DEF Recorded
  <2>7. file' = file
    BY <2>6 DEF file
  <2>. QED
    BY <2>1, <2>2, <2>4, <2>5, <2>6, <2>7 DEF SyncInv, Recorded
<1>. QED
  BY <1>1, <1>2

LEMMA SyncUploads ==
  ASSUME MirrorInv, ManifestInv, SyncInv, Upload
  PROVE  MirrorInv' /\ ManifestInv' /\ SyncInv'
<1>1. /\ sync.pc = "upload" /\ csv' = csv
      /\ raw' = [raw EXCEPT ![file] = Append(raw[file], sync.digest)]
      /\ sync' = [sync EXCEPT !.pc = "verify"]
  BY DEF Upload
<1>2. /\ Recorded(sync, raw) /\ file \in Names /\ Len(sync.rows) = sync.at - 1
      /\ sync.digest \in Known /\ Size[sync.digest] = sync.size[file]
  BY <1>1, AtWorkForm DEF SyncInv
<1>3. /\ MirrorInv' /\ Last(raw'[file]) = sync.digest
      /\ \A r \in Row : Held(r, raw) => Held(r, raw')
  BY <1>1, <1>2, UploadAdds
<1>4. ManifestInv'
  BY <1>1, <1>3, ManifestKept
<1>5. sync' = [pc |-> "verify", list |-> sync.list, size |-> sync.size, at |-> sync.at,
               digest |-> sync.digest, rows |-> sync.rows, started |-> sync.started]
  BY <1>1, <1>2 DEF Recorded
<1>6. file' = file
  BY <1>5 DEF file
<1>7. \A i \in 1..Len(sync.rows) : sync.rows[i].name = sync.list[i] /\ Held(sync.rows[i], raw')
  <2>1. \A i \in 1..Len(sync.rows) : sync.rows[i] \in Row
    BY <1>2, LenProperties DEF Recorded
  <2>. QED
    BY <1>2, <1>3, <2>1 DEF Recorded
<1>8. SyncInv'
  BY <1>2, <1>3, <1>5, <1>6, <1>7 DEF SyncInv, Recorded
<1>. QED
  BY <1>3, <1>4, <1>8

\* The row that is added names the version that was just looked at.
LEMMA SyncRows ==
  ASSUME MirrorInv, SyncInv, HeadVersion
  PROVE  SyncInv'
<1>. DEFINE r    == [name |-> file, size |-> sync.size[file], digest |-> sync.digest, version |-> Len(raw[file])]
            more == sync.at < Len(sync.list)
            at   == IF more THEN sync.at + 1 ELSE sync.at
            pc   == IF more THEN "head" ELSE "manifest"
<1>1. /\ sync.pc = "version" /\ raw' = raw
      /\ sync' = [sync EXCEPT !.rows = Append(sync.rows, r), !.digest = "none", !.at = at, !.pc = pc]
  BY DEF HeadVersion
<1>2. /\ Recorded(sync, raw) /\ file \in Names /\ sync.size[file] \in Sizes /\ Len(sync.rows) = sync.at - 1
      /\ sync.digest \in Known /\ Size[sync.digest] = sync.size[file] /\ Last(raw[file]) = sync.digest
  BY <1>1, AtWorkForm DEF SyncInv
<1>3. r \in Row /\ Held(r, raw) /\ r.name = file
  BY <1>2, NewestForm DEF Row, Held
<1>. DEFINE rows == Append(sync.rows, r)
<1>4. sync' = [pc |-> pc, list |-> sync.list, size |-> sync.size, at |-> at,
               digest |-> "none", rows |-> rows, started |-> sync.started]
  BY <1>1, <1>2 DEF Recorded
<1>. HIDE DEF r
<1>5. /\ rows \in Seq(Row) /\ Len(rows) = Len(sync.rows) + 1 /\ Len(sync.rows) \in Nat
      /\ \A i \in 1..Len(sync.rows) : rows[i] = sync.rows[i]
      /\ rows[Len(sync.rows) + 1] = r
  BY <1>2, <1>3, AppendProperties, LenProperties DEF Recorded
<1>. HIDE DEF rows
<1>6. ASSUME NEW i \in 1..Len(rows) PROVE rows[i].name = sync.list[i] /\ Held(rows[i], raw)
  <2>1. CASE i \in 1..Len(sync.rows)
    BY <1>2, <1>5, <2>1 DEF Recorded
  <2>2. CASE i = Len(sync.rows) + 1
    BY <1>2, <1>3, <1>5, <2>2 DEF file, Recorded
  <2>. QED
    BY <1>5, <1>6, <2>1, <2>2
<1>7. /\ at \in 1..Len(sync.list) /\ Len(sync.list) \in Nat
      /\ Len(rows) = IF pc = "manifest" THEN Len(sync.list) ELSE at - 1
  <2>1. Len(sync.list) \in Nat /\ sync.at \in 1..Len(sync.list)
    BY <1>2, LenProperties DEF Recorded
  <2>. QED
    BY <1>2, <1>5, <2>1
<1>8. pc \in {"head", "manifest"}
  OBVIOUS
<1>. HIDE DEF at, pc, more
<1>9. /\ sync'.pc = pc /\ sync'.list = sync.list /\ sync'.size = sync.size /\ sync'.at = at
      /\ sync'.digest = "none" /\ sync'.rows = rows /\ sync'.started = sync.started
  BY <1>4
<1>10. Recorded(sync', raw')
  BY <1>1, <1>2, <1>4, <1>5, <1>6, <1>7, <1>9 DEF Recorded
<1>11. Len(sync'.rows) = IF sync'.pc \in {"manifest", "summary"} THEN Len(sync'.list) ELSE sync'.at - 1
  BY <1>7, <1>8, <1>9
<1>. QED
  BY <1>8, <1>9, <1>10, <1>11 DEF SyncInv, Recorded

LEMMA SyncWrites ==
  ASSUME MirrorInv, ManifestInv, SyncInv, WriteManifest
  PROVE  ManifestInv' /\ SyncInv'
<1>1. /\ sync.pc = "manifest" /\ raw' = raw
      /\ csv' = IF Complete THEN [by |-> sync.started, rows |-> sync.rows] ELSE csv
      /\ sync' = [sync EXCEPT !.pc = "summary"]
  BY DEF WriteManifest
<1>2. Recorded(sync, raw) /\ Len(sync.rows) = Len(sync.list)
  BY <1>1, AtWorkForm DEF SyncInv
<1>3. sync' = [pc |-> "summary", list |-> sync.list, size |-> sync.size, at |-> sync.at,
               digest |-> sync.digest, rows |-> sync.rows, started |-> sync.started]
  BY <1>1, <1>2 DEF Recorded
<1>4. SyncInv'
  BY <1>1, <1>2, <1>3 DEF SyncInv, Recorded
<1>5. CASE Complete
  <2>1. Len(sync.rows) = Cardinality(Names)
    BY <1>2, <1>5 DEF Complete, Recorded
  <2>2. sync.list = Files /\ Len(sync.rows) = Len(Files)
    BY <1>2, <2>1, NamesCounted DEF Recorded
  <2>3. csv'.by # 0 /\ csv'.rows = sync.rows
    BY <1>1, <1>2, <1>5 DEF Recorded
  <2>4. \A i \in DOMAIN Files : csv'.rows[i].name = Files[i] /\ Held(csv'.rows[i], raw')
    BY <1>1, <1>2, <2>2, <2>3, FilesForm DEF Recorded
  <2>. QED
    BY <1>2, <1>4, <2>2, <2>3, <2>4 DEF ManifestInv, Recorded
<1>6. CASE ~Complete
  BY <1>1, <1>4, <1>6, ManifestKept
<1>. QED
  BY <1>5, <1>6

LEMMA SyncLists ==
  ASSUME InputInv, SyncInv, ListFiles(Limits)
  PROVE  SyncInv'
<1>1. raw' = raw
  BY DEF ListFiles
<1>2. CASE sync' = [NoSync EXCEPT !.started = sync.started + 1]
  <2>1. sync' = [pc |-> "idle", list |-> << >>, size |-> [f \in {} |-> 0], at |-> 0,
                 digest |-> "none", rows |-> << >>, started |-> sync.started + 1]
    BY <1>2 DEF NoSync
  <2>2. sync.started \in Nat
    BY DEF SyncInv
  <2>. QED
    BY <2>1, <2>2 DEF SyncInv
<1>3. CASE \E chain \in Chains, limit \in Limits :
             /\ List(chain).ok
             /\ LET found == Sorted(List(chain).names)
                    take  == IF limit = 0 \/ limit > Len(found) THEN Len(found) ELSE limit
                IN sync' = [NoSync EXCEPT !.pc = "head", !.started = sync.started + 1,
                                          !.list = SubSeq(found, 1, take), !.at = 1,
                                          !.size = [f \in List(chain).names |-> Size[kaggle[f]]]]
  <2>1. PICK limit \in Limits :
          LET take == IF limit = 0 \/ limit > Len(Files) THEN Len(Files) ELSE limit
          IN sync' = [NoSync EXCEPT !.pc = "head", !.started = sync.started + 1,
                                    !.list = SubSeq(Files, 1, take), !.at = 1,
                                    !.size = [f \in Names |-> Size[kaggle[f]]]]
    BY <1>3, WholeListing, SortedWhole
  <2>. DEFINE take == IF limit = 0 \/ limit > Len(Files) THEN Len(Files) ELSE limit
              list == SubSeq(Files, 1, take)
              size == [f \in Names |-> Size[kaggle[f]]]
  <2>2. take \in 1..Len(Files) /\ take \in Nat
    BY FilesForm, BoundsAssumption
  <2>3. sync' = [pc |-> "head", list |-> list, size |-> size, at |-> 1,
                 digest |-> "none", rows |-> << >>, started |-> sync.started + 1]
    BY <2>1 DEF NoSync
  <2>. HIDE DEF take
  <2>4. list \in Seq(Names) /\ Len(list) = take /\ \A i \in 1..take : list[i] = Files[i]
    <3>1. \A i \in 1..take : Files[i] \in Names
      BY <2>2, FilesForm
    <3>. QED
      BY <2>2, <3>1, SubSeqProperties
  <2>. HIDE DEF list
  <2>5. Len(list) = Len(Files) => list = Files
    <3>1. list \in [1..take -> Names]
      BY <2>4, LenProperties
    <3>. QED
      BY <2>4, <3>1, FilesForm
  <2>6. size \in [Names -> Sizes]
    BY DEF InputInv, Sizes
  <2>. HIDE DEF size
  <2>7. << >> \in Seq(Row) /\ Len(<< >>) = 0
    BY EmptySeq
  <2>8. sync.started \in Nat
    BY DEF SyncInv
  <2>. QED
    BY <2>2, <2>3, <2>4, <2>5, <2>6, <2>7, <2>8 DEF SyncInv
<1>. QED
  BY <1>2, <1>3 DEF ListFiles

LEMMA MirrorKept ==
  ASSUME MirrorInv, ManifestInv, SyncInv, UNCHANGED <<raw, csv, sync>>
  PROVE  MirrorInv' /\ ManifestInv' /\ SyncInv'
<1>1. MirrorInv'
  BY DEF MirrorInv
<1>2. ManifestInv'
  BY DEF ManifestInv
<1>3. file' = file
  BY DEF file
<1>4. SyncInv'
  BY <1>3 DEF SyncInv
<1>. QED
  BY <1>1, <1>2, <1>4

LEMMA MirrorStep ==
  ASSUME InputInv, MirrorInv, ManifestInv, SyncInv, [Next]_vars
  PROVE  MirrorInv' /\ ManifestInv' /\ SyncInv'
<1>1. CASE HeadObject \/ Download \/ VerifyUpload
  <2>1. UNCHANGED <<raw, csv>>
    BY <1>1 DEF HeadObject, Download, VerifyUpload
  <2>2. MirrorInv' /\ ManifestInv'
    BY <2>1 DEF MirrorInv, ManifestInv
  <2>. QED
    BY <1>1, <2>2, SyncLooks
<1>2. CASE Upload
  BY <1>2, SyncUploads
<1>3. CASE HeadVersion
  <2>1. UNCHANGED <<raw, csv>>
    BY <1>3 DEF HeadVersion
  <2>2. MirrorInv' /\ ManifestInv'
    BY <2>1 DEF MirrorInv, ManifestInv
  <2>. QED
    BY <1>3, <2>2, SyncRows
<1>4. CASE WriteManifest
  <2>1. raw' = raw
    BY <1>4 DEF WriteManifest
  <2>2. MirrorInv'
    BY <2>1 DEF MirrorInv
  <2>. QED
    BY <1>4, <2>2, SyncWrites
<1>5. CASE WriteSummary \/ SyncFails
  <2>1. UNCHANGED <<raw, csv>> /\ SyncEnd
    BY <1>5 DEF WriteSummary, SyncFails
  <2>2. MirrorInv' /\ ManifestInv'
    BY <2>1 DEF MirrorInv, ManifestInv
  <2>. QED
    BY <2>1, <2>2, SyncEnds
<1>6. CASE ListFiles(Limits)
  <2>1. UNCHANGED <<raw, csv>>
    BY <1>6 DEF ListFiles
  <2>2. MirrorInv' /\ ManifestInv'
    BY <2>1 DEF MirrorInv, ManifestInv
  <2>. QED
    BY <1>6, <2>2, SyncLists
<1>7. CASE Replace
  BY <1>7, MirrorKept DEF Replace
<1>8. CASE UNCHANGED kaggleVars
  BY <1>8, MirrorKept DEF kaggleVars
<1>9. CASE Command
  <2>1. UNCHANGED kaggleVars
    BY <1>9 DEF Command, Begin, Prepare, AwaitInputs, ExecuteSystem, Evaluate, StartPublisher, AwaitPublisher,
                Quality, ArchiveNotebook, ArchiveManifest, Stop, EmitTerminal, ArchiveLog, Crash
  <2>. QED
    BY <1>8, <2>1
<1>10. CASE PublishByHand \/ PrepareExport \/ EditNotebook \/ EditSources \/ UNCHANGED vars
  BY <1>8, <1>10 DEF PublishByHand, PrepareExport, EditNotebook, EditSources, vars
<1>. QED
  BY <1>1, <1>2, <1>3, <1>4, <1>5, <1>6, <1>7, <1>8, <1>9, <1>10 DEF Next, Sync

-----------------------------------------------------------------------------
(***************************************************************************)
(* The preparation.                                                        *)
(***************************************************************************)
LEMMA PinnedIsSome == Pinned # "none" /\ Pinned \in Known
  BY ContentsAssumption DEF Pinned, Known

LEMMA RowAtHand ==
  ASSUME PrepInv, prep.rows # {}
  PROVE  row \in prep.rows /\ row.name \in Names /\ row.digest = Pinned
<1>1. row \in prep.rows
  BY DEF row
<1>. QED
  BY <1>1 DEF PrepInv

LEMMA PrepEnds ==
  ASSUME PrepInv, NEW ok, PrepEnd(ok) \/ prep' = NoPrep, stages' \in [1..3 -> [Names -> {"none", Pinned}]],
         inputs' \in [Splits -> Seq({Pinned})]
  PROVE  PrepInv'
<1>1. \E done : prep' = [pc |-> "idle", who |-> "none", rows |-> {}, kind |-> 1, pdf |-> "none",
                       new |-> "none", made |-> << >>, ok |-> done]
  BY DEF PrepEnd, NoPrep
<1>2. << >> \in Seq({Pinned})
  BY EmptySeq
<1>. QED
  BY <1>1, <1>2 DEF PrepInv

LEMMA PrepAdvances ==
  ASSUME PrepInv, prep.pc \in {"stage", "save"}, Advance, inputs' = inputs,
         stages' \in [1..3 -> [Names -> {"none", Pinned}]],
         prep.new = "none" => saved = Pinned,
         stages'[1][row.name] = Pinned
  PROVE  PrepInv'
<1>1. prep.rows # {} /\ prep.new \in {"none", Pinned} /\ prep.kind \in 1..3 /\ (LastKind <=> prep.kind = 3)
  BY DEF PrepInv, LastKind, Kinds
<1>2. CASE ~LastKind
  <2>1. \E pdf \in {"none", Pinned} :
          prep' = [pc |-> "stage", who |-> prep.who, rows |-> prep.rows, kind |-> prep.kind + 1, pdf |-> pdf,
                   new |-> "none", made |-> prep.made, ok |-> prep.ok]
    BY <1>2 DEF Advance, PrepInv
  <2>2. prep'.rows = prep.rows
    BY <2>1
  <2>3. row' = row
    BY <2>2 DEF row
  <2>4. prep.kind + 1 \in 1..3
    BY <1>1, <1>2
  <2>. QED
    BY <1>1, <2>1, <2>3, <2>4 DEF PrepInv
<1>3. CASE LastKind
  <2>. DEFINE c    == IF prep.new = "none" THEN saved ELSE prep.new
              made == Append(prep.made, c)
              rest == prep.rows \ {row}
  <2>1. c = Pinned
    BY <1>1
  <2>2. made \in Seq({Pinned})
    BY <2>1, AppendProperties DEF PrepInv
  <2>3. \E pc \in {"manifest", "load", "stage"} :
          /\ prep' = [pc |-> pc, who |-> prep.who, rows |-> rest, kind |-> 1, pdf |-> "none",
                      new |-> "none", made |-> made, ok |-> prep.ok]
          /\ pc # "manifest" => rest # {}
    BY <1>3 DEF Advance, PrepInv
  <2>4. \A r \in rest : r.name \in Names /\ r.digest = Pinned
    BY DEF PrepInv
  <2>. HIDE DEF made, rest
  <2>. QED
    BY <2>2, <2>3, <2>4 DEF PrepInv
<1>. QED
  BY <1>2, <1>3

LEMMA PrepKept ==
  ASSUME PrepInv, UNCHANGED <<stages, inputs, prep>>
  PROVE  PrepInv'
<1>1. row' = row
  BY DEF row
<1>. QED
  BY <1>1 DEF PrepInv

LEMMA PrepOpens ==
  ASSUME PrepInv, ManifestInv, NEW who, OpenSources(who)
  PROVE  PrepInv'
<1>1. stages' \in [1..3 -> [Names -> {"none", Pinned}]] /\ inputs' \in [Splits -> Seq({Pinned})]
      /\ UNCHANGED <<stages, inputs>>
  BY DEF OpenSources, PrepInv
<1>2. CASE \E ok : PrepEnd(ok)
  BY <1>1, <1>2, PrepEnds
<1>3. CASE ~\E ok : PrepEnd(ok)
  <2>. DEFINE rows == {r \in ToSet(csv.rows) : Split[r.name] = who}
  <2>1. /\ csv.by = 0 /\ rows # {}
        /\ prep' = [NoPrep EXCEPT !.pc = IF who = "export" THEN "load" ELSE "stage", !.who = who, !.rows = rows]
    <3>1. inputs[who] = << >> /\ csv.by = 0 /\ rows # {}
      BY <1>3 DEF OpenSources
    <3>. QED
      BY <3>1, <1>3 DEF OpenSources
  <2>2. \A r \in rows : r.name \in Names /\ r.digest = Pinned
    <3>1. DOMAIN csv.rows = DOMAIN Files
      BY FilesForm, LenProperties DEF ManifestInv
    <3>2. \A i \in DOMAIN Files : csv.rows[i].name = Files[i] /\ csv.rows[i].digest = Pinned
      BY <2>1 DEF ManifestInv, Pinned
    <3>. QED
      BY <3>1, <3>2, FilesForm DEF ToSet
  <2>3. PICK pc \in {"load", "stage"} :
          prep' = [pc |-> pc, who |-> who, rows |-> rows, kind |-> 1, pdf |-> "none",
                   new |-> "none", made |-> << >>, ok |-> TRUE]
    BY <2>1 DEF NoPrep
  <2>4. << >> \in Seq({Pinned}) /\ rows # {}
    BY <2>1, EmptySeq
  <2>. HIDE DEF rows
  <2>5. /\ prep'.pc = pc /\ prep'.rows = rows /\ prep'.kind = 1 /\ prep'.pdf = "none"
        /\ prep'.new = "none" /\ prep'.made = << >>
    BY <2>3
  <2>. QED
    BY <1>1, <2>2, <2>3, <2>4, <2>5 DEF PrepInv
<1>. QED
  BY <1>2, <1>3

\* A step within the stage of a document.
LEMMA PrepMoves ==
  ASSUME PrepInv, UNCHANGED <<stages, inputs>>, prep.pc \in {"load", "stage", "blobs"},
         NEW pc \in {"load", "stage", "blobs", "save"}, NEW pdf \in {"none", Pinned},
         prep' = [prep EXCEPT !.pc = pc, !.pdf = pdf, !.new = IF pc \in {"load", "stage"} THEN "none" ELSE Pinned]
  PROVE  PrepInv'
<1>. DEFINE new == IF pc \in {"load", "stage"} THEN "none" ELSE Pinned
<1>1. prep' = [pc |-> pc, who |-> prep.who, rows |-> prep.rows, kind |-> prep.kind, pdf |-> pdf,
               new |-> new, made |-> prep.made, ok |-> prep.ok]
  BY DEF PrepInv
<1>2. row' = row
  BY <1>1 DEF row
<1>. QED
  BY <1>1, <1>2 DEF PrepInv

LEMMA PrepLoads ==
  ASSUME PrepInv, LoadSource
  PROVE  PrepInv'
<1>1. prep.pc = "load" /\ UNCHANGED <<stages, inputs>>
  BY DEF LoadSource
<1>2. CASE PrepEnd(FALSE)
  BY <1>1, <1>2, PrepEnds DEF PrepInv
<1>3. CASE ~PrepEnd(FALSE)
  <2>1. CachedSource(row) # "none" /\ prep' = [prep EXCEPT !.pdf = CachedSource(row), !.pc = "stage"]
    BY <1>3 DEF LoadSource
  <2>2. CachedSource(row) = Pinned
    <3>1. row.digest = Pinned
      BY <1>1, RowAtHand DEF PrepInv
    <3>. QED
      BY <2>1, <3>1 DEF CachedSource
  <2>3. prep' = [prep EXCEPT !.pc = "stage", !.pdf = Pinned, !.new = "none"]
    BY <1>1, <2>1, <2>2 DEF PrepInv
  <2>. QED
    BY <1>1, <2>3, PrepMoves
<1>. QED
  BY <1>2, <1>3

LEMMA PrepStages ==
  ASSUME PrepInv, RunStage
  PROVE  PrepInv'
<1>1. prep.pc = "stage" /\ UNCHANGED <<stages, inputs>>
  BY DEF RunStage
<1>2. /\ row.name \in Names /\ row.digest = Pinned /\ prep.new = "none"
      /\ prep.kind \in 1..3 /\ prep.pdf \in {"none", Pinned}
      /\ stages \in [1..3 -> [Names -> {"none", Pinned}]]
      /\ prep.kind # 1 => stages[1][row.name] = Pinned
  BY <1>1, RowAtHand DEF PrepInv
<1>3. saved \in {"none", Pinned} /\ saved = stages[prep.kind][row.name]
  BY <1>2 DEF saved
<1>4. CASE saved # "none"
  <2>1. saved = Pinned /\ Advance
    BY <1>2, <1>3, <1>4 DEF RunStage
  <2>2. stages[1][row.name] = Pinned
    BY <1>2, <1>3, <2>1
  <2>. QED
    BY <1>1, <1>2, <2>1, <2>2, PrepAdvances
<1>5. CASE saved = "none" /\ Kinds[prep.kind] = "queries"
  <2>1. prep' = [prep EXCEPT !.new = stages[1][row.name], !.pc = "save"]
    BY <1>5 DEF RunStage
  <2>2. prep.kind # 1
    BY <1>5 DEF Kinds
  <2>3. prep' = [prep EXCEPT !.pc = "save", !.pdf = prep.pdf, !.new = Pinned]
    BY <1>2, <2>1, <2>2 DEF PrepInv
  <2>. QED
    BY <1>1, <1>2, <2>3, PrepMoves
<1>6. CASE saved = "none" /\ Kinds[prep.kind] # "queries" /\ prep.pdf = "none"
  <2>1. prep' = [prep EXCEPT !.pc = "load"]
    BY <1>6 DEF RunStage
  <2>2. prep' = [prep EXCEPT !.pc = "load", !.pdf = prep.pdf, !.new = "none"]
    BY <1>2, <2>1 DEF PrepInv
  <2>. QED
    BY <1>1, <1>2, <2>2, PrepMoves
<1>7. CASE saved = "none" /\ Kinds[prep.kind] # "queries" /\ prep.pdf # "none"
  <2>1. \E pc \in {"blobs", "save"} : prep' = [prep EXCEPT !.new = prep.pdf, !.pc = pc]
    BY <1>7 DEF RunStage
  <2>2. \E pc \in {"blobs", "save"} : prep' = [prep EXCEPT !.pc = pc, !.pdf = prep.pdf, !.new = Pinned]
    BY <1>2, <1>7, <2>1 DEF PrepInv
  <2>. QED
    BY <1>1, <1>2, <2>2, PrepMoves
<1>. QED
  BY <1>4, <1>5, <1>6, <1>7

LEMMA PrepSaves ==
  ASSUME PrepInv, SaveStage
  PROVE  PrepInv'
<1>1. prep.pc = "save" /\ inputs' = inputs /\ stages' = [stages EXCEPT ![prep.kind][row.name] = prep.new]
  BY DEF SaveStage
<1>2. /\ row.name \in Names /\ row.digest = Pinned /\ prep.new = Pinned
      /\ prep.kind \in 1..3
      /\ stages \in [1..3 -> [Names -> {"none", Pinned}]]
      /\ prep.kind # 1 => stages[1][row.name] = Pinned
      /\ inputs \in [Splits -> Seq({Pinned})]
  BY <1>1, RowAtHand DEF PrepInv
<1>3. stages' \in [1..3 -> [Names -> {"none", Pinned}]]
  BY <1>1, <1>2
<1>4. stages'[1][row.name] = Pinned
  BY <1>1, <1>2
<1>5. Advance
  BY <1>2 DEF SaveStage
<1>. QED
  BY <1>1, <1>2, <1>3, <1>4, <1>5, PinnedIsSome, PrepAdvances

LEMMA PrepWrites ==
  ASSUME PrepInv, WriteInputs
  PROVE  PrepInv'
<1>1. stages' \in [1..3 -> [Names -> {"none", Pinned}]] /\ \E ok : PrepEnd(ok)
  BY DEF WriteInputs, PrepInv
<1>2. inputs' \in [Splits -> Seq({Pinned})]
  <2>1. inputs' = inputs \/ inputs' = [inputs EXCEPT ![prep.who] = prep.made]
    BY DEF WriteInputs
  <2>2. inputs \in [Splits -> Seq({Pinned})] /\ prep.made \in Seq({Pinned})
    BY DEF PrepInv
  <2>. QED
    BY <2>1, <2>2
<1>. QED
  BY <1>1, <1>2, PrepEnds

LEMMA PrepEvolves ==
  ASSUME ManifestInv, PrepInv, [Next]_vars
  PROVE  PrepInv'
<1>1. CASE PrepStep
  <2>1. CASE PutBlobs
    <3>1. prep.pc = "blobs" /\ UNCHANGED <<stages, inputs>> /\ prep' = [prep EXCEPT !.pc = "save"]
      BY <2>1 DEF PutBlobs
    <3>2. prep' = [prep EXCEPT !.pc = "save", !.pdf = prep.pdf, !.new = Pinned]
      BY <3>1 DEF PrepInv
    <3>3. prep.pdf \in {"none", Pinned}
      BY DEF PrepInv
    <3>. QED
      BY <3>1, <3>2, <3>3, PrepMoves
  <2>2. CASE PrepFails
    <3>1. PrepEnd(FALSE) /\ UNCHANGED <<stages, inputs>>
      BY <2>2 DEF PrepFails
    <3>. QED
      BY <3>1, PrepEnds DEF PrepInv
  <2>. QED
    BY <1>1, <2>1, <2>2, PrepLoads, PrepStages, PrepSaves, PrepWrites DEF PrepStep
<1>2. CASE Prepare \/ PrepareExport
  BY <1>2, PrepOpens DEF Prepare, PrepareExport
<1>3. CASE AwaitInputs \/ Crash
  <2>1. UNCHANGED <<stages, inputs>> /\ prep' \in {NoPrep, prep}
    BY <1>3 DEF AwaitInputs, Crash
  <2>2. CASE prep' = NoPrep
    BY <2>1, <2>2, PrepEnds DEF PrepInv
  <2>3. CASE prep' = prep
    BY <2>1, <2>3, PrepKept
  <2>. QED
    BY <2>1, <2>2, <2>3
<1>4. CASE UNCHANGED prepVars \/ UNCHANGED vars
  BY <1>4, PrepKept DEF prepVars, vars
<1>5. CASE \/ Begin \/ ExecuteSystem \/ Evaluate \/ StartPublisher \/ AwaitPublisher \/ Quality
           \/ ArchiveNotebook \/ ArchiveManifest \/ Stop \/ EmitTerminal \/ ArchiveLog
           \/ PublishByHand \/ EditNotebook \/ EditSources
  <2>1. UNCHANGED prepVars
    BY <1>5 DEF Begin, ExecuteSystem, Evaluate, StartPublisher, AwaitPublisher, Quality, ArchiveNotebook,
                ArchiveManifest, Stop, EmitTerminal, ArchiveLog, PublishByHand, EditNotebook, EditSources
  <2>. QED
    BY <1>4, <2>1
<1>. QED
  BY <1>1, <1>2, <1>3, <1>4, <1>5 DEF Next, Command

-----------------------------------------------------------------------------
LEMMA SourcesInitially == Init => SourceInv
<1>. SUFFICES ASSUME Init PROVE SourceInv
  OBVIOUS
<1>1. /\ kaggle = [f \in Names |-> Pinned]
      /\ raw = [f \in Names |-> <<Pinned>>]
      /\ sync = NoSync
      /\ csv = [by |-> 0, rows |-> [i \in DOMAIN Files |->
                  [name |-> Files[i], size |-> Size[Pinned], digest |-> Pinned, version |-> 1]]]
  BY DEF Init, Mirrored, Pinned
<1>2. MirrorInv
  BY <1>1, PinnedIsSome DEF MirrorInv
<1>3. ManifestInv
  <2>. DEFINE line(i) == [name |-> Files[i], size |-> Size[Pinned], digest |-> Pinned, version |-> 1]
              lines   == [i \in 1..Len(Files) |-> line(i)]
  <2>1. csv.rows = lines /\ csv.by = 0
    BY <1>1, FilesForm
  <2>2. \A i \in 1..Len(Files) : line(i) \in Row /\ Held(line(i), raw) /\ line(i).name = Files[i]
    BY <1>1, FilesForm, PinnedIsSome DEF Row, Sizes, Held
  <2>3. \A i \in 1..Len(Files) : line(i).digest = Contents[1]
    BY DEF Pinned
  <2>. HIDE DEF line
  <2>4. lines \in Seq(Row) /\ Len(lines) = Len(Files) /\ \A i \in 1..Len(Files) : lines[i] = line(i)
    BY <2>2, FilesForm
  <2>. HIDE DEF lines
  <2>. QED
    BY <2>1, <2>2, <2>3, <2>4, FilesForm DEF ManifestInv
<1>4. SyncInv
  BY <1>1 DEF SyncInv, NoSync
<1>5. PrepInv
  <2>1. /\ stages = [k \in 1..3 |-> [f \in Names |-> IF Split[f] = "system" /\ k < 3 THEN Pinned ELSE "none"]]
        /\ inputs = [s \in Splits |-> << >>] /\ prep = NoPrep
    BY DEF Init, Unprepared, Kinds, Pinned
  <2>2. << >> \in Seq({Pinned})
    BY EmptySeq
  <2>. QED
    BY <2>1, <2>2 DEF PrepInv, NoPrep
<1>. QED
  BY <1>2, <1>3, <1>4, <1>5 DEF SourceInv

LEMMA SourcesBacked == SourceInv => SourcesAreBacked
<1>. SUFFICES ASSUME SourceInv PROVE SourcesAreBacked
  OBVIOUS
<1>1. \A r : Held(r, raw) <=> Backed(r)
  BY DEF Held, Backed
<1>2. Len(csv.rows) = Len(Files) /\ \A i \in DOMAIN Files : csv.rows[i].name = Files[i] /\ Backed(csv.rows[i])
  BY <1>1 DEF SourceInv, ManifestInv
<1>3. ASSUME NEW who \in Splits, NEW i \in DOMAIN inputs[who] PROVE inputs[who][i] = Contents[1]
  <2>1. inputs[who] \in Seq({Pinned})
    BY DEF SourceInv, PrepInv
  <2>. QED
    BY <2>1, LenProperties DEF Pinned
<1>. QED
  BY <1>2, <1>3 DEF SourcesAreBacked

\* A complete manifest names each file once with a version that holds what the
\* row says, whatever was replaced or interrupted; and prepared inputs are made
\* of the versions that the pinned manifest names.
THEOREM SourcesStayBacked == Spec => []SourcesAreBacked
<1>1. Init => InputInv /\ SourceInv
  BY PubInitially, SourcesInitially DEF PubInv
<1>2. InputInv /\ SourceInv /\ [Next]_vars => (InputInv /\ SourceInv)'
  BY InputStep, MirrorStep, PrepEvolves DEF SourceInv
<1>. QED
  BY <1>1, <1>2, SourcesBacked, PTL DEF Spec
=============================================================================
