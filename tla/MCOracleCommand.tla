-------------------------- MODULE MCOracleCommand --------------------------
(***************************************************************************)
(* Three invocations and two jobs; plans inside and outside the guards; a  *)
(* queue of two units, an hour of three, a poll every two.  The gates are  *)
(* compared with the reference for every assignment of two replies to two  *)
(* files, up to two metadata objects and up to two records.                *)
(***************************************************************************)
EXTENDS OracleCommand

Text(type, t) == [type |-> type, text |-> t, reads |-> "text", items |-> << >>]
Object(answer, pages, abstain) == [json |-> "object", schema |-> TRUE, answer |-> answer,
                                   pages |-> pages, abstain |-> abstain]
Yes     == Object(Text("string", "yes"), <<1>>, FALSE)
Unsure  == Object(Text("string", ""), << >>, TRUE)
Far     == Object(Text("string", "yes"), <<7>>, FALSE)
Listed  == Object([type |-> "array", text |-> "...", reads |-> "list", items |-> <<"yes">>], <<1>>, FALSE)
Garbled == [Yes EXCEPT !.json = "invalid_json"]

MCQuestions == {1, 2}
MCFormat    == [q \in MCQuestions |-> "string"]
MCEvidence  == [q \in MCQuestions |-> {1}]

\* What an honest run leaves, from its texts, metadata and records.
Left(texts, metadata, records, inherited) ==
  LET s == Summary(records, inherited) IN
  [texts |-> texts, metadata |-> metadata, records |-> records, summary |-> s, copy |-> s,
   retained |-> [q \in {records[i].question : i \in DOMAIN records} |->
                  records[CHOOSE i \in DOMAIN records : records[i].question = q]],
   inherited |-> inherited]

Upto(S, n) == UNION {[1..k -> S] : k \in 0..n}
Meta(Q, F, R) == [question : Q, file : F, sha : R]

\* Files, metadata and records that need not belong together.
Linked ==
  {Left(t, m, r, << >>) : t \in UNION {[F -> {Yes, Far}] : F \in SUBSET {"f", "g"}},
                          m \in Upto(Meta({1, 2, 3}, {"f", "g"}, {Yes, Far}), 2),
                          r \in Upto({Recorded(q, s) : q \in MCQuestions, s \in {Yes, Far}}, 2)}

\* One honest benchmark of two replies, and changes to what is said about it.
Honest(a, b, inherited) ==
  Left("f" :> a @@ "g" :> b,
       <<[question |-> 1, file |-> "f", sha |-> a], [question |-> 2, file |-> "g", sha |-> b]>>,
       <<Recorded(2, b), Recorded(1, a)>>, inherited)

Told ==
  {[[[[Honest(a, b, i) EXCEPT !.summary.resume = u] EXCEPT !.copy.resume = v]
       EXCEPT !.records[1] = r] EXCEPT !.summary.counts.valid = n] :
     a \in {Yes, Unsure, Garbled}, b \in {Yes, Listed},
     i \in {<< >>} \cup {q :> Recorded(q, s) : q \in MCQuestions, s \in {Yes, Unsure}},
     u \in {Resume(<< >>), Resume(<<1>>)}, v \in {Resume(<< >>), Resume(<<1>>)},
     r \in {Recorded(2, Yes), Recorded(2, Listed), [Recorded(2, Yes) EXCEPT !.run = "other"]},
     n \in 1..2}

\* What a smoke job may leave.
Smoked ==
  {[Left(t, m, r, << >>) EXCEPT !.summary.run = w] :
     t \in UNION {[F -> {Yes, Unsure, Far, Listed, Garbled}] : F \in SUBSET {"f", "g"}},
     m \in Upto(Meta({1}, {"f", "g"}, {Yes, Far, Listed}), 2),
     r \in Upto({Recorded(1, s) : s \in {Yes, Far, Listed, Unsure}}, 2),
     w \in {This, "other"}}

\* The gates pass exactly what a run that answered each question once would
\* have left behind: texts, metadata and records pair off, and every count
\* and lineage follows (artifact_gate.py:283-505, 616-789).  Looked at once.
GateIsExact ==
  cmd = Idle =>
    /\ \A a \in Linked \cup Told : BenchmarkGate(a) <=> WholeBenchmark(a)
    /\ \A a \in Smoked : SmokeGate(a) <=> WholeSmoke(a)

MCArtifacts == [m \in Modes |->
  IF m = "benchmark"
    THEN {Honest(Yes, Listed, << >>), [Honest(Yes, Unsure, << >>) EXCEPT !.metadata[2].file = "f"]}
    ELSE {Left("f" :> r, <<[question |-> 1, file |-> "f", sha |-> r]>>, <<Recorded(1, r)>>, << >>) :
           r \in {Yes, Listed}}]

Plan(mode, limit, runtime, spot) == [mode |-> mode, limit |-> limit, runtime |-> runtime, instances |-> 1,
                                     fits |-> TRUE, endpoint |-> FALSE, spot |-> spot]
MCPlans == {Plan("smoke", 1, 3, FALSE), Plan("benchmark", 2, 3, FALSE), Plan("benchmark", 2, 4, FALSE),
            Plan("smoke", 2, 3, FALSE), Plan("smoke", 1, 3, TRUE), Plan("benchmark", 1, 2, FALSE)}
=============================================================================
