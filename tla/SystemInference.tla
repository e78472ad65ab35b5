-------------------------- MODULE SystemInference --------------------------
(***************************************************************************)
(* The per-question inference loop of lava/readers/system.py               *)
(* (run_inference, infer_requests) and of infer_test in                    *)
(* lava/readers/test_inference.py.  Runs of the loop (GPU jobs, reruns of  *)
(* a failed one) share the durable objects of one contract: inputs.json,   *)
(* one answer per question, inference.json.  Each is a slot of SlotStore,  *)
(* used here through what that module shows a slot to be: a write that is  *)
(* accepted or finds an equal value succeeds, any other raises, and no     *)
(* completed value changes.  A run stops at any exception and at any       *)
(* interruption, losing all it holds in memory.                            *)
(***************************************************************************)
EXTENDS Naturals, Sequences

CONSTANTS Runs,         \* executions of the loop
          N,            \* questions, in the order of the input manifest
          Manifests,    \* input manifests that preparing may produce
          Generations,  \* what the model may say: sampling, timing, hardware
          None,
          MaxCrashes    \* bound on interruptions

ASSUME InferenceAssumption == /\ N \in Nat \ {0}
                              /\ MaxCrashes \in Nat

Questions == 1..N
Answers   == [inputs : Manifests, text : Generations]
Results   == [inputs : Manifests, records : [Questions -> Answers]]

ASSUME NoneIsNothing == None \notin Manifests \cup Answers \cup Results

VARIABLES
  inputs,      \* inputs.json
  answer,      \* answer[q]: answers/<q>.json
  inference,   \* inference.json
  pc,          \* pc[r]: where run r is
  manifest,    \* manifest[r]: the inputs r read when it started
  saved,       \* saved[r]: the answer r is working on
  records,     \* records[r]: the answers r has accepted, in question order
  crashes      \* interruptions so far

durable == <<inputs, answer, inference>>
local   == <<pc, manifest, saved, records>>
vars    == <<durable, local, crashes>>

Active == {"lookup", "generate", "write", "confirm", "check", "publish", "verify"}

\* The question r is at, and the result it publishes after the last one.
question(r) == Len(records[r]) + 1
Result(r)   == [inputs |-> manifest[r], records |-> records[r]]

\* While a run works on a question there is one to work on; it publishes with
\* an answer to each.
InPosition(r) ==
  /\ Len(records[r]) <= N
  /\ pc[r] \in Active => manifest[r] \in Manifests
  /\ pc[r] \in {"generate", "write", "confirm", "check"} => Len(records[r]) < N
  /\ pc[r] \in {"write", "confirm", "check"} => saved[r] \in Answers
  /\ pc[r] \in {"publish", "verify", "done"} => Len(records[r]) = N

TypeOK ==
  /\ inputs \in Manifests \cup {None}
  /\ answer \in [Questions -> Answers \cup {None}]
  /\ inference \in Results \cup {None}
  /\ pc \in [Runs -> Active \cup {"idle", "failed", "done"}]
  /\ manifest \in [Runs -> Manifests \cup {None}]
  /\ saved \in [Runs -> Answers \cup {None}]
  /\ records \in [Runs -> Seq(Answers)]
  /\ crashes \in 0..MaxCrashes
  /\ \A r \in Runs : InPosition(r)

Init == /\ inputs = None
        /\ answer = [q \in Questions |-> None]
        /\ inference = None
        /\ pc = [r \in Runs |-> "idle"]
        /\ manifest = [r \in Runs |-> None]
        /\ saved = [r \in Runs |-> None]
        /\ records = [r \in Runs |-> << >>]
        /\ crashes = 0

-----------------------------------------------------------------------------
Goto(r, l) == pc' = [pc EXCEPT ![r] = l]

\* prepare_inputs and prepare_test_inputs end by writing the manifest; a
\* second, different one is refused.
Prepare(m) == /\ inputs = None
              /\ inputs' = m
              /\ UNCHANGED <<answer, inference, local, crashes>>

\* A run reads its inputs before any model work, and raises without them.
Start(r) == /\ pc[r] = "idle"
            /\ Goto(r, IF inputs = None THEN "failed" ELSE "lookup")
            /\ manifest' = [manifest EXCEPT ![r] = inputs]
            /\ records' = [records EXCEPT ![r] = << >>]
            /\ UNCHANGED <<durable, saved, crashes>>

\* A fault: every question is put to the reader again.
LookupNothing(r) ==
  /\ pc[r] = "lookup"
  /\ Goto(r, IF question(r) > N THEN "publish" ELSE "generate")
  /\ UNCHANGED <<durable, manifest, saved, records, crashes>>

\* The saved answer of the next question is reused; without one the reader
\* is called.  After the last question the run publishes.
Lookup(r) == /\ pc[r] = "lookup"
             /\ \/ /\ question(r) > N
                   /\ Goto(r, "publish")
                   /\ UNCHANGED saved
                \/ /\ question(r) <= N
                   /\ answer[question(r)] = None
                   /\ Goto(r, "generate")
                   /\ UNCHANGED saved
                \/ /\ question(r) <= N
                   /\ answer[question(r)] # None
                   /\ saved' = [saved EXCEPT ![r] = answer[question(r)]]
                   /\ Goto(r, "check")
             /\ UNCHANGED <<durable, manifest, records, crashes>>

\* The reader answers.  Runs that ask the same question get unrelated answers:
\* the record carries its telemetry.
Generate(r, g) == /\ pc[r] = "generate"
                  /\ saved' = [saved EXCEPT ![r] = [inputs |-> manifest[r], text |-> g]]
                  /\ Goto(r, "write")
                  /\ UNCHANGED <<durable, manifest, records, crashes>>

\* A fault: a plain put, with no condition.
WriteOverwrites(r) ==
  /\ pc[r] = "write"
  /\ answer' = [answer EXCEPT ![question(r)] = saved[r]]
  /\ Goto(r, "confirm")
  /\ UNCHANGED <<inputs, inference, manifest, saved, records, crashes>>

\* store.write(key, saved): into the empty slot, or against an equal value.
Write(r) == /\ pc[r] = "write"
            /\ \/ /\ answer[question(r)] = None
                  /\ answer' = [answer EXCEPT ![question(r)] = saved[r]]
                  /\ Goto(r, "confirm")
               \/ /\ answer[question(r)] # None
                  /\ Goto(r, IF answer[question(r)] = saved[r] THEN "confirm" ELSE "failed")
                  /\ UNCHANGED answer
            /\ UNCHANGED <<inputs, inference, manifest, saved, records, crashes>>

\* The read-back that follows every write.
Confirm(r) == /\ pc[r] = "confirm"
              /\ Goto(r, IF answer[question(r)] = saved[r] THEN "check" ELSE "failed")
              /\ UNCHANGED <<durable, manifest, saved, records, crashes>>

\* An answer is accepted only if it was made from this run's inputs.
Check(r) == /\ pc[r] = "check"
            /\ \/ /\ saved[r].inputs = manifest[r]
                  /\ records' = [records EXCEPT ![r] = Append(@, saved[r])]
                  /\ Goto(r, "lookup")
               \/ /\ saved[r].inputs # manifest[r]
                  /\ Goto(r, "failed")
                  /\ UNCHANGED records
            /\ UNCHANGED <<durable, manifest, saved, crashes>>

\* store.write("inference.json", result) ...
Publish(r) == /\ pc[r] = "publish"
              /\ \/ /\ inference = None
                    /\ inference' = Result(r)
                    /\ Goto(r, "verify")
                 \/ /\ inference # None
                    /\ Goto(r, IF inference = Result(r) THEN "verify" ELSE "failed")
                    /\ UNCHANGED inference
              /\ UNCHANGED <<inputs, answer, manifest, saved, records, crashes>>

\* ... and its read-back: the run is complete.
Verify(r) == /\ pc[r] = "verify"
             /\ Goto(r, IF inference = Result(r) THEN "done" ELSE "failed")
             /\ UNCHANGED <<durable, manifest, saved, records, crashes>>

\* The instance is reclaimed, the process dies, a request raises.
Crash(r) == /\ pc[r] \in Active
            /\ crashes < MaxCrashes
            /\ crashes' = crashes + 1
            /\ Goto(r, "failed")
            /\ UNCHANGED <<durable, manifest, saved, records>>

\* The operator starts a failed run again: a new process, the same slots.
Rerun(r) == /\ pc[r] = "failed"
            /\ Goto(r, "idle")
            /\ UNCHANGED <<durable, manifest, saved, records, crashes>>

Step(r) == \/ Start(r) \/ Lookup(r)
           \/ \E g \in Generations : Generate(r, g)
           \/ Write(r) \/ Confirm(r) \/ Check(r)
           \/ Publish(r) \/ Verify(r)

Next == \/ \E m \in Manifests : Prepare(m)
        \/ \E r \in Runs : Step(r) \/ Crash(r) \/ Rerun(r)

Spec == Init /\ [][Next]_vars

\* A live process takes its next step, the inputs are prepared, and somebody
\* reruns what failed.
Fairness == /\ WF_vars(\E m \in Manifests : Prepare(m))
            /\ \A r \in Runs : WF_vars(Step(r)) /\ WF_vars(Rerun(r))

FairSpec == Spec /\ Fairness

-----------------------------------------------------------------------------
\* The published result is made of the durable answers, of every question,
\* and of the durable inputs, whoever wrote which of them.
PublishedIsDurable ==
  inference # None => /\ inference.inputs = inputs
                      /\ \A q \in Questions : inference.records[q] = answer[q]

\* Work survives interruption: what a run accepted, even one that has failed
\* since, is durable and will be what the next run finds.
AcceptedIsDurable == \A r \in Runs : \A q \in DOMAIN records[r] :
                       records[r][q] = answer[q]

\* A run that has all its answers is never refused at the end: whatever
\* inference.json it finds is the one it would write.
PublishNeverConflicts == \A r \in Runs :
  pc[r] \in {"publish", "verify"} /\ inference # None => inference = Result(r)

\* However many runs compete and are interrupted, the inference is published.
InferenceCompletes == <>(inference # None)
=============================================================================
