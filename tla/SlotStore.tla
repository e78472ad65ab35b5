----------------------------- MODULE SlotStore -----------------------------
(***************************************************************************)
(* CheckpointStore of lava/retrieval/storage.py: checkpoints kept in S3    *)
(* with GetObject and conditional PutObject only.  A slot is absent, then  *)
(* pending, then complete.  Every S3 request of read() and write() is an   *)
(* action of its own, so the requests of several processes interleave      *)
(* freely.  A request can be refused (412 or 409), fail, or take effect    *)
(* and have its answer lost; a process can stop between any two requests.  *)
(***************************************************************************)
CONSTANTS Procs,      \* processes that share the prefix
          Keys,       \* checkpoint suffixes
          Values,     \* completed values
          Absent,     \* no object under the key
          Pending,    \* the object is {"state": "pending"}
          None        \* read() found no completed value

ASSUME SlotAssumption == /\ Absent \notin Values
                         /\ Pending \notin Values
                         /\ None \notin Values
                         /\ Absent # Pending

VARIABLES slot,       \* slot[k]: the object under k, its completed value if complete
          pc,         \* pc[p]: the request p makes next, or how its last call ended
          call,       \* call[p]: the call p is in
          got,        \* got[p]: what the call is about to return
          told        \* the <<key, value>> pairs ever reported to a caller as durable

vars == <<slot, pc, call, got, told>>

Calls == [op : {"read"}, key : Keys, value : {None}]
           \cup [op : {"write"}, key : Keys, value : Values]

Ended  == {"idle", "conflict", "failed"}
Active == {"ensure", "fetch", "etag", "swap", "reensure", "refetch", "return"}

key(p) == call[p].key

\* The type invariant.  Past its first read() a call is a write.
TypeOK == /\ slot \in [Keys -> {Absent, Pending} \cup Values]
          /\ pc \in [Procs -> Ended \cup Active]
          /\ call \in [Procs -> Calls \cup {None}]
          /\ got \in [Procs -> Values \cup {None}]
          /\ told \in SUBSET (Keys \X Values)
          /\ \A p \in Procs :
               /\ pc[p] \in Active => call[p] \in Calls
               /\ pc[p] \in {"etag", "swap", "reensure", "refetch"}
                    => call[p].op = "write"

Init == /\ slot = [k \in Keys |-> Absent]
        /\ pc = [p \in Procs |-> "idle"]
        /\ call = [p \in Procs |-> None]
        /\ got = [p \in Procs |-> None]
        /\ told = {}

-----------------------------------------------------------------------------
\* How a step of p leaves the call: at another request, with a value to
\* return, or by an exception.
Goto(p, l) == pc' = [pc EXCEPT ![p] = l]

Answer(p, v) == /\ Goto(p, "return")
                /\ got' = [got EXCEPT ![p] = v]

Raise(p, e) == Goto(p, e) /\ UNCHANGED got

Continue(p, l) == Goto(p, l) /\ UNCHANGED got

\* A process calls read(k) or write(k, v).
Begin(p, c) == /\ pc[p] \in Ended
               /\ call' = [call EXCEPT ![p] = c]
               /\ Goto(p, "ensure")
               /\ UNCHANGED <<slot, got, told>>

\* read() puts a pending slot under IfNoneMatch="*" before it looks ...
AfterEnsure(p) == IF pc[p] = "ensure" THEN "fetch" ELSE "refetch"

\* A fault: IfNoneMatch is forgotten.
CreateUnconditionally(p) ==
  /\ pc[p] \in {"ensure", "reensure"}
  /\ slot' = [slot EXCEPT ![key(p)] = Pending]
  /\ Goto(p, AfterEnsure(p))
  /\ UNCHANGED <<call, got, told>>

Create(p) == /\ pc[p] \in {"ensure", "reensure"}
             /\ slot[key(p)] = Absent
             /\ slot' = [slot EXCEPT ![key(p)] = Pending]
             /\ Goto(p, AfterEnsure(p))
             /\ UNCHANGED <<call, got, told>>

\* ... and ignores the refusal: 412, or 409 for a request in flight, which S3
\* may answer whatever the slot holds.
CreateRefused(p) == /\ pc[p] \in {"ensure", "reensure"}
                    /\ Goto(p, AfterEnsure(p))
                    /\ UNCHANGED <<slot, call, got, told>>

\* write() compares a completed slot with its own value.
Compare(p) == \/ /\ slot[key(p)] = call[p].value
                 /\ Answer(p, call[p].value)
              \/ /\ slot[key(p)] # call[p].value
                 /\ Raise(p, "conflict")

\* The GetObject of read().  A pending slot sends a first read of write() on,
\* and is a conflict for the read after a refused commit.
Fetch(p) == /\ pc[p] \in {"fetch", "refetch"}
            /\ \/ /\ slot[key(p)] = Absent
                  /\ Raise(p, "failed")
               \/ /\ slot[key(p)] = Pending
                  /\ \/ call[p].op = "read" /\ Answer(p, None)
                     \/ call[p].op = "write" /\ pc[p] = "fetch" /\ Continue(p, "etag")
                     \/ call[p].op = "write" /\ pc[p] = "refetch" /\ Raise(p, "conflict")
               \/ /\ slot[key(p)] \in Values
                  /\ \/ call[p].op = "read" /\ Answer(p, slot[key(p)])
                     \/ call[p].op = "write" /\ Compare(p)
            /\ UNCHANGED <<slot, call, told>>

\* write() reads the slot again for its ETag.  It goes on only from a pending
\* slot, so the ETag it holds is that of the pending body.
FetchEtag(p) == /\ pc[p] = "etag"
                /\ \/ slot[key(p)] = Absent /\ Raise(p, "failed")
                   \/ slot[key(p)] = Pending /\ Continue(p, "swap")
                   \/ slot[key(p)] \in Values /\ Compare(p)
                /\ UNCHANGED <<slot, call, told>>

\* A fault: IfMatch is forgotten.
EtagIgnored(p) == TRUE

\* S3 lets the conditional put through while the body is still the pending one.
EtagMatches(p) == slot[key(p)] = Pending

\* The commit: PutObject under IfMatch.  When the answer is lost the SDK sends
\* the put again, which the committed slot then refuses.
Swap(p) == /\ pc[p] = "swap"
           /\ EtagMatches(p)
           /\ slot' = [slot EXCEPT ![key(p)] = call[p].value]
           /\ \/ Answer(p, call[p].value)
              \/ Continue(p, "reensure")
           /\ UNCHANGED <<call, told>>

\* A fault: the slot is not read again.
SwapRefusedIsConflict(p) ==
  /\ pc[p] = "swap"
  /\ Raise(p, "conflict")
  /\ UNCHANGED <<slot, call, told>>

\* A refused commit (412, or 409 with no effect) reads the slot again.
SwapRefused(p) == /\ pc[p] = "swap"
                  /\ Continue(p, "reensure")
                  /\ UNCHANGED <<slot, call, told>>

\* The call returns: a completed value is now known to the caller.
Return(p) == /\ pc[p] = "return"
             /\ told' = told \cup ({<<key(p), got[p]>>} \cap (Keys \X Values))
             /\ Goto(p, "idle")
             /\ UNCHANGED <<slot, call, got>>

\* A request fails with any other error, or the process stops.  Following a
\* put, this is also the put whose answer never came.
Fail(p) == /\ pc[p] \in Active
           /\ Goto(p, "failed")
           /\ UNCHANGED <<slot, call, got, told>>

Step(p) == \/ Create(p) \/ CreateRefused(p)
           \/ Fetch(p) \/ FetchEtag(p)
           \/ Swap(p) \/ SwapRefused(p)
           \/ Return(p)

Next == \E p \in Procs : \/ \E c \in Calls : Begin(p, c)
                         \/ Step(p)
                         \/ Fail(p)

Spec == Init /\ [][Next]_vars

-----------------------------------------------------------------------------
\* Whatever read() returned, and whatever write() accepted, is what the slot
\* holds from then on: no two callers are ever told different values for a key.
ToldIsDurable == \A kv \in told : slot[kv[1]] = kv[2]

\* write() raises "Conflicting completed" or "Concurrent checkpoint conflict"
\* only when its value is not the durable one: a commit whose answer was lost
\* is recognised, not reported as somebody else's.
ConflictIsReal == [][ \A p \in Procs :
                        (pc[p] # "conflict" /\ pc'[p] = "conflict")
                          => slot'[key(p)] # call[p].value ]_vars

\* The slots are write-once registers: creating a pending slot changes nothing
\* a caller can see, and a completed value is never replaced.
Completed == [k \in Keys |-> IF slot[k] \in Values THEN slot[k] ELSE None]

Store == INSTANCE WriteOnce WITH reg <- Completed

ImplementsWriteOnce == Store!Spec
=============================================================================
