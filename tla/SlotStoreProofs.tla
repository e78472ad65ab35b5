-------------------------- MODULE SlotStoreProofs --------------------------
(***************************************************************************)
(* The slot store for any number of processes, keys and values: types, the *)
(* durability of whatever was reported, and the refinement of WriteOnce.   *)
(***************************************************************************)
EXTENDS SlotStore, TLAPS

-----------------------------------------------------------------------------
\* What a call carries.
LEMMA CallsType == \A c \in Calls : /\ c.key \in Keys
                                    /\ c.op \in {"read", "write"}
                                    /\ c.op = "write" => c.value \in Values
                                    /\ c.op = "read" => c.value = None
  BY DEF Calls

\* Types: in particular what a call returns is a value or nothing, and a call
\* past its first read is a write.
THEOREM TypeCorrect == Spec => []TypeOK
<1>1. Init => TypeOK
  BY DEF Init, TypeOK, Ended, Active
<1>2. TypeOK /\ [Next]_vars => TypeOK'
  <2>. SUFFICES ASSUME TypeOK, [Next]_vars PROVE TypeOK'
    OBVIOUS
  <2>. USE CallsType DEF TypeOK, Ended, Active, key, Goto, Answer, Raise, Continue
  <2>1. CASE UNCHANGED vars
    BY <2>1 DEF vars
  <2>2. ASSUME NEW p \in Procs, NEW c \in Calls, Begin(p, c) PROVE TypeOK'
    BY <2>2 DEF Begin
  <2>3. ASSUME NEW p \in Procs, Create(p) PROVE TypeOK'
    BY <2>3 DEF Create, AfterEnsure
  <2>4. ASSUME NEW p \in Procs, CreateRefused(p) PROVE TypeOK'
    BY <2>4 DEF CreateRefused, AfterEnsure
  <2>5. ASSUME NEW p \in Procs, Fetch(p) PROVE TypeOK'
    BY <2>5 DEF Fetch, Compare
  <2>6. ASSUME NEW p \in Procs, FetchEtag(p) PROVE TypeOK'
    BY <2>6 DEF FetchEtag, Compare
  <2>7. ASSUME NEW p \in Procs, Swap(p) PROVE TypeOK'
    BY <2>7 DEF Swap, EtagMatches
  <2>8. ASSUME NEW p \in Procs, SwapRefused(p) PROVE TypeOK'
    BY <2>8 DEF SwapRefused
  <2>9. ASSUME NEW p \in Procs, Return(p) PROVE TypeOK'
    BY <2>9 DEF Return
  <2>10. ASSUME NEW p \in Procs, Fail(p) PROVE TypeOK'
    BY <2>10 DEF Fail
  <2>. QED
    BY <2>1, <2>2, <2>3, <2>4, <2>5, <2>6, <2>7, <2>8, <2>9, <2>10 DEF Next, Step
<1>. QED
  BY <1>1, <1>2, PTL DEF Spec

-----------------------------------------------------------------------------
(***************************************************************************)
(* A reported pair is durable because the call that reported it returned a *)
(* durable value, and no step takes a completed value away.                *)
(***************************************************************************)
ReturnIsDurable == \A p \in Procs : pc[p] = "return" /\ got[p] # None => slot[key(p)] = got[p]

DurableInv == TypeOK /\ ReturnIsDurable /\ ToldIsDurable

\* A slot only ever goes from absent to pending to complete.
LEMMA SlotsAdvance ==
  ASSUME TypeOK, [Next]_vars
  PROVE  \A k \in Keys : \/ slot'[k] = slot[k]
                         \/ slot[k] = Absent /\ slot'[k] = Pending
                         \/ slot[k] = Pending /\ slot'[k] \in Values
<1>. USE CallsType DEF TypeOK, Active, key
<1>1. CASE UNCHANGED slot
  BY <1>1
<1>2. ASSUME NEW p \in Procs, Create(p)
      PROVE  \A k \in Keys : slot'[k] = slot[k] \/ (slot[k] = Absent /\ slot'[k] = Pending)
  BY <1>2 DEF Create
<1>3. ASSUME NEW p \in Procs, Swap(p)
      PROVE  \A k \in Keys : slot'[k] = slot[k] \/ (slot[k] = Pending /\ slot'[k] \in Values)
  BY <1>3 DEF Swap, EtagMatches
<1>. QED
  BY <1>1, <1>2, <1>3
     DEF Next, Step, vars, Begin, CreateRefused, Fetch, FetchEtag, SwapRefused, Return, Fail

\* A completed value stays.
LEMMA CompletedStays ==
  ASSUME TypeOK, [Next]_vars, NEW k \in Keys, slot[k] \in Values
  PROVE  slot'[k] = slot[k]
  BY SlotsAdvance, SlotAssumption DEF TypeOK

\* No two callers are ever told different values for a key: what a read
\* returned, or a write accepted, is what the slot holds from then on.
THEOREM DurableTold == Spec => []ToldIsDurable
<1>1. Init => DurableInv
  BY DEF Init, DurableInv, TypeOK, Ended, Active, ReturnIsDurable, ToldIsDurable
<1>2. DurableInv /\ TypeOK' /\ [Next]_vars => DurableInv'
  <2>. SUFFICES ASSUME DurableInv, TypeOK', [Next]_vars PROVE ReturnIsDurable' /\ ToldIsDurable'
    BY DEF DurableInv
  <2>. USE DEF DurableInv
  <2>1. ReturnIsDurable'
    <3>. SUFFICES ASSUME NEW p \in Procs, pc'[p] = "return", got'[p] # None
                  PROVE  slot'[key(p)'] = got'[p]
      BY DEF ReturnIsDurable
    <3>1. CASE pc[p] = "return" /\ got'[p] = got[p] /\ call'[p] = call[p]
      <4>1. slot[key(p)] = got[p] /\ key(p) \in Keys /\ got[p] \in Values
        BY <3>1, CallsType DEF ReturnIsDurable, TypeOK, key, Active
      <4>. QED
        BY <3>1, <4>1, CompletedStays DEF key
    <3>2. CASE Fetch(p)
      BY <3>2, CallsType DEF Fetch, Compare, Answer, Raise, Continue, Goto, TypeOK, Active, key
    <3>3. CASE FetchEtag(p)
      BY <3>3, CallsType DEF FetchEtag, Compare, Answer, Raise, Continue, Goto, TypeOK, Active, key
    <3>4. CASE Swap(p)
      BY <3>4, CallsType DEF Swap, Answer, Raise, Continue, Goto, TypeOK, Active, key
    <3>. QED
      <4>1. CASE UNCHANGED vars
        BY <4>1, <3>1 DEF vars
      <4>2. ASSUME NEW q \in Procs, q # p, (\E c \in Calls : Begin(q, c)) \/ Step(q) \/ Fail(q)
            PROVE  pc[p] = "return" /\ got'[p] = got[p] /\ call'[p] = call[p]
        BY <4>2 DEF Step, Begin, Create, CreateRefused, Fetch, FetchEtag, Swap, SwapRefused,
             Return, Fail, Compare, Answer, Raise, Continue, Goto, TypeOK
      <4>3. ASSUME (\E c \in Calls : Begin(p, c)) \/ Create(p) \/ CreateRefused(p)
                     \/ SwapRefused(p) \/ Return(p) \/ Fail(p)
            PROVE  FALSE
        BY <4>3 DEF Begin, Create, CreateRefused, SwapRefused, Return, Fail,
             AfterEnsure, Continue, Goto, TypeOK
      <4>. QED
        BY <3>1, <3>2, <3>3, <3>4, <4>1, <4>2, <4>3 DEF Next, Step
  <2>2. ToldIsDurable'
    <3>. SUFFICES ASSUME NEW kv \in told' PROVE slot'[kv[1]] = kv[2]
      BY DEF ToldIsDurable
    <3>1. CASE kv \in told
      BY <3>1, CompletedStays DEF ToldIsDurable, TypeOK
    <3>2. ASSUME NEW p \in Procs, Return(p), kv \notin told PROVE slot'[kv[1]] = kv[2]
      BY <3>2, SlotAssumption DEF Return, ReturnIsDurable, TypeOK, key
    <3>. QED
      BY <3>1, <3>2 DEF Next, Step, vars, Begin, Create, CreateRefused, Fetch, FetchEtag,
           Swap, SwapRefused, Fail
  <2>. QED
    BY <2>1, <2>2
<1>3. DurableInv => ToldIsDurable
  BY DEF DurableInv
<1>. QED
  BY <1>1, <1>2, <1>3, TypeCorrect, PTL DEF Spec

-----------------------------------------------------------------------------
\* write() reports a conflict only when its value is not the durable one: a
\* commit whose answer was lost is recognised.
ConflictStep == \A p \in Procs : (pc[p] # "conflict" /\ pc'[p] = "conflict")
                                   => slot'[key(p)] # call[p].value

THEOREM RealConflicts == Spec => ConflictIsReal
<1>1. TypeOK /\ [Next]_vars => [ConflictStep]_vars
  <2>. SUFFICES ASSUME TypeOK, [Next]_vars, NEW p \in Procs,
                       pc[p] # "conflict", pc'[p] = "conflict"
                PROVE  slot'[key(p)] # call[p].value
    BY DEF ConflictStep
  <2>1. Fetch(p) \/ FetchEtag(p)
    <3>1. ASSUME NEW q \in Procs, q # p, (\E c \in Calls : Begin(q, c)) \/ Step(q) \/ Fail(q)
          PROVE  pc'[p] = pc[p]
      BY <3>1 DEF Step, Begin, Create, CreateRefused, Fetch, FetchEtag, Swap, SwapRefused,
           Return, Fail, Compare, Answer, Raise, Continue, Goto, TypeOK
    <3>2. ASSUME (\E c \in Calls : Begin(p, c)) \/ Create(p) \/ CreateRefused(p) \/ Swap(p)
                   \/ SwapRefused(p) \/ Return(p) \/ Fail(p)
          PROVE  pc'[p] # "conflict"
      BY <3>2 DEF Begin, Create, CreateRefused, Swap, SwapRefused, Return, Fail,
           AfterEnsure, Answer, Continue, Goto, TypeOK
    <3>3. CASE UNCHANGED vars
      BY <3>3 DEF vars
    <3>. QED
      BY <3>1, <3>2, <3>3 DEF Next, Step
  <2>2. call[p] \in Calls /\ UNCHANGED slot
    BY <2>1 DEF Fetch, FetchEtag, TypeOK, Active
  <2>. QED
    BY <2>1, <2>2, CallsType, SlotAssumption
       DEF Fetch, FetchEtag, Compare, Answer, Raise, Continue, Goto, TypeOK
<1>. QED
  BY <1>1, TypeCorrect, PTL DEF Spec, ConflictIsReal, ConflictStep

-----------------------------------------------------------------------------
\* The slots implement write-once registers: only a commit into a slot that is
\* not complete changes what a caller can see.
THEOREM Refinement == Spec => ImplementsWriteOnce
<1>1. Init => Store!Init
  BY SlotAssumption DEF Init, Store!Init, Completed
<1>2. TypeOK /\ [Next]_vars => [Store!Next]_Completed
  <2>. SUFFICES ASSUME TypeOK, [Next]_vars, Completed' # Completed PROVE Store!Next
    OBVIOUS
  <2>1. PICK p \in Procs : Swap(p)
    <3>1. ASSUME NEW p \in Procs, Create(p) PROVE Completed' = Completed
      BY <3>1, SlotAssumption DEF Create, Completed, TypeOK
    <3>2. CASE UNCHANGED slot
      BY <3>2 DEF Completed
    <3>. QED
      BY <3>1, <3>2 DEF Next, Step, vars, Begin, CreateRefused, Fetch, FetchEtag, SwapRefused,
           Return, Fail
  <2>. DEFINE k == key(p)
              v == call[p].value
  <2>2. k \in Keys /\ v \in Values
    BY <2>1, CallsType DEF Swap, TypeOK, Active, key
  <2>3. Completed[k] = None
    BY <2>1, <2>2, SlotAssumption DEF Swap, EtagMatches, Completed
  <2>4. Completed' = [Completed EXCEPT ![k] = v]
    <3>1. slot' = [slot EXCEPT ![k] = v]
      BY <2>1 DEF Swap
    <3>. QED
      BY <3>1, <2>2 DEF Completed, TypeOK
  <2>5. Store!Commit(k, v)
    BY <2>3, <2>4 DEF Store!Commit
  <2>. QED
    BY <2>2, <2>5 DEF Store!Next
<1>. QED
  BY <1>1, <1>2, TypeCorrect, PTL DEF Spec, ImplementsWriteOnce, Store!Spec
=============================================================================
