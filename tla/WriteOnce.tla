----------------------------- MODULE WriteOnce -----------------------------
(***************************************************************************)
(* What a durable store of the system promises its callers: a key is empty *)
(* until one value is committed to it, and that value never changes.  The  *)
(* S3 slots of lava.retrieval.storage are shown to implement this module.  *)
(***************************************************************************)
CONSTANTS Keys,     \* the names a value can be stored under
          Values,   \* the values that can be stored
          None      \* "nothing stored": not a value

VARIABLE reg        \* reg[k] is the committed value of key k, or None

Init == reg = [k \in Keys |-> None]

\* The one transition of a key: from empty to its final value.
Commit(k, v) == /\ reg[k] = None
                /\ reg' = [reg EXCEPT ![k] = v]

Next == \E k \in Keys, v \in Values : Commit(k, v)

Spec == Init /\ [][Next]_reg
=============================================================================
