----------------------------- MODULE Dictionary -----------------------------
(***************************************************************************)
(* What base/hash.h promises: a map from keys to values.  A key that is    *)
(* not found has the value NULL.                                           *)
(***************************************************************************)
CONSTANTS Keys, Values, NULL, NoCall

VARIABLES dict,     \* what hashmap_get returns for each key
          call      \* the call of hashmap_put in progress: a key and its value

Calls == Keys \X Values

Init == /\ dict = [k \in Keys |-> NULL]
        /\ call = NoCall

Begin(k, v) == /\ call = NoCall
               /\ call' = <<k, v>>
               /\ UNCHANGED dict

End == /\ call \in Calls
       /\ dict' = [dict EXCEPT ![call[1]] = call[2]]
       /\ call' = NoCall

Next == \/ \E k \in Keys, v \in Values : Begin(k, v)
        \/ End

Spec == Init /\ [][Next]_<<dict, call>>
=============================================================================
