----------------------------- MODULE AtomicFile -----------------------------
(***************************************************************************)
(* A file that is only ever replaced as a whole: whoever opens it finds a  *)
(* value that was put there in one step, whatever was interrupted since.   *)
(* A crash of the machine may bring an earlier value back.                 *)
(***************************************************************************)
CONSTANTS Values, Missing

VARIABLES value, past    \* past: everything the file has been

Init == value = Missing /\ past = {Missing}

Put(v) == value' = v /\ past' = past \cup {v}

Revert(v) == v \in past /\ value' = v /\ UNCHANGED past

Next == (\E v \in Values : Put(v)) \/ (\E v \in past : Revert(v))

Spec == Init /\ [][Next]_<<value, past>>
=============================================================================
