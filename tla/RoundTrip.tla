------------------------------ MODULE RoundTrip ------------------------------
(***************************************************************************)
(* What a codec of this crate promises, whatever the type.  A session      *)
(* starts either with a value a caller built or with bytes from a peer     *)
(* that no value stands for yet.  The bytes are read into a value or       *)
(* refused.  From then on the value may be encoded and decoded any number  *)
(* of times and never changes, is never refused, and encoding never fails. *)
(***************************************************************************)
CONSTANTS Value,
          NoValue       \* stands for "no value yet"; not in Value

VARIABLES value, status
vars == <<value, status>>

TypeOK == /\ value \in Value \cup {NoValue}
          /\ status \in {"reading", "held", "refused"}

Init == \/ value \in Value /\ status = "held"
        \/ value = NoValue /\ status = "reading"

Accept == /\ status = "reading"
          /\ value' \in Value
          /\ status' = "held"

Refuse == /\ status = "reading"
          /\ status' = "refused"
          /\ UNCHANGED value

Next == Accept \/ Refuse

Spec == Init /\ [][Next]_vars
=============================================================================
