------------------------------ MODULE Register ------------------------------
(***************************************************************************)
(* What the two flash slots of the storage backend promise a reader: one   *)
(* record that is read, and at most one older record beneath it.           *)
(*   - Between operations, and across a power cut, the record read stays.  *)
(*   - A write replaces it in two steps: it is first torn, that is, under  *)
(*     its new header without its new contents, and then whole.  A write   *)
(*     that is cut or fails stops before or between them; the record read  *)
(*     before is then still beneath, and a write never brings back a       *)
(*     record older than the one that was read when it began.              *)
(*   - Only wiping and rewriting in place take the record read away.       *)
(***************************************************************************)
CONSTANTS Records, Torn, None  \* three kinds of contents, all different

VARIABLES
    value,   \* the record a read returns
    beneath, \* the record it hides
    task     \* the operation under way

Writes == [kind : {"write"}, record : Records]

Idle == [kind |-> "idle"]
Rewrite == [kind |-> "rewrite"]
Wipe == [kind |-> "wipe"]

Init == value = None /\ beneath = None /\ task = Idle

Begin ==
    /\ task = Idle
    /\ task' \in Writes \cup {Rewrite, Wipe}
    /\ UNCHANGED <<value, beneath>>

\* An operation ends: it is done, it failed, or power was cut.
End == task' = Idle /\ UNCHANGED <<value, beneath>>

\* The last step of a wipe also ends it.
MayEnd == task' = task \/ (task = Wipe /\ task' = Idle)

Forget == task # Idle /\ beneath' = None /\ MayEnd /\ UNCHANGED value

Tear ==
    /\ task.kind \in {"write", "rewrite"}
    /\ value' = Torn /\ beneath' = value
    /\ UNCHANGED task

Complete ==
    /\ value = Torn
    /\ \/ task.kind = "write" /\ value' = task.record
       \/ task.kind = "rewrite" /\ value' \in Records \cup {Torn}
    /\ task' = Idle /\ UNCHANGED beneath

FallBack ==
    /\ task.kind \in {"rewrite", "wipe"} \/ (task.kind = "write" /\ value = Torn)
    /\ value' = beneath /\ beneath' = None
    /\ MayEnd

Next == Begin \/ End \/ Forget \/ Tear \/ Complete \/ FallBack

Spec == Init /\ [][Next]_<<value, beneath, task>>

=============================================================================
