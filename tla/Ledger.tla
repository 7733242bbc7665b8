------------------------------- MODULE Ledger -------------------------------
(***************************************************************************)
(* What the inbox promises of the customer's messages, whoever delivers    *)
(* them and however often: what was stored stays, a message is added to    *)
(* the unread counter at most once and only after it was stored, and it is *)
(* announced to the page's agents at most once and only after it counted.  *)
(***************************************************************************)
CONSTANT Messages

VARIABLES stored, counted, announced

ledger == <<stored, counted, announced>>

Init ==
    /\ stored = {}
    /\ counted = {}
    /\ announced = {}

Store(new) ==
    /\ stored' = stored \cup new
    /\ UNCHANGED <<counted, announced>>

Count(m) ==
    /\ m \in stored
    /\ m \notin counted
    /\ counted' = counted \cup {m}
    /\ UNCHANGED <<stored, announced>>

Announce(m) ==
    /\ m \in counted
    /\ m \notin announced
    /\ announced' = announced \cup {m}
    /\ UNCHANGED <<stored, counted>>

Next ==
    \/ \E new \in SUBSET Messages : Store(new)
    \/ \E m \in Messages : Count(m) \/ Announce(m)

Spec == Init /\ [][Next]_ledger
=============================================================================
