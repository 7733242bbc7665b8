------------------------------- MODULE Import -------------------------------
(***************************************************************************)
(* What the import of a page's history promises, on whatever platform and  *)
(* however many runs there are: the archive only grows, and only by what a *)
(* run was given that is under way; the page is marked 'success' only by a *)
(* run that has archived all it was given, and 'failed' by one that broke  *)
(* off. On a lenient platform a run may give up a dialog as a whole.       *)
(***************************************************************************)
CONSTANTS Runs, Dialogs   \* a dialog is the set of its messages

VARIABLES lenient, posted, archive, due, phase, status

import == <<lenient, posted, archive, due, phase, status>>

UnderWay == {"working", "declared", "failing"}

Init ==
    /\ lenient \in BOOLEAN
    /\ posted = {} /\ archive = {}
    /\ due = [r \in Runs |-> {}]
    /\ phase = [r \in Runs |-> "new"]
    /\ status = "pending"

Post ==
    /\ UNCHANGED <<lenient, archive, phase, status>>
    /\ posted \subseteq posted'
    /\ UNCHANGED due

Goto(r, from, to) == phase[r] = from /\ phase' = [phase EXCEPT ![r] = to]

Start(r) ==
    /\ Goto(r, "new", "working") \/ Goto(r, "new", "ended")
    /\ status' = "syncing"
    /\ UNCHANGED <<lenient, posted, archive, due>>

Take(r) ==
    /\ phase[r] = "working"
    /\ UNCHANGED <<status, archive, phase, lenient, posted>>
    /\ due[r] \subseteq due'[r] /\ due'[r] \subseteq due[r] \cup posted
    /\ due' = [due EXCEPT ![r] = due'[r]]

Keep(r) ==
    /\ phase[r] = "working"
    /\ archive \subseteq archive' /\ archive' \subseteq archive \cup due[r]
    /\ UNCHANGED <<lenient, posted, phase, status, due>>

GiveUp(r, dialog) ==
    /\ phase[r] = "working" /\ lenient
    /\ UNCHANGED <<lenient, posted, archive, phase, status>>
    /\ due' = [due EXCEPT ![r] = @ \ dialog]

(* The mark is written; its writer may not hear of it. *)
Declare(r) ==
    /\ due[r] \subseteq archive
    /\ \/ Goto(r, "working", "declared") /\ UNCHANGED due
       \/ Goto(r, "working", "failing") /\ due' = [due EXCEPT ![r] = {}]
    /\ status' = "success"
    /\ UNCHANGED <<lenient, posted, archive>>

Finish(r) ==
    /\ Goto(r, "declared", "ended")
    /\ UNCHANGED <<lenient, posted, archive, due, status>>

Break(r) ==
    /\ Goto(r, "working", "failing") \/ Goto(r, "declared", "failing")
    /\ due' = [due EXCEPT ![r] = {}]
    /\ UNCHANGED <<lenient, posted, archive, status>>

Fail(r) ==
    /\ Goto(r, "failing", "ended")
    /\ status' \in {status, "failed"}
    /\ UNCHANGED <<lenient, posted, archive, due>>

Die(R) ==
    /\ \A r \in R : phase[r] \in UnderWay
    /\ phase' = [r \in Runs |-> IF r \in R THEN "ended" ELSE phase[r]]
    /\ due' = [r \in Runs |-> IF r \in R THEN {} ELSE due[r]]
    /\ UNCHANGED <<lenient, posted, archive, status>>

Next ==
    \/ Post
    \/ \E r \in Runs :
         \/ Start(r) \/ Take(r) \/ Keep(r) \/ Declare(r) \/ Finish(r)
         \/ Break(r) \/ Fail(r)
         \/ \E dialog \in Dialogs : GiveUp(r, dialog)
    \/ \E R \in SUBSET Runs : Die(R)

Spec == Init /\ [][Next]_import
=============================================================================
