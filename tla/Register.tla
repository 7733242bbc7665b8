------------------------------ MODULE Register ------------------------------
(***************************************************************************)
(* What the pages promise, without tables, requests or statements. A page  *)
(* is registered once; its token is then awaited and either comes, and the *)
(* page holds one for good, or is lost for good. A user has one role in a  *)
(* page at most, and only by leaving or becoming administrator another.    *)
(***************************************************************************)
CONSTANTS Pages, Users, Roles, Admin

VARIABLES
    state, \* of each page: "unknown", "awaited", "held" or "lost"
    roles  \* of each user in each page: no role, or one

register == <<state, roles>>

Init ==
    /\ state = [p \in Pages |-> "unknown"]
    /\ roles = [x \in Users \X Pages |-> {}]

Enter(p)    == state[p] = "unknown" /\ state'[p] = "awaited"
Complete(p) == state[p] = "awaited" /\ state'[p] = "held"
Lose(p)     == state[p] = "awaited" /\ state'[p] = "lost"

PageMoves ==
    /\ state' # state
    /\ UNCHANGED roles
    /\ \E p \in Pages :
          /\ Enter(p) \/ Complete(p) \/ Lose(p)
          /\ state' = [state EXCEPT ![p] = state'[p]]

Join(x, role) == state[x[2]] # "unknown" /\ roles[x] = {} /\ roles'[x] = {role}
Raise(x)      == roles[x] # {} /\ roles'[x] = {Admin}
Leave(x)      == roles[x] # {} /\ roles'[x] = {}

RoleChanges ==
    /\ roles' # roles
    /\ UNCHANGED state
    /\ \E x \in Users \X Pages :
          /\ Raise(x) \/ Leave(x) \/ \E role \in Roles : Join(x, role)
          /\ roles' = [roles EXCEPT ![x] = roles'[x]]

Next == PageMoves \/ RoleChanges

Spec == Init /\ [][Next]_register
=============================================================================
