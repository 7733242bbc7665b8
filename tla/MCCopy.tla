------------------------------- MODULE MCCopy -------------------------------
(* Instances of Copy for TLC: page p is copied into page q. *)
EXTENDS Copy, TLC

CONSTANTS p, q, n1, n2, c1, c2, v1

Symmetry == Permutations(Requests)

(* q hides a label of p's; the two pages have a category of one name; rows  *)
(* copied without a landing page have the categories of q.                  *)
MCLabels ==
    {[id |-> 1, page |-> p, name |-> n1, hidden |-> FALSE],
     [id |-> 2, page |-> p, name |-> n2, hidden |-> FALSE],
     [id |-> 3, page |-> q, name |-> n1, hidden |-> TRUE],
     [id |-> 4, page |-> NoPage, name |-> n1, hidden |-> FALSE]}
MCCategories ==
    {[id |-> 1, page |-> p, name |-> n1], [id |-> 2, page |-> p, name |-> n2],
     [id |-> 3, page |-> q, name |-> n2]}
MCReplies ==
    {[id |-> 1, page |-> p, content |-> c1, category |-> 1],
     [id |-> 2, page |-> p, content |-> c1, category |-> 1],
     [id |-> 3, page |-> p, content |-> c2, category |-> 2],
     [id |-> 4, page |-> q, content |-> c2, category |-> 3],
     [id |-> 5, page |-> NoPage, content |-> c2, category |-> 3]}

CopyJob(op, keys, to, replace) ==
    [op |-> op, keys |-> keys, source |-> p, landing |-> to, replace |-> replace]

MCLabelJobs ==
    {CopyJob("copyLabels", <<1, 2>>, q, TRUE), CopyJob("copyLabels", <<1, 2>>, q, FALSE),
     CopyJob("copyLabels", <<1>>, p, TRUE),
     CopyJob("copyLabels", <<1, 2>>, NoPage, TRUE), CopyJob("copyLabels", <<1>>, NoPage, FALSE),
     [op |-> "createLabel", page |-> q, name |-> n2],
     [op |-> "updateLabel", id |-> 2, name |-> n1, hidden |-> FALSE],
     [op |-> "updateLabel", id |-> 3, name |-> n2, hidden |-> FALSE],
     [op |-> "deleteLabels", ids |-> {2}],
     [op |-> "tag", conversation |-> v1, label |-> 1],
     [op |-> "tag", conversation |-> v1, label |-> 3]}
MCReplyJobs ==
    {CopyJob("copyReplies", <<1, 2, 3>>, q, TRUE), CopyJob("copyReplies", <<3, 1, 2>>, q, FALSE),
     CopyJob("copyReplies", <<1, 4>>, NoPage, TRUE), CopyJob("copyReplies", <<3, 1>>, NoPage, FALSE),
     [op |-> "createCategory", page |-> q, name |-> n1],
     [op |-> "updateCategory", id |-> 1, name |-> n2],
     [op |-> "updateCategory", id |-> 3, name |-> n1],
     [op |-> "deleteCategories", ids |-> {1}], [op |-> "deleteCategories", ids |-> {3}],
     [op |-> "createReply", page |-> q, content |-> c1, category |-> 3],
     [op |-> "updateReply", id |-> 4, content |-> c1, category |-> 3],
     [op |-> "deleteReplies", ids |-> {2, 4}]}

(* The two kinds of rows share nothing; at most two of three jobs copy. *)
MCMixes ==
    {f \in [Requests -> MCLabelJobs] \cup [Requests -> MCReplyJobs] :
        \E r \in Requests : f[r].op \notin {"copyLabels", "copyReplies"}}
=============================================================================
