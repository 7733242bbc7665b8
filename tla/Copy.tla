-------------------------------- MODULE Copy --------------------------------
(***************************************************************************)
(* Labels, quick replies and their categories, copied between pages.       *)
(*                                                                         *)
(* A copy walks through the selected rows and inserts into the landing     *)
(* page what it lacks, one statement after the other and without a         *)
(* transaction; in the mode 'replace' it empties the landing page first.   *)
(* Edits of the rows, and labels put on conversations, run beside it.      *)
(* Each request serves one job; its statements or its process may fail.    *)
(***************************************************************************)
EXTENDS Naturals, Sequences, FiniteSets

CONSTANTS
    Requests, Pages, Conversations,
    Names,      \* of labels and categories
    Contents,   \* of quick replies
    NoText, Nobody,
    NoPage,     \* a fanpage_id that is NULL or undefined
    Mixes,      \* functions from Requests to jobs
    Labels0, Categories0, Replies0, Last0  \* the tables at first

VARIABLES
    labels, categories, replies, \* the tables, sets of rows
    tags,    \* conversation_labels
    pushed,  \* labels shown on conversations on the agents' screens
    last,    \* the last id given
    job,     \* what each request is to do
    pc,      \* where each request is suspended
    at,      \* the key its loop has come to
    hand,    \* the row it has read
    cache,   \* categoryCache, as pairs of ids
    alone,   \* the last request to begin, if no other one was under way (history)
    before   \* the tables when it began, else those at first (history)

vars == <<labels, categories, replies, tags, pushed, last, job, pc, at, hand, cache, alone, before>>

(* A row's category 0 is NULL. A copy's landing page is optional. *)
PageId   == Pages \cup {NoPage}
Label    == [id : Nat, page : PageId, name : Names, hidden : BOOLEAN]
Category == [id : Nat, page : PageId, name : Names]
Reply    == [id : Nat, page : PageId, content : Contents, category : Nat]
Read     == [content : Contents \cup {NoText}, category : Nat, name : Names \cup {NoText}]
Job ==
    [op : {"copyLabels", "copyReplies"}, keys : Seq(Nat), source : Pages, landing : PageId,
     replace : BOOLEAN]
        \cup [op : {"createLabel", "createCategory"}, page : Pages, name : Names]
        \cup [op : {"updateLabel"}, id : Nat, name : Names, hidden : BOOLEAN]
        \cup [op : {"updateCategory"}, id : Nat, name : Names]
        \cup [op : {"createReply"}, page : Pages, content : Contents, category : Nat]
        \cup [op : {"updateReply"}, id : Nat, content : Contents, category : Nat]
        \cup [op : {"deleteLabels", "deleteCategories", "deleteReplies"}, ids : SUBSET Nat]
        \cup [op : {"tag"}, conversation : Conversations, label : Nat]

ASSUME CopyAssumption ==
    /\ Labels0 \subseteq Label /\ Categories0 \subseteq Category /\ Replies0 \subseteq Reply
    /\ Last0 \in Nat /\ Mixes \subseteq [Requests -> Job]
    /\ Nobody \notin Requests /\ NoPage \notin Pages
    /\ \A T \in {Labels0, Categories0, Replies0} :
          /\ \A x \in T : x.id \in 1 .. Last0
          /\ \A x, y \in T : x.id = y.id => x = y

(* No statement compares the page of a reply with that of its category: the *)
(* screens offer the agent the categories that the reply's page has.        *)
ASSUME CategoriesOffered ==
    /\ \A x \in Replies0 : x.category # 0 =>
          \E c \in Categories0 : c.id = x.category /\ x.page \in {NoPage, c.page}
    /\ \A f \in Mixes, r \in Requests :
          /\ f[r].op \in {"createReply", "updateReply"} => f[r].category <= Last0
          /\ f[r].op = "createReply" =>
                \A c \in Categories0 : c.id = f[r].category => c.page = f[r].page
          /\ f[r].op = "updateReply" =>
                /\ f[r].id <= Last0
                /\ \A x \in Replies0, c \in Categories0 :
                      x.id = f[r].id /\ c.id = f[r].category => x.page \in {NoPage, c.page}

(* An agent selects among replies that are there, in the list of a page. *)
ASSUME SelectionShown ==
    \A f \in Mixes, r \in Requests : f[r].op = "copyReplies" =>
        \A k \in DOMAIN f[r].keys :
            /\ f[r].keys[k] <= Last0
            /\ \A x \in Replies0 : x.id = f[r].keys[k] => x.page # NoPage

(* What each suspended request does next. *)
Suspended == {"label", "existing", "saveLabel", "categories", "reply", "category",
              "saveCategory", "saveReply", "tag"}

Nothing == [content |-> NoText, category |-> 0, name |-> NoText]
Tables  == [labels |-> labels, categories |-> categories, replies |-> replies]
Tables0 == [labels |-> Labels0, categories |-> Categories0, replies |-> Replies0]

TypeOK ==
    /\ labels \subseteq Label /\ categories \subseteq Category /\ replies \subseteq Reply
    /\ tags \subseteq Conversations \X Nat
    /\ pushed \subseteq Conversations \X Nat
    /\ last \in Nat
    /\ job \in [Requests -> Job]
    /\ pc \in [Requests -> Suspended \cup {"new", "done", "failed"}]
    /\ at \in [Requests -> Nat \ {0}]
    /\ hand \in [Requests -> Read]
    /\ cache \in [Requests -> SUBSET (Nat \X Nat)]
    /\ alone \in Requests \cup {Nobody}

Init ==
    /\ labels = Labels0 /\ categories = Categories0 /\ replies = Replies0
    /\ tags = {} /\ pushed = {}
    /\ last = Last0
    /\ job \in Mixes
    /\ pc = [r \in Requests |-> "new"]
    /\ at = [r \in Requests |-> 1]
    /\ hand = [r \in Requests |-> Nothing]
    /\ cache = [r \in Requests |-> {}]
    /\ alone = Nobody
    /\ before = Tables0

table   == <<labels, categories, replies, last>>
screens == <<tags, pushed>>
local   == <<at, hand, cache>>
history == <<alone, before>>

Goto(r, label)    == pc' = [pc EXCEPT ![r] = label]
Step(r, from, to) == pc[r] = from /\ Goto(r, to)
Fails(r)          == Goto(r, "failed") /\ UNCHANGED table

(* A request comes in. *)
Enter(r, op) ==
    /\ pc[r] = "new" /\ job[r].op = op
    /\ alone' = IF \E s \in Requests : pc[s] \in Suspended THEN Nobody ELSE r
    /\ before' = IF alone' = r THEN Tables ELSE Tables0
    /\ UNCHANGED <<job, local>>

Ids(rows)           == {x.id : x \in rows}
OnPage(rows, p)     == {x \in rows : x.page = p}
WithId(rows, i)     == {x \in rows : x.id = i}

(* What a condition on fanpage_id selects: every row, if it is undefined. *)
Scope(rows, p)      == {x \in rows : p \in {NoPage, x.page}}
Named(rows, p, n)   == {x \in Scope(rows, p) : x.name = n}

(* The answer 23505 of a unique (fanpage_id, name), to which NULLs differ. *)
Clash(rows, p, n)   == p # NoPage /\ Named(rows, p, n) # {}

(* The foreign keys: the labels of a conversation go with the label, the    *)
(* category of a reply is set to NULL.                                      *)
DropLabels(S) ==
    /\ labels' = labels \ S
    /\ tags' = {t \in tags : t[2] \notin Ids(S)}
    /\ UNCHANGED <<categories, replies, last, pushed>>

DropCategories(S) ==
    /\ categories' = categories \ S
    /\ replies' = {IF x.category \in Ids(S) THEN [x EXCEPT !.category = 0] ELSE x : x \in replies}
    /\ UNCHANGED <<labels, last>>

InsertLabel(p, n) ==
    /\ labels' = labels \cup {[id |-> last + 1, page |-> p, name |-> n, hidden |-> FALSE]}
    /\ last' = last + 1
    /\ UNCHANGED <<categories, replies>>

InsertCategory(p, n) ==
    /\ categories' = categories \cup {[id |-> last + 1, page |-> p, name |-> n]}
    /\ last' = last + 1
    /\ UNCHANGED <<labels, replies>>

InsertReply(p, content, c) ==
    /\ replies' = replies \cup {[id |-> last + 1, page |-> p, content |-> content, category |-> c]}
    /\ last' = last + 1
    /\ UNCHANGED <<labels, categories>>

IsCategory(c) == c = 0 \/ c \in Ids(categories)

-----------------------------------------------------------------------------
(* Edits: one statement each, on labels, categories and replies.            *)

Saved(r) == Goto(r, "done")

CreateLabel(r) ==
    /\ Enter(r, "createLabel")
    /\ \/ /\ ~ Clash(labels, job[r].page, job[r].name) /\ Saved(r)
          /\ InsertLabel(job[r].page, job[r].name)
       \/ Clash(labels, job[r].page, job[r].name) /\ Fails(r)
    /\ UNCHANGED screens

UpdateLabel(r) ==
    LET new(x) == [x EXCEPT !.name = job[r].name, !.hidden = job[r].hidden]
        row    == WithId(labels, job[r].id)
        taken  == \E x \in row : Clash(labels \ row, x.page, job[r].name)
    IN
    /\ Enter(r, "updateLabel")
    /\ \/ /\ ~ taken /\ Saved(r)
          /\ labels' = (labels \ row) \cup {new(x) : x \in row}
          /\ UNCHANGED <<categories, replies, last>>
       \/ taken /\ Fails(r)
    /\ UNCHANGED screens

DeleteLabels(r) ==
    /\ Enter(r, "deleteLabels")
    /\ Saved(r)
    /\ DropLabels({x \in labels : x.id \in job[r].ids})

CreateCategory(r) ==
    /\ Enter(r, "createCategory")
    /\ \/ /\ ~ Clash(categories, job[r].page, job[r].name) /\ Saved(r)
          /\ InsertCategory(job[r].page, job[r].name)
       \/ Clash(categories, job[r].page, job[r].name) /\ Fails(r)
    /\ UNCHANGED screens

UpdateCategory(r) ==
    LET row   == WithId(categories, job[r].id)
        taken == \E x \in row : Clash(categories \ row, x.page, job[r].name)
    IN
    /\ Enter(r, "updateCategory")
    /\ \/ /\ ~ taken /\ Saved(r)
          /\ categories' = (categories \ row) \cup {[x EXCEPT !.name = job[r].name] : x \in row}
          /\ UNCHANGED <<labels, replies, last>>
       \/ taken /\ Fails(r)
    /\ UNCHANGED screens

DeleteCategories(r) ==
    /\ Enter(r, "deleteCategories")
    /\ Saved(r)
    /\ DropCategories({x \in categories : x.id \in job[r].ids})
    /\ UNCHANGED screens

CreateReply(r) ==
    /\ Enter(r, "createReply")
    /\ \/ /\ IsCategory(job[r].category) /\ Saved(r)
          /\ InsertReply(job[r].page, job[r].content, job[r].category)
       \/ ~ IsCategory(job[r].category) /\ Fails(r)
    /\ UNCHANGED screens

UpdateReply(r) ==
    LET new(x) == [x EXCEPT !.content = job[r].content, !.category = job[r].category]
        row    == WithId(replies, job[r].id)
        valid  == row = {} \/ IsCategory(job[r].category)
    IN
    /\ Enter(r, "updateReply")
    /\ \/ /\ valid /\ Saved(r)
          /\ replies' = (replies \ row) \cup {new(x) : x \in row}
          /\ UNCHANGED <<labels, categories, last>>
       \/ ~ valid /\ Fails(r)
    /\ UNCHANGED screens

DeleteReplies(r) ==
    /\ Enter(r, "deleteReplies")
    /\ Saved(r)
    /\ replies' = {x \in replies : x.id \notin job[r].ids}
    /\ UNCHANGED <<labels, categories, last, screens>>

-----------------------------------------------------------------------------
(* Labels of a conversation: the gateway's push, then the chat service's    *)
(* INSERT with its foreign key and its unique pair.                         *)

TagPush(r) ==
    /\ Enter(r, "tag")
    /\ Goto(r, "tag")
    /\ pushed' = pushed \cup {<<job[r].conversation, job[r].label>>}
    /\ UNCHANGED <<table, tags>>

(* Mutant of TagStore: set() in place of add(). *)
TagOnly(r) ==
    /\ Step(r, "tag", "done")
    /\ tags' = {t \in tags : t[1] # job[r].conversation}
                 \cup {<<job[r].conversation, job[r].label>>}
    /\ UNCHANGED <<table, pushed, job, local, history>>

TagStore(r) ==
    LET tag == <<job[r].conversation, job[r].label>> IN
    /\ pc[r] = "tag"
    /\ \/ /\ job[r].label \in Ids(labels) /\ tag \notin tags
          /\ Saved(r)
          /\ tags' = tags \cup {tag}
       \/ /\ job[r].label \notin Ids(labels) \/ tag \in tags
          /\ Goto(r, "failed")
          /\ UNCHANGED tags
    /\ UNCHANGED <<table, pushed, job, local, history>>

-----------------------------------------------------------------------------
(* Copies *)

Refused(r)  == job[r].source = job[r].landing
Boundless(r) == job[r].replace /\ job[r].landing = NoPage
MoreKeys(r) == at[r] \in DOMAIN job[r].keys
Key(r)      == job[r].keys[at[r]]
NextKey(r)  == at' = [at EXCEPT ![r] = @ + 1]

(* A delete with an undefined condition is refused or takes every row: the  *)
(* code leaves it to the version and the settings of TypeORM.               *)
CopyRefused(r) ==
    /\ \E op \in {"copyLabels", "copyReplies"} : Enter(r, op)
    /\ (Refused(r) \/ Boundless(r)) /\ Fails(r)
    /\ UNCHANGED screens

CopyDone(r) ==
    /\ pc[r] \in {"label", "reply"} /\ ~ MoreKeys(r)
    /\ Goto(r, "done")
    /\ UNCHANGED <<table, screens, job, local, history>>

CopyLabels(r) ==
    /\ Enter(r, "copyLabels") /\ ~ Refused(r)
    /\ Goto(r, "label")
    /\ \/ job[r].replace /\ DropLabels(Scope(labels, job[r].landing))
       \/ ~ job[r].replace /\ UNCHANGED <<table, screens>>

(* A label that is gone is a TypeError on null. *)
FindLabel(r) ==
    LET row == WithId(labels, Key(r)) IN
    /\ pc[r] = "label" /\ MoreKeys(r)
    /\ \/ row = {} /\ Goto(r, "failed") /\ UNCHANGED hand
       \/ \E x \in row :
             /\ Goto(r, "existing")
             /\ hand' = [hand EXCEPT ![r] = [Nothing EXCEPT !.name = x.name]]
    /\ UNCHANGED <<table, screens, job, at, cache, history>>

FindExisting(r) ==
    /\ pc[r] = "existing"
    /\ \/ /\ Named(labels, job[r].landing, hand[r].name) # {}
          /\ Goto(r, "label") /\ NextKey(r)
       \/ /\ Named(labels, job[r].landing, hand[r].name) = {}
          /\ Goto(r, "saveLabel") /\ UNCHANGED at
    /\ UNCHANGED <<table, screens, job, hand, cache, history>>

SaveLabel(r) ==
    /\ pc[r] = "saveLabel"
    /\ \/ /\ ~ Clash(labels, job[r].landing, hand[r].name)
          /\ Goto(r, "label") /\ NextKey(r)
          /\ InsertLabel(job[r].landing, hand[r].name)
       \/ Clash(labels, job[r].landing, hand[r].name) /\ Fails(r) /\ UNCHANGED at
    /\ UNCHANGED <<screens, job, hand, cache, history>>

CopyReplies(r) ==
    /\ Enter(r, "copyReplies") /\ ~ Refused(r)
    /\ Goto(r, IF job[r].replace THEN "categories" ELSE "reply")
    /\ replies' = IF job[r].replace THEN replies \ Scope(replies, job[r].landing) ELSE replies
    /\ UNCHANGED <<labels, categories, last, screens>>

(* Mutant of ClearCategories: the categories of every page. *)
ClearAllCategories(r) ==
    /\ Step(r, "categories", "reply")
    /\ DropCategories(categories)
    /\ UNCHANGED <<screens, job, local, history>>

ClearCategories(r) ==
    /\ Step(r, "categories", "reply")
    /\ DropCategories(Scope(categories, job[r].landing))
    /\ UNCHANGED <<screens, job, local, history>>

(* A reply that is gone is passed over. *)
FindReply(r) ==
    LET row == WithId(replies, Key(r)) IN
    /\ pc[r] = "reply" /\ MoreKeys(r)
    /\ \/ row = {} /\ NextKey(r) /\ UNCHANGED <<pc, hand>>
       \/ \E x \in row, n \in Names \cup {NoText} :
             /\ {n} = IF x.category = 0 THEN {NoText}
                      ELSE {c.name : c \in WithId(categories, x.category)}
             /\ hand' = [hand EXCEPT ![r] =
                            [content |-> x.content, category |-> x.category, name |-> n]]
             /\ Goto(r, IF x.category = 0 \/ \E c \in cache[r] : c[1] = x.category
                        THEN "saveReply" ELSE "category")
             /\ UNCHANGED at
    /\ UNCHANGED <<table, screens, job, cache, history>>

Remember(r, c) == cache' = [cache EXCEPT ![r] = @ \cup {<<hand[r].category, c>>}]

FindCategory(r) ==
    LET row == Named(categories, job[r].landing, hand[r].name) IN
    /\ pc[r] = "category"
    /\ \/ row = {} /\ Goto(r, "saveCategory") /\ UNCHANGED cache
       \/ \E x \in row : Goto(r, "saveReply") /\ Remember(r, x.id)
    /\ UNCHANGED <<table, screens, job, at, hand, history>>

SaveCategory(r) ==
    /\ pc[r] = "saveCategory"
    /\ \/ /\ ~ Clash(categories, job[r].landing, hand[r].name)
          /\ Goto(r, "saveReply") /\ Remember(r, last + 1)
          /\ InsertCategory(job[r].landing, hand[r].name)
       \/ Clash(categories, job[r].landing, hand[r].name) /\ Fails(r) /\ UNCHANGED cache
    /\ UNCHANGED <<screens, job, at, hand, history>>

(* Mutant of NewCategory: one category for all replies. *)
NewCategoryOnce(r) ==
    IF hand[r].category = 0 THEN 0 ELSE (CHOOSE c \in cache[r] : TRUE)[2]

(* The category of the landing page that stands for the one the reply had. *)
NewCategory(r) ==
    IF hand[r].category = 0 THEN 0
    ELSE (CHOOSE c \in cache[r] : c[1] = hand[r].category)[2]

(* Mutant of SaveReply: the category of the page the reply comes from. *)
SaveReplyAsIs(r) ==
    /\ Step(r, "saveReply", "reply")
    /\ NextKey(r)
    /\ InsertReply(job[r].landing, hand[r].content, hand[r].category)
    /\ UNCHANGED <<screens, job, hand, cache, history>>

(* Mutant of SaveReply: the name of the category instead of its id. *)
SaveReplyNamed(r) ==
    /\ Step(r, "saveReply", "reply")
    /\ NextKey(r)
    /\ InsertReply(job[r].landing, hand[r].content, hand[r].name)
    /\ UNCHANGED <<screens, job, hand, cache, history>>

(* The category may have gone meanwhile: a foreign key error. *)
SaveReply(r) ==
    /\ pc[r] = "saveReply"
    /\ \/ /\ IsCategory(NewCategory(r))
          /\ Goto(r, "reply") /\ NextKey(r)
          /\ InsertReply(job[r].landing, hand[r].content, NewCategory(r))
       \/ ~ IsCategory(NewCategory(r)) /\ Fails(r) /\ UNCHANGED at
    /\ UNCHANGED <<screens, job, hand, cache, history>>

(* A statement fails, or the chat service dies. *)
Fail(r) ==
    /\ pc[r] \in Suspended
    /\ Goto(r, "failed")
    /\ UNCHANGED <<table, screens, job, local, history>>

-----------------------------------------------------------------------------
Edits(r) ==
    \/ CreateLabel(r) \/ UpdateLabel(r) \/ DeleteLabels(r)
    \/ CreateCategory(r) \/ UpdateCategory(r) \/ DeleteCategories(r)
    \/ CreateReply(r) \/ UpdateReply(r) \/ DeleteReplies(r)
    \/ TagPush(r) \/ TagStore(r)

Copies(r) ==
    \/ CopyRefused(r) \/ CopyDone(r)
    \/ CopyLabels(r) \/ FindLabel(r) \/ FindExisting(r) \/ SaveLabel(r)
    \/ CopyReplies(r) \/ ClearCategories(r) \/ FindReply(r)
    \/ FindCategory(r) \/ SaveCategory(r) \/ SaveReply(r)

Next == \E r \in Requests : Edits(r) \/ Copies(r) \/ Fail(r)

Spec == Init /\ [][Next]_vars

-----------------------------------------------------------------------------
(* Properties *)

IsCopy(r) == job[r].op \in {"copyLabels", "copyReplies"}

(* The category of a reply exists and, if the reply has a page, is one of  *)
(* that page, whatever copies, deletions and failures overlap.              *)
CategoryIsOwnPage ==
    \A x \in replies : x.category # 0 =>
        \E c \in WithId(categories, x.category) : x.page \in {NoPage, c.page}

(* A copy into a page that no other request has disturbed, the keys it has  *)
(* come past and the rows that it left on the landing page to begin with.   *)
Undisturbed(r, op) ==
    alone = r /\ job[r].op = op /\ job[r].landing \notin {job[r].source, NoPage}
Past(r)            == {k \in DOMAIN job[r].keys : k < at[r]}
Kept(r, rows)      == IF job[r].replace THEN {} ELSE OnPage(rows, job[r].landing)
NamesOf(rows)      == {x.name : x \in rows}

(* An undisturbed copy of labels has, wherever it stands or stopped, put    *)
(* the names of the labels selected up to its key on the landing page,      *)
(* beside what was there or, when it replaces, instead of it.               *)
LabelsArePrefix ==
    \A r \in Requests : Undisturbed(r, "copyLabels") =>
        NamesOf(OnPage(labels, job[r].landing)) =
            NamesOf(Kept(r, before.labels))
                \cup UNION {NamesOf(WithId(before.labels, job[r].keys[k])) : k \in Past(r)}

(* A reply as its content and the name of its category; the replies of a    *)
(* set that look so; the replies that a key selects, if they are not among  *)
(* those that are replaced.                                                 *)
Shown(t, x)     == <<x.content, NamesOf(WithId(t.categories, x.category))>>
Like(t, S, v)   == {x \in S : Shown(t, x) = v}
Selected(r, k)  == {x \in WithId(before.replies, job[r].keys[k]) :
                       ~ (job[r].replace /\ x.page = job[r].landing)}

(* An undisturbed copy of replies has put a reply of the same content and   *)
(* category on the landing page for each one selected up to its key, once,  *)
(* beside what was there or instead of it.                                  *)
RepliesArePrefix ==
    \A r \in Requests : Undisturbed(r, "copyReplies") =>
        \A v \in Contents \X SUBSET Names :
            Cardinality(Like(Tables, OnPage(replies, job[r].landing), v)) =
                Cardinality(Like(before, Kept(r, before.replies), v))
                + Cardinality({k \in Past(r) : Like(before, Selected(r, k), v) # {}})

(* An undisturbed copy stops at any step with exactly what it has come to,  *)
(* of labels and of replies.                                                *)
CopyIsPrefix == LabelsArePrefix /\ RepliesArePrefix

(* A step of a copy changes no row of another page than the one it copies  *)
(* into, unless it is to replace the rows of no page in particular, and     *)
(* removes none there either, except to replace them.                       *)
CopyStaysInTarget ==
    [][\A r \in Requests : IsCopy(r) /\ (pc'[r] # pc[r] \/ at'[r] # at[r]) =>
          \A p \in Pages :
              /\ p # job[r].landing /\ ~ Boundless(r) =>
                    /\ OnPage(labels', p) = OnPage(labels, p)
                    /\ OnPage(categories', p) = OnPage(categories, p)
                    /\ OnPage(replies', p) = OnPage(replies, p)
              /\ ~ job[r].replace =>
                    labels \subseteq labels' /\ categories \subseteq categories' /\ replies \subseteq replies']_vars

(* A label that the agents see on a conversation and that is not stored    *)
(* there was deleted, or its request failed or is on its way: no other      *)
(* request takes it off.                                                    *)
PushedIsStored ==
    \A t \in pushed \ tags :
        \/ t[2] \notin Ids(labels)
        \/ \E r \in Requests :
              /\ job[r].op = "tag" /\ t = <<job[r].conversation, job[r].label>>
              /\ pc[r] \in {"tag", "failed"}
=============================================================================
