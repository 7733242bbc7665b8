-------------------------------- MODULE Pages --------------------------------
(***************************************************************************)
(* The pages, their tokens and their members in the fanpage service.       *)
(*                                                                         *)
(* A user connects the pages of a Facebook account or of a Telegram        *)
(* session, renews the token of one page, and invites or removes members.  *)
(* Three tables are written without a transaction, one statement after the *)
(* other, by requests that run side by side; each statement or call to     *)
(* Graph may fail and the service may die between any two of them.         *)
(*                                                                         *)
(* A token is named after the request that fetched it and, when it is the  *)
(* token of a page, after that page.                                       *)
(***************************************************************************)
EXTENDS Naturals, Sequences, FiniteSets

CONSTANTS
    Requests,      \* requests to the fanpage service
    Users,         \* registered users
    FacebookPages,
    TelegramPages,
    Accounts,      \* what /me/accounts answers: sequences of Facebook pages
    NoToken        \* no row in page_tokens

AllPages == FacebookPages \cup TelegramPages

ASSUME PagesAssumption ==
    /\ IsFiniteSet(Requests)
    /\ FacebookPages \cap TelegramPages = {}
    /\ Accounts \subseteq Seq(FacebookPages)
    /\ NoToken \notin AllPages \X Requests

VARIABLES
    fanpages, \* fanpages in the order of their ids, each with its page token
    members,  \* user_pages
    job,      \* what each request asks for
    pc,       \* where each request is suspended
    at,       \* the item of the list its loop has come to
    row,      \* fanpages.id of the page it works on
    lost,     \* rows whose own request ended before it inserted the token (history)
    removed   \* members that were deleted (history)

vars == <<fanpages, members, job, pc, at, row, lost, removed>>

Admin == "ADMIN_MANAGE"
Roles == {Admin, "SALE"}

Fanpage == [page : AllPages, access : Requests, token : (AllPages \X Requests) \cup {NoToken}]
Member  == [user : Users, row : Nat, role : Roles]
NoJob   == [op |-> "none"]
Job     ==
    [op : {"connect"}, user : Users, list : Accounts \cup {<<p>> : p \in TelegramPages}]
        \cup [op : {"renew"}, list : Accounts]
        \cup [op : {"invite"}, user : Users, page : AllPages, role : Roles]

(* The statement each suspended request comes to next. *)
Connecting == {"find", "insertPage", "insertToken", "page", "token", "member", "subscribe"}
Renewing   == {"renewPage", "renewToken"}
Inviting   == {"invite", "exists", "save"}
Suspended  == Connecting \cup Renewing \cup Inviting

TypeOK ==
    /\ fanpages \in Seq(Fanpage)
    /\ members \subseteq Member
    /\ job \in [Requests -> Job \cup {NoJob}]
    /\ pc \in [Requests -> Suspended \cup {"new", "done", "failed"}]
    /\ at \in [Requests -> Nat]
    /\ row \in [Requests -> Nat]
    /\ lost \subseteq Nat
    /\ removed \subseteq Users \X Nat

Init ==
    /\ fanpages = <<>>
    /\ members = {}
    /\ job = [r \in Requests |-> NoJob]
    /\ pc = [r \in Requests |-> "new"]
    /\ at = [r \in Requests |-> 1]
    /\ row = [r \in Requests |-> 0]
    /\ lost = {}
    /\ removed = {}

tables  == <<fanpages, members>>
history == <<lost, removed>>

RowsOf(p)  == {i \in DOMAIN fanpages : fanpages[i].page = p}
Listed(r)  == {job[r].list[k] : k \in DOMAIN job[r].list}
Item(r)    == job[r].list[at[r]]
More(r)    == at[r] \in DOMAIN job[r].list
IsMember(u, i) == \E m \in members : m.user = u /\ m.row = i

Goto(r, label)     == pc' = [pc EXCEPT ![r] = label]
Step(r, from, to)  == pc[r] = from /\ Goto(r, to)
NextItem(r)        == at' = [at EXCEPT ![r] = @ + 1]
TakeRow(r, i)      == row' = [row EXCEPT ![r] = i]

-----------------------------------------------------------------------------
(* Connecting: CreateConnectPageFacebook, ConnectPageTelegram *)

(* The account's tokens and its list of pages come from Graph; a failure   *)
(* there ends the request (Fail).                                           *)
ConnectFacebook(r) ==
    /\ Step(r, "new", "find")
    /\ \E u \in Users, list \in Accounts :
          job' = [job EXCEPT ![r] = [op |-> "connect", user |-> u, list |-> list]]
    /\ UNCHANGED <<tables, at, row, history>>

ConnectTelegram(r) ==
    /\ Step(r, "new", "find")
    /\ \E u \in Users, p \in TelegramPages :
          job' = [job EXCEPT ![r] = [op |-> "connect", user |-> u, list |-> <<p>>]]
    /\ UNCHANGED <<tables, at, row, history>>

(* Mutant of FindPage: page_id is undefined, which a where clause ignores. *)
FindAnyPage(r) ==
    /\ pc[r] = "find" /\ More(r)
    /\ \/ fanpages = <<>> /\ Goto(r, "insertPage") /\ UNCHANGED row
       \/ Goto(r, "page") /\ \E i \in DOMAIN fanpages : TakeRow(r, i)
    /\ UNCHANGED <<tables, job, at, history>>

(* Mutant of FindPage: a page that is known is not connected again. *)
FindNewPage(r) ==
    /\ pc[r] = "find" /\ More(r)
    /\ Goto(r, IF RowsOf(Item(r)) = {} THEN "insertPage" ELSE "subscribe")
    /\ UNCHANGED <<tables, job, at, row, history>>

FindPage(r) ==
    /\ pc[r] = "find" /\ More(r)
    /\ \/ RowsOf(Item(r)) = {} /\ Goto(r, "insertPage") /\ UNCHANGED row
       \/ Goto(r, "page") /\ \E i \in RowsOf(Item(r)) : TakeRow(r, i)
    /\ UNCHANGED <<tables, job, at, history>>

(* INSERT INTO fanpages ... RETURNING *: the id is the next one. *)
Create(r, p) ==
    /\ fanpages' = Append(fanpages, [page |-> p, access |-> r, token |-> NoToken])
    /\ TakeRow(r, Len(fanpages) + 1)

(* Mutant of InsertPage: fanpages has no unique page_id. *)
InsertPageTwice(r) ==
    /\ Step(r, "insertPage", "insertToken")
    /\ Create(r, Item(r))
    /\ UNCHANGED <<members, job, at, history>>

(* Mutant of InsertPage: the token is left to the updates below it. *)
InsertPageOnly(r) ==
    /\ Step(r, "insertPage", "page")
    /\ RowsOf(Item(r)) = {}
    /\ Create(r, Item(r))
    /\ UNCHANGED <<members, job, at, history>>

InsertPage(r) ==
    /\ pc[r] = "insertPage"
    /\ \/ /\ RowsOf(Item(r)) = {}
          /\ Goto(r, "insertToken")
          /\ Create(r, Item(r))
       \/ /\ RowsOf(Item(r)) # {}    \* 23505 from uq_fanpages_page_id
          /\ Goto(r, "failed")
          /\ UNCHANGED <<fanpages, row>>
    /\ UNCHANGED <<members, job, at, history>>

InsertToken(r) ==
    /\ Step(r, "insertToken", "page")
    /\ fanpages' = [fanpages EXCEPT ![row[r]].token = <<Item(r), r>>]
    /\ UNCHANGED <<members, job, at, row, history>>

UpdatePage(r) ==
    /\ Step(r, "page", "token")
    /\ fanpages' = [fanpages EXCEPT ![row[r]].access = r]
    /\ UNCHANGED <<members, job, at, row, history>>

(* Mutant of SetToken: the token of the user instead of that of the page. *)
SetUserToken(i, token) ==
    fanpages' = IF fanpages[i].token = NoToken THEN fanpages
                ELSE [fanpages EXCEPT ![i].token = token[2]]

(* Mutant of SetToken: an upsert. *)
UpsertToken(i, token) == fanpages' = [fanpages EXCEPT ![i].token = token]

(* UPDATE page_tokens WHERE fanpage_id: no row, no change. *)
SetToken(i, token) ==
    fanpages' = IF fanpages[i].token = NoToken THEN fanpages
                ELSE [fanpages EXCEPT ![i].token = token]

UpdateToken(r) ==
    /\ Step(r, "token", "member")
    /\ SetToken(row[r], <<Item(r), r>>)
    /\ UNCHANGED <<members, job, at, row, history>>

(* Upsert on (user_id, fanpage_id), with the role among the values. *)
UpsertMember(r) ==
    /\ Step(r, "member", "subscribe")
    /\ members' = {m \in members : ~ (m.user = job[r].user /\ m.row = row[r])}
                    \cup {[user |-> job[r].user, row |-> row[r], role |-> Admin]}
    /\ UNCHANGED <<fanpages, job, at, row, history>>

(* The POST to subscribed_apps, whose answer is not looked at; Telegram has *)
(* none.                                                                    *)
Subscribe(r) ==
    /\ Step(r, "subscribe", "find")
    /\ NextItem(r)
    /\ UNCHANGED <<tables, job, row, history>>

Connected(r) ==
    /\ Step(r, "find", "done")
    /\ ~ More(r)
    /\ UNCHANGED <<tables, job, at, row, history>>

-----------------------------------------------------------------------------
(* TokenRenewal *)

(* The client names a row of fanpages; the loop runs over the pages of the  *)
(* account and writes each one's token into that row.                       *)
Renew(r) ==
    /\ Step(r, "new", "renewPage")
    /\ \E i \in DOMAIN fanpages : TakeRow(r, i)
    /\ \E list \in Accounts : job' = [job EXCEPT ![r] = [op |-> "renew", list |-> list]]
    /\ UNCHANGED <<tables, at, history>>

RenewPage(r) ==
    /\ Step(r, "renewPage", "renewToken")
    /\ More(r)
    /\ fanpages' = [fanpages EXCEPT ![row[r]].access = r]
    /\ UNCHANGED <<members, job, at, row, history>>

RenewToken(r) ==
    /\ Step(r, "renewToken", "renewPage")
    /\ SetToken(row[r], <<Item(r), r>>)
    /\ NextItem(r)
    /\ UNCHANGED <<members, job, row, history>>

Renewed(r) ==
    /\ Step(r, "renewPage", "done")
    /\ ~ More(r)
    /\ UNCHANGED <<tables, job, at, row, history>>

-----------------------------------------------------------------------------
(* Members: CreateUserPage, Delete *)

Invite(r) ==
    /\ Step(r, "new", "invite")
    /\ \E u \in Users, p \in AllPages, role \in Roles :
          job' = [job EXCEPT ![r] = [op |-> "invite", user |-> u, page |-> p, role |-> role]]
    /\ UNCHANGED <<tables, at, row, history>>

(* An unknown page is a TypeError on null. *)
InvitePage(r) ==
    /\ pc[r] = "invite"
    /\ \/ RowsOf(job[r].page) = {} /\ Goto(r, "failed") /\ UNCHANGED row
       \/ Goto(r, "exists") /\ \E i \in RowsOf(job[r].page) : TakeRow(r, i)
    /\ UNCHANGED <<tables, job, at, history>>

InviteExists(r) ==
    /\ pc[r] = "exists"
    /\ Goto(r, IF IsMember(job[r].user, row[r]) THEN "failed" ELSE "save")
    /\ UNCHANGED <<tables, job, at, row, history>>

(* Mutant of InviteSave: an upsert on (user_id, fanpage_id), as in UpsertMember. *)
InviteUpsert(r) ==
    /\ Step(r, "save", "done")
    /\ members' = {m \in members : ~ (m.user = job[r].user /\ m.row = row[r])}
                    \cup {[user |-> job[r].user, row |-> row[r], role |-> job[r].role]}
    /\ UNCHANGED <<fanpages, job, at, row, history>>

InviteSave(r) ==
    /\ pc[r] = "save"
    /\ \/ /\ ~ IsMember(job[r].user, row[r])
          /\ Goto(r, "done")
          /\ members' = members \cup
                {[user |-> job[r].user, row |-> row[r], role |-> job[r].role]}
       \/ /\ IsMember(job[r].user, row[r])   \* 23505 from uq_user_page_user_fanpage
          /\ Goto(r, "failed")
          /\ UNCHANGED members
    /\ UNCHANGED <<fanpages, job, at, row, history>>

(* One DELETE by id. *)
Remove ==
    \E m \in members :
        /\ members' = members \ {m}
        /\ removed' = removed \cup {<<m.user, m.row>>}
        /\ UNCHANGED <<fanpages, job, pc, at, row, lost>>

-----------------------------------------------------------------------------
(* A statement or a call fails, or the service dies. *)
Fail(r) ==
    /\ pc[r] \in Suspended
    /\ Goto(r, "failed")
    /\ lost' = IF pc[r] = "insertToken" THEN lost \cup {row[r]} ELSE lost
    /\ UNCHANGED <<tables, job, at, row, removed>>

Connects(r) ==
    \/ ConnectFacebook(r) \/ ConnectTelegram(r)
    \/ FindPage(r) \/ InsertPage(r) \/ InsertToken(r) \/ UpdatePage(r) \/ UpdateToken(r)
    \/ UpsertMember(r) \/ Subscribe(r) \/ Connected(r)

Renews(r)  == Renew(r) \/ RenewPage(r) \/ RenewToken(r) \/ Renewed(r)
Invites(r) == Invite(r) \/ InvitePage(r) \/ InviteExists(r) \/ InviteSave(r)

Next ==
    \/ \E r \in Requests : Connects(r) \/ Renews(r) \/ Invites(r) \/ Fail(r)
    \/ Remove

Spec == Init /\ [][Next]_vars

-----------------------------------------------------------------------------
(* Properties *)

(* A page without a token is one whose token is about to be inserted, or   *)
(* the connection that inserted the page ended just before that: no other  *)
(* order of the requests leaves a page without its token.                   *)
TokenlessIsLost ==
    \A i \in DOMAIN fanpages :
        fanpages[i].token = NoToken =>
            i \in lost \/ \E r \in Requests : pc[r] = "insertToken" /\ row[r] = i

(* The token of a page comes from a connection of this very page, or from  *)
(* a renewal; a renewal that is over and whose token is still there left    *)
(* that of the last page of the account, whichever page was renewed.       *)
TokenOrigin ==
    \A i \in DOMAIN fanpages : fanpages[i].token # NoToken =>
        LET r == fanpages[i].token[2] IN
        \/ job[r].op = "connect" /\ fanpages[i].token[1] = fanpages[i].page
        \/ /\ job[r].op = "renew" /\ row[r] = i
           /\ fanpages[i].token[1] \in Listed(r)
           /\ pc[r] = "done" => fanpages[i].token[1] = job[r].list[Len(job[r].list)]

(* When a connection is answered with success, every page it listed is     *)
(* known and has the user among its members, unless removed since.         *)
AnsweredIsConnected ==
    \A r \in Requests : job[r].op = "connect" /\ pc[r] = "done" =>
        \A p \in Listed(r) : \E i \in RowsOf(p) :
            \/ IsMember(job[r].user, i)
            \/ <<job[r].user, i>> \in removed

(* A page has one row and a user is a member of it once, however many      *)
(* connections and invitations find nothing and insert.                     *)
RowsAreUnique ==
    /\ \A i, j \in DOMAIN fanpages : fanpages[i].page = fanpages[j].page => i = j
    /\ \A m, n \in members : m.user = n.user /\ m.row = n.row => m = n

(* Once the connection that created a page is gone without its token, no   *)
(* later connection or renewal gives the page one.                          *)
LostForever ==
    [][\A i \in lost : fanpages[i].token = NoToken /\ fanpages'[i].token = NoToken]_vars

(* How far a page has come, read off its row and the request inserting it.  *)
StateOf(p) ==
    LET rows == RowsOf(p) IN
    CASE rows = {} -> "unknown"
      [] \E i \in rows : fanpages[i].token # NoToken -> "held"
      [] rows # {} /\ \A i \in rows : fanpages[i].token = NoToken ->
            IF \E r \in Requests : pc[r] = "insertToken" /\ row[r] \in rows
            THEN "awaited" ELSE "lost"

RolesOf(u, p) == {m.role : m \in {n \in members : n.user = u /\ n.row \in RowsOf(p)}}

PageRegister == INSTANCE Register WITH
    Pages <- AllPages,
    state <- [p \in AllPages |-> StateOf(p)],
    roles <- [x \in Users \X AllPages |-> RolesOf(x[1], x[2])]

(* However connections, renewals, invitations and removals overlap or end   *)
(* half way, they keep a register of pages: one is entered once, its token  *)
(* comes once or is lost for good, nobody is a member of an unknown page or *)
(* one twice, and only a connection writes over a role, with administrator. *)
KeepsRegister == PageRegister!Spec
=============================================================================
