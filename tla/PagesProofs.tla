----------------------------- MODULE PagesProofs -----------------------------
(***************************************************************************)
(* What holds of Pages for any number of requests, users, pages and        *)
(* accounts.  A request's place in its code fixes what its variables stand *)
(* for (Shape); everything else rests on that.                             *)
(***************************************************************************)
EXTENDS Pages, SequenceTheorems, TLAPS

Acts(r) == Connects(r) \/ Renews(r) \/ Invites(r) \/ Fail(r)

(* Places where a request works on an item of its list, and where the row  *)
(* it has taken is that of this item.                                      *)
OnItem == {"insertPage", "insertToken", "page", "token", "member", "subscribe", "renewToken"}
OnRow  == {"insertToken", "page", "token", "member", "subscribe"}

ShapeOf(r) ==
    /\ pc[r] = "new" => job[r] = NoJob /\ at[r] = 1
    /\ pc[r] \in Connecting => job[r].op = "connect"
    /\ pc[r] \in Renewing => job[r].op = "renew"
    /\ pc[r] \in Inviting => job[r].op = "invite"
    /\ pc[r] \in {"done", "failed"} => job[r] # NoJob
    /\ job[r].op \in {"connect", "renew"} => at[r] \in 1 .. Len(job[r].list) + 1
    /\ pc[r] \in OnItem => at[r] <= Len(job[r].list)
    /\ pc[r] \in OnRow => row[r] \in RowsOf(Item(r))
    /\ job[r].op = "renew" \/ pc[r] \in {"exists", "save"} => row[r] \in DOMAIN fanpages
    /\ pc[r] = "done" /\ job[r].op \in {"connect", "renew"} => at[r] = Len(job[r].list) + 1

Shape ==
    /\ TypeOK
    /\ \A r \in Requests : ShapeOf(r)
    /\ \A m \in members : m.row \in DOMAIN fanpages
    /\ lost \subseteq DOMAIN fanpages

-----------------------------------------------------------------------------
(* Jobs and rows *)

LEMMA JobIs ==
    ASSUME NEW j \in Job \cup {NoJob}
    PROVE  /\ j.op \in {"none", "connect", "renew", "invite"}
           /\ (j.op = "none" <=> j = NoJob)
           /\ j.op = "connect" => j.user \in Users /\ j.list \in Seq(AllPages)
           /\ j.op = "renew" => j.list \in Seq(AllPages)
           /\ j.op = "invite" => j.user \in Users /\ j.page \in AllPages /\ j.role \in Roles
<1>1. \A list \in Accounts : list \in Seq(AllPages)
  <2>1. Accounts \subseteq Seq(FacebookPages)
    BY PagesAssumption
  <2>2. Seq(FacebookPages) \subseteq Seq(AllPages)
    BY SeqMonotonic DEF AllPages
  <2> QED
    BY <2>1, <2>2
<1>2. \A p \in TelegramPages : <<p>> \in Seq(AllPages)
  BY DEF AllPages
<1>3. CASE j = NoJob
  BY <1>3 DEF NoJob
<1>4. CASE j \in [op : {"connect"}, user : Users, list : Accounts \cup {<<p>> : p \in TelegramPages}]
  <2>1. j.op = "connect" /\ j.user \in Users /\ j.list \in Accounts \cup {<<p>> : p \in TelegramPages}
    BY <1>4
  <2>2. j.list \in Seq(AllPages)
    BY <1>1, <1>2, <2>1
  <2> QED
    BY <2>1, <2>2 DEF NoJob
<1>5. CASE j \in [op : {"renew"}, list : Accounts]
  BY <1>1, <1>5 DEF NoJob
<1>6. CASE j \in [op : {"invite"}, user : Users, page : AllPages, role : Roles]
  BY <1>6 DEF NoJob
<1> QED
  BY <1>3, <1>4, <1>5, <1>6 DEF Job

LEMMA Appended ==
    ASSUME fanpages \in Seq(Fanpage), NEW r \in Requests, NEW p \in AllPages, Create(r, p)
    PROVE  /\ fanpages' \in Seq(Fanpage)
           /\ Len(fanpages') = Len(fanpages) + 1
           /\ DOMAIN fanpages' = (DOMAIN fanpages) \cup {Len(fanpages) + 1}
           /\ \A i \in DOMAIN fanpages : fanpages'[i] = fanpages[i]
           /\ fanpages'[Len(fanpages) + 1] = [page |-> p, access |-> r, token |-> NoToken]
<1> DEFINE x == [page |-> p, access |-> r, token |-> NoToken]
<1>1. x \in Fanpage
  BY DEF Fanpage
<1>2. fanpages' = Append(fanpages, x)
  BY DEF Create
<1> HIDE DEF x
<1>3. /\ fanpages' \in Seq(Fanpage)
      /\ Len(fanpages') = Len(fanpages) + 1
      /\ \A i \in 1 .. Len(fanpages) : fanpages'[i] = fanpages[i]
      /\ fanpages'[Len(fanpages) + 1] = x
  BY <1>1, <1>2, AppendProperties
<1>4. Len(fanpages) \in Nat /\ DOMAIN fanpages = 1 .. Len(fanpages)
  BY LenProperties
<1>5. DOMAIN fanpages' = 1 .. Len(fanpages) + 1
  BY <1>3, LenProperties
<1> QED
  BY <1>3, <1>4, <1>5 DEF x

LEMMA Updated ==
    ASSUME fanpages \in Seq(Fanpage), NEW i \in DOMAIN fanpages, NEW x \in Fanpage,
           x.page = fanpages[i].page, fanpages' = [fanpages EXCEPT ![i] = x]
    PROVE  /\ fanpages' \in Seq(Fanpage)
           /\ DOMAIN fanpages' = DOMAIN fanpages
           /\ \A j \in DOMAIN fanpages : fanpages'[j].page = fanpages[j].page
           /\ \A j \in DOMAIN fanpages : j # i => fanpages'[j] = fanpages[j]
           /\ fanpages'[i] = x
<1>1. Len(fanpages) \in Nat /\ DOMAIN fanpages = 1 .. Len(fanpages)
  BY LenProperties
<1>2. /\ fanpages' \in Seq(Fanpage)
      /\ Len(fanpages') = Len(fanpages)
      /\ \A j \in 1 .. Len(fanpages) : fanpages'[j] = IF j = i THEN x ELSE fanpages[j]
  BY <1>1, ExceptSeq
<1>3. DOMAIN fanpages' = 1 .. Len(fanpages)
  BY <1>2, LenProperties
<1> QED
  BY <1>1, <1>2, <1>3

LEMMA AccessSet ==
    ASSUME fanpages \in Seq(Fanpage), NEW i \in DOMAIN fanpages, NEW r \in Requests,
           fanpages' = [fanpages EXCEPT ![i].access = r]
    PROVE  /\ fanpages' \in Seq(Fanpage)
           /\ DOMAIN fanpages' = DOMAIN fanpages
           /\ \A j \in DOMAIN fanpages : /\ fanpages'[j].page = fanpages[j].page
                                         /\ fanpages'[j].token = fanpages[j].token
<1> DEFINE x == [fanpages[i] EXCEPT !.access = r]
<1>1. fanpages[i] \in Fanpage
  BY ElementOfSeq, LenProperties
<1>2. x \in Fanpage /\ x.page = fanpages[i].page /\ x.token = fanpages[i].token
  BY <1>1 DEF Fanpage
<1>3. fanpages' = [fanpages EXCEPT ![i] = x]
  OBVIOUS
<1> HIDE DEF x
<1>4. /\ fanpages' \in Seq(Fanpage)
      /\ DOMAIN fanpages' = DOMAIN fanpages
      /\ \A j \in DOMAIN fanpages : fanpages'[j].page = fanpages[j].page
      /\ \A j \in DOMAIN fanpages : j # i => fanpages'[j] = fanpages[j]
      /\ fanpages'[i] = x
  BY <1>2, <1>3, Updated
<1> QED
  BY <1>2, <1>4

LEMMA TokenSet ==
    ASSUME fanpages \in Seq(Fanpage), NEW i \in DOMAIN fanpages,
           NEW token \in AllPages \X Requests,
           fanpages' = [fanpages EXCEPT ![i].token = token]
    PROVE  /\ fanpages' \in Seq(Fanpage)
           /\ DOMAIN fanpages' = DOMAIN fanpages
           /\ \A j \in DOMAIN fanpages : fanpages'[j].page = fanpages[j].page
           /\ \A j \in DOMAIN fanpages : j # i => fanpages'[j].token = fanpages[j].token
           /\ fanpages'[i].token = token
<1> DEFINE x == [fanpages[i] EXCEPT !.token = token]
<1>1. fanpages[i] \in Fanpage
  BY ElementOfSeq, LenProperties
<1>2. x \in Fanpage /\ x.page = fanpages[i].page /\ x.token = token
  BY <1>1 DEF Fanpage
<1>3. fanpages' = [fanpages EXCEPT ![i] = x]
  OBVIOUS
<1> HIDE DEF x
<1>4. /\ fanpages' \in Seq(Fanpage)
      /\ DOMAIN fanpages' = DOMAIN fanpages
      /\ \A j \in DOMAIN fanpages : fanpages'[j].page = fanpages[j].page
      /\ \A j \in DOMAIN fanpages : j # i => fanpages'[j] = fanpages[j]
      /\ fanpages'[i] = x
  BY <1>2, <1>3, Updated
<1> QED
  BY <1>2, <1>4
-----------------------------------------------------------------------------
(* Shape is inductive *)

LEMMA InitShape == Init => Shape
<1> SUFFICES ASSUME Init PROVE Shape
  OBVIOUS
<1>1. TypeOK
  BY DEF Init, TypeOK
<1>2. \A r \in Requests : ShapeOf(r)
  BY DEF Init, ShapeOf, NoJob, Connecting, Renewing, Inviting, OnItem, OnRow
<1> QED
  BY <1>1, <1>2 DEF Init, Shape

(* What the requests besides r, and the rows there are, keep. *)
Frame(r) ==
    /\ DOMAIN fanpages \subseteq DOMAIN fanpages'
    /\ \A i \in DOMAIN fanpages : fanpages'[i].page = fanpages[i].page
    /\ \A s \in Requests \ {r} : /\ job'[s] = job[s] /\ pc'[s] = pc[s]
                                 /\ at'[s] = at[s] /\ row'[s] = row[s]

LEMMA OthersKeepShape ==
    ASSUME Shape, NEW r \in Requests, Frame(r), NEW s \in Requests \ {r}
    PROVE  ShapeOf(s)'
<1>1. ShapeOf(s) /\ job'[s] = job[s] /\ pc'[s] = pc[s] /\ at'[s] = at[s] /\ row'[s] = row[s]
  BY DEF Shape, Frame
<1>2. Item(s)' = Item(s)
  BY <1>1 DEF Item
<1>3. ASSUME NEW p PROVE RowsOf(p) \subseteq RowsOf(p)'
  BY DEF RowsOf, Frame
<1>4. RowsOf(Item(s)) \subseteq RowsOf(Item(s))'
  BY <1>2 DEF RowsOf, Frame
<1>5. DOMAIN fanpages \subseteq DOMAIN fanpages'
  BY DEF Frame
<1> QED
  BY <1>1, <1>4, <1>5 DEF ShapeOf

(* Everything a request's own step must show. *)
Good(r) ==
    /\ TypeOK'
    /\ Frame(r)
    /\ ShapeOf(r)'
    /\ \A m \in members' : m.row \in DOMAIN fanpages'
    /\ lost' \subseteq DOMAIN fanpages'

LEMMA GoodKeepsShape ==
    ASSUME Shape, NEW r \in Requests, Good(r)
    PROVE  Shape'
BY OthersKeepShape DEF Shape, Good

(* A step that leaves the tables alone. *)
LEMMA LocalStep ==
    ASSUME Shape, NEW r \in Requests, UNCHANGED <<tables, removed>>,
           lost' \subseteq DOMAIN fanpages,
           NEW j \in Job \cup {NoJob}, job' = [job EXCEPT ![r] = j],
           NEW l \in Suspended \cup {"new", "done", "failed"}, pc' = [pc EXCEPT ![r] = l],
           NEW k \in Nat, at' = [at EXCEPT ![r] = k],
           NEW i \in Nat, row' = [row EXCEPT ![r] = i],
           ShapeOf(r)'
    PROVE  Good(r)
<1>1. TypeOK /\ fanpages' = fanpages /\ members' = members
  BY DEF Shape, tables
<1>2. /\ job' \in [Requests -> Job \cup {NoJob}]
      /\ pc' \in [Requests -> Suspended \cup {"new", "done", "failed"}]
      /\ at' \in [Requests -> Nat]
      /\ row' \in [Requests -> Nat]
  BY <1>1 DEF TypeOK
<1>3. lost' \subseteq Nat
  BY <1>1, LenProperties DEF TypeOK
<1>4. TypeOK'
  BY <1>1, <1>2, <1>3 DEF TypeOK
<1>5. Frame(r)
  BY <1>1 DEF Frame, TypeOK
<1> QED
  BY <1>1, <1>4, <1>5 DEF Good, Shape
LEMMA Here ==
    ASSUME Shape, NEW r \in Requests
    PROVE  /\ ShapeOf(r)
           /\ job[r] \in Job \cup {NoJob} /\ job \in [Requests -> Job \cup {NoJob}]
           /\ pc \in [Requests -> Suspended \cup {"new", "done", "failed"}]
           /\ at[r] \in Nat /\ at \in [Requests -> Nat]
           /\ row[r] \in Nat /\ row \in [Requests -> Nat]
           /\ lost \subseteq DOMAIN fanpages
           /\ DOMAIN fanpages \subseteq Nat
BY LenProperties DEF Shape, TypeOK

LEMMA AtItem ==
    ASSUME Shape, NEW r \in Requests, job[r].op \in {"connect", "renew"}
    PROVE  /\ job[r].list \in Seq(AllPages)
           /\ Len(job[r].list) \in Nat
           /\ DOMAIN job[r].list = 1 .. Len(job[r].list)
           /\ at[r] \in Nat /\ at[r] \in 1 .. Len(job[r].list) + 1
           /\ More(r) <=> at[r] <= Len(job[r].list)
           /\ More(r) => Item(r) \in AllPages
<1>1. job[r] \in Job \cup {NoJob} /\ ShapeOf(r) /\ at[r] \in Nat
  BY Here
<1>2. job[r].list \in Seq(AllPages)
  BY <1>1, JobIs
<1>3. Len(job[r].list) \in Nat /\ DOMAIN job[r].list = 1 .. Len(job[r].list)
  BY <1>2, LenProperties
<1>4. at[r] \in 1 .. Len(job[r].list) + 1
  BY <1>1 DEF ShapeOf
<1>5. More(r) <=> at[r] <= Len(job[r].list)
  BY <1>1, <1>3, <1>4 DEF More
<1>6. More(r) => Item(r) \in AllPages
  BY <1>2, <1>3, ElementOfSeq DEF More, Item
<1> QED
  BY <1>1, <1>2, <1>3, <1>4, <1>5, <1>6

(* A request receives its job: r is new, so it stands before its first item. *)
LEMMA Started ==
    ASSUME Shape, NEW r \in Requests, pc[r] = "new", NEW j \in Job, NEW l, NEW i \in Nat,
           \/ j.op = "connect" /\ l = "find"
           \/ j.op = "renew" /\ l = "renewPage" /\ i \in DOMAIN fanpages
           \/ j.op = "invite" /\ l = "invite",
           job' = [job EXCEPT ![r] = j], pc' = [pc EXCEPT ![r] = l],
           row' = [row EXCEPT ![r] = i], UNCHANGED <<tables, at, history>>
    PROVE  Good(r)
<1>1. /\ ShapeOf(r) /\ at[r] \in Nat /\ at \in [Requests -> Nat]
      /\ job'[r] = j /\ pc'[r] = l /\ at'[r] = at[r] /\ row'[r] = i
  BY Here
<1>2. at[r] = 1
  BY <1>1 DEF ShapeOf
<1>3. j.op \in {"connect", "renew"} => 1 \in 1 .. Len(j.list) + 1
  BY JobIs, LenProperties
<1>4. j # NoJob
  BY DEF NoJob
<1>5. ShapeOf(r)'
  BY <1>1, <1>2, <1>3, <1>4 DEF ShapeOf, Connecting, Renewing, Inviting, OnItem, OnRow, tables
<1>6. l \in Suspended
  BY DEF Suspended, Connecting, Renewing, Inviting
<1>7. at' = [at EXCEPT ![r] = at[r]] /\ lost' \subseteq DOMAIN fanpages /\ UNCHANGED <<tables, removed>>
  BY <1>1, Here DEF history
<1> QED
  BY <1>1, <1>5, <1>6, <1>7, LocalStep
(* A request at work moves on and leaves the tables alone. *)
LEMMA Moved ==
    ASSUME Shape, NEW r \in Requests, pc[r] \in Suspended, UNCHANGED <<tables, job, removed>>,
           lost' \subseteq DOMAIN fanpages,
           NEW l \in Suspended \cup {"done", "failed"}, pc' = [pc EXCEPT ![r] = l],
           NEW k \in Nat, at' = [at EXCEPT ![r] = k],
           NEW i \in Nat, row' = [row EXCEPT ![r] = i],
           ShapeOf(r)'
    PROVE  Good(r)
<1>1. job' = [job EXCEPT ![r] = job[r]] /\ job[r] \in Job \cup {NoJob}
  BY Here
<1> QED
  BY <1>1, LocalStep

LEMMA FindPageGood == ASSUME Shape, NEW r \in Requests, FindPage(r) PROVE Good(r)
<1>1. ShapeOf(r) /\ pc[r] = "find" /\ job[r].op = "connect" /\ pc[r] \in Suspended
  BY Here DEF FindPage, ShapeOf, Connecting, Suspended
<1>2. at[r] \in 1 .. Len(job[r].list) + 1 /\ at[r] <= Len(job[r].list)
  BY <1>1, AtItem DEF FindPage
<1>3. PICK l, i : /\ \/ l = "insertPage" /\ i = row[r]
                     \/ l = "page" /\ i \in RowsOf(Item(r))
                  /\ pc' = [pc EXCEPT ![r] = l]
                  /\ row' = [row EXCEPT ![r] = i]
  BY Here DEF FindPage, Goto, TakeRow
<1>4. UNCHANGED <<tables, job, at, history>>
  BY DEF FindPage
<1>5. l \in Suspended /\ i \in Nat
  BY <1>3, Here DEF Suspended, Connecting, RowsOf
<1>6. pc'[r] = l /\ row'[r] = i /\ at'[r] = at[r] /\ job'[r] = job[r] /\ fanpages' = fanpages
  BY <1>3, <1>4, Here DEF tables
<1>7. RowsOf(Item(r))' = RowsOf(Item(r))
  BY <1>6 DEF RowsOf, Item
<1>8. ShapeOf(r)'
  BY <1>1, <1>2, <1>3, <1>6, <1>7 DEF ShapeOf, Connecting, Renewing, Inviting, OnItem, OnRow
<1>9. at' = [at EXCEPT ![r] = at[r]] /\ lost' \subseteq DOMAIN fanpages /\ UNCHANGED <<tables, job, removed>>
  BY <1>4, Here DEF history
<1> QED
  BY <1>1, <1>3, <1>5, <1>8, <1>9, Here, Moved

LEMMA SubscribeGood == ASSUME Shape, NEW r \in Requests, Subscribe(r) PROVE Good(r)
<1>1. ShapeOf(r) /\ pc[r] = "subscribe" /\ job[r].op = "connect" /\ pc[r] \in Suspended
  BY Here DEF Subscribe, Step, ShapeOf, Connecting, Suspended
<1>2. at[r] \in 1 .. Len(job[r].list) /\ Len(job[r].list) \in Nat /\ at[r] \in Nat
  BY <1>1, AtItem DEF ShapeOf, OnItem
<1>3. /\ pc' = [pc EXCEPT ![r] = "find"] /\ at' = [at EXCEPT ![r] = at[r] + 1]
      /\ UNCHANGED <<tables, job, row, history>>
  BY DEF Subscribe, Step, Goto, NextItem
<1>4. /\ pc'[r] = "find" /\ at'[r] = at[r] + 1 /\ job'[r] = job[r] /\ fanpages' = fanpages
      /\ row'[r] = row[r]
  BY <1>3, Here DEF tables
<1>5. ShapeOf(r)'
  BY <1>1, <1>2, <1>4 DEF ShapeOf, Connecting, Renewing, Inviting, OnItem, OnRow
<1>6. row' = [row EXCEPT ![r] = row[r]] /\ lost' \subseteq DOMAIN fanpages /\ UNCHANGED <<tables, job, removed>>
  BY <1>3, Here DEF history
<1>7. "find" \in Suspended /\ at[r] + 1 \in Nat /\ row[r] \in Nat
  BY <1>2, Here DEF Suspended, Connecting
<1> QED
  BY <1>1, <1>3, <1>5, <1>6, <1>7, Moved

LEMMA EndedGood ==
    ASSUME Shape, NEW r \in Requests, Connected(r) \/ Renewed(r) PROVE Good(r)
<1>1. /\ ShapeOf(r) /\ pc[r] \in {"find", "renewPage"} /\ pc[r] \in Suspended
      /\ job[r].op \in {"connect", "renew"}
  BY Here DEF Connected, Renewed, Step, ShapeOf, Connecting, Renewing, Suspended
<1>2. at[r] = Len(job[r].list) + 1 /\ at[r] \in 1 .. Len(job[r].list) + 1
  BY <1>1, AtItem DEF Connected, Renewed
<1>3. pc' = [pc EXCEPT ![r] = "done"] /\ UNCHANGED <<tables, job, at, row, history>>
  BY DEF Connected, Renewed, Step, Goto
<1>4. /\ pc'[r] = "done" /\ at'[r] = at[r] /\ job'[r] = job[r] /\ fanpages' = fanpages
      /\ row'[r] = row[r]
  BY <1>3, Here DEF tables
<1>5. job[r] # NoJob
  BY <1>1 DEF NoJob
<1>6. ShapeOf(r)'
  BY <1>1, <1>2, <1>4, <1>5 DEF ShapeOf, Connecting, Renewing, Inviting, OnItem, OnRow
<1>7. /\ row' = [row EXCEPT ![r] = row[r]] /\ at' = [at EXCEPT ![r] = at[r]]
      /\ lost' \subseteq DOMAIN fanpages /\ UNCHANGED <<tables, job, removed>>
  BY <1>3, Here DEF history
<1> QED
  BY <1>1, <1>3, <1>6, <1>7, Here, Moved

LEMMA InvitingMoves ==
    ASSUME Shape, NEW r \in Requests, pc[r] \in {"invite", "exists"},
           NEW l \in {"failed", "exists", "save"}, pc' = [pc EXCEPT ![r] = l],
           NEW i \in Nat, row' = [row EXCEPT ![r] = i], l # "failed" => i \in DOMAIN fanpages,
           UNCHANGED <<tables, job, at, history>>
    PROVE  Good(r)
<1>1. ShapeOf(r) /\ pc[r] \in Suspended /\ job[r].op = "invite"
  BY Here DEF ShapeOf, Inviting, Suspended
<1>2. pc'[r] = l /\ row'[r] = i /\ at'[r] = at[r] /\ job'[r] = job[r] /\ fanpages' = fanpages
  BY Here DEF tables
<1>3. job[r] # NoJob
  BY <1>1 DEF NoJob
<1>4. ShapeOf(r)'
  BY <1>1, <1>2, <1>3 DEF ShapeOf, Connecting, Renewing, Inviting, OnItem, OnRow
<1>5. /\ at' = [at EXCEPT ![r] = at[r]]
      /\ lost' \subseteq DOMAIN fanpages /\ UNCHANGED <<tables, job, removed>>
  BY Here DEF history
<1>6. l \in Suspended \cup {"done", "failed"}
  BY DEF Suspended, Inviting
<1> QED
  BY <1>1, <1>4, <1>5, <1>6, Here, Moved

LEMMA InvitingGood ==
    ASSUME Shape, NEW r \in Requests, InvitePage(r) \/ InviteExists(r) PROVE Good(r)
<1>1. CASE InvitePage(r)
  <2>1. PICK l \in {"failed", "exists"}, i \in Nat :
          /\ l # "failed" => i \in DOMAIN fanpages
          /\ pc' = [pc EXCEPT ![r] = l]
          /\ row' = [row EXCEPT ![r] = i]
    BY <1>1, Here DEF InvitePage, Goto, TakeRow, RowsOf
  <2> QED
    BY <1>1, <2>1, InvitingMoves DEF InvitePage
<1>2. CASE InviteExists(r)
  <2> DEFINE l == IF IsMember(job[r].user, row[r]) THEN "failed" ELSE "save"
  <2>1. row[r] \in DOMAIN fanpages /\ row[r] \in Nat
    BY <1>2, Here DEF InviteExists, ShapeOf
  <2>2. row' = [row EXCEPT ![r] = row[r]] /\ pc' = [pc EXCEPT ![r] = l]
    BY <1>2, Here DEF InviteExists, Goto
  <2>3. l \in {"failed", "save"}
    OBVIOUS
  <2> HIDE DEF l
  <2> QED
    BY <1>2, <2>1, <2>2, <2>3, InvitingMoves DEF InviteExists
<1> QED
  BY <1>1, <1>2

LEMMA FailGood == ASSUME Shape, NEW r \in Requests, Fail(r) PROVE Good(r)
<1>1. ShapeOf(r) /\ pc[r] \in Suspended
  BY Here DEF Fail
<1>2. job[r] # NoJob
  BY <1>1 DEF ShapeOf, NoJob, Suspended
<1>3. pc' = [pc EXCEPT ![r] = "failed"] /\ UNCHANGED <<tables, job, at, row, removed>>
  BY DEF Fail, Goto
<1>4. lost' \subseteq DOMAIN fanpages
  BY <1>1, Here DEF Fail, ShapeOf, OnRow, RowsOf
<1>5. /\ pc'[r] = "failed" /\ at'[r] = at[r] /\ job'[r] = job[r] /\ fanpages' = fanpages
      /\ row'[r] = row[r]
  BY <1>3, Here DEF tables
<1>6. ShapeOf(r)'
  BY <1>1, <1>2, <1>5 DEF ShapeOf, Connecting, Renewing, Inviting, OnItem, OnRow
<1>7. row' = [row EXCEPT ![r] = row[r]] /\ at' = [at EXCEPT ![r] = at[r]]
  BY <1>3, Here
<1> QED
  BY <1>1, <1>3, <1>4, <1>6, <1>7, Here, Moved

LEMMA StartGood ==
    ASSUME Shape, NEW r \in Requests,
           ConnectFacebook(r) \/ ConnectTelegram(r) \/ Renew(r) \/ Invite(r)
    PROVE  Good(r)
<1>1. row[r] \in Nat /\ (UNCHANGED row => row' = [row EXCEPT ![r] = row[r]]) /\ DOMAIN fanpages \subseteq Nat
  BY Here
<1>2. CASE ConnectFacebook(r)
  <2>1. PICK u \in Users, list \in Accounts :
          job' = [job EXCEPT ![r] = [op |-> "connect", user |-> u, list |-> list]]
    BY <1>2 DEF ConnectFacebook
  <2> DEFINE j == [op |-> "connect", user |-> u, list |-> list]
  <2>2. j \in Job /\ j.op = "connect"
    BY DEF Job
  <2> HIDE DEF j
  <2> QED
    BY <1>1, <1>2, <2>1, <2>2, Started DEF ConnectFacebook, Step, Goto, j
<1>3. CASE ConnectTelegram(r)
  <2>1. PICK u \in Users, p \in TelegramPages :
          job' = [job EXCEPT ![r] = [op |-> "connect", user |-> u, list |-> <<p>>]]
    BY <1>3 DEF ConnectTelegram
  <2> DEFINE j == [op |-> "connect", user |-> u, list |-> <<p>>]
  <2>2. j \in Job /\ j.op = "connect"
    BY DEF Job
  <2> HIDE DEF j
  <2> QED
    BY <1>1, <1>3, <2>1, <2>2, Started DEF ConnectTelegram, Step, Goto, j
<1>4. CASE Renew(r)
  <2>1. PICK i \in DOMAIN fanpages, list \in Accounts :
          /\ row' = [row EXCEPT ![r] = i]
          /\ job' = [job EXCEPT ![r] = [op |-> "renew", list |-> list]]
    BY <1>4 DEF Renew, TakeRow
  <2> DEFINE j == [op |-> "renew", list |-> list]
  <2>2. j \in Job /\ j.op = "renew"
    BY DEF Job
  <2> HIDE DEF j
  <2> QED
    BY <1>1, <1>4, <2>1, <2>2, Started DEF Renew, Step, Goto, j
<1>5. CASE Invite(r)
  <2>1. PICK u \in Users, p \in AllPages, role \in Roles :
          job' = [job EXCEPT ![r] = [op |-> "invite", user |-> u, page |-> p, role |-> role]]
    BY <1>5 DEF Invite
  <2> DEFINE j == [op |-> "invite", user |-> u, page |-> p, role |-> role]
  <2>2. j \in Job /\ j.op = "invite"
    BY DEF Job
  <2> HIDE DEF j
  <2> QED
    BY <1>1, <1>5, <2>1, <2>2, Started DEF Invite, Step, Goto, j
<1> QED
  BY <1>2, <1>3, <1>4, <1>5
(* A statement on fanpages or on page_tokens, which keeps the pages there are. *)
LEMMA PageStep ==
    ASSUME Shape, NEW r \in Requests, pc[r] \in Suspended, UNCHANGED <<members, job, history>>,
           fanpages' \in Seq(Fanpage), DOMAIN fanpages \subseteq DOMAIN fanpages',
           \A p \in DOMAIN fanpages : fanpages'[p].page = fanpages[p].page,
           NEW l \in Suspended \cup {"failed"}, pc' = [pc EXCEPT ![r] = l],
           NEW k \in Nat, at' = [at EXCEPT ![r] = k],
           NEW i \in Nat, row' = [row EXCEPT ![r] = i],
           ShapeOf(r)'
    PROVE  Good(r)
<1>1. TypeOK /\ members' = members /\ lost' = lost /\ removed' = removed /\ job' = job
  BY DEF Shape, history
<1>2. /\ pc' \in [Requests -> Suspended \cup {"new", "done", "failed"}]
      /\ at' \in [Requests -> Nat]
      /\ row' \in [Requests -> Nat]
  BY <1>1 DEF TypeOK
<1>3. TypeOK'
  BY <1>1, <1>2 DEF TypeOK
<1>4. Frame(r)
  BY <1>1 DEF Frame, TypeOK
<1> QED
  BY <1>1, <1>3, <1>4 DEF Good, Shape

LEMMA InsertPageGood == ASSUME Shape, NEW r \in Requests, InsertPage(r) PROVE Good(r)
<1>1. /\ ShapeOf(r) /\ pc[r] = "insertPage" /\ job[r].op = "connect" /\ pc[r] \in Suspended
      /\ at[r] <= Len(job[r].list)
  BY Here DEF InsertPage, ShapeOf, Connecting, Suspended, OnItem
<1>2. at[r] \in 1 .. Len(job[r].list) + 1 /\ Item(r) \in AllPages
  BY <1>1, AtItem
<1>3. /\ UNCHANGED <<members, job, at, history>> /\ at' = [at EXCEPT ![r] = at[r]]
      /\ at'[r] = at[r] /\ job'[r] = job[r] /\ Item(r)' = Item(r)
  BY Here DEF InsertPage, Item
<1>4. job[r] # NoJob
  BY <1>1 DEF NoJob
<1>5. CASE RowsOf(Item(r)) = {}
  <2>1. Create(r, Item(r)) /\ pc' = [pc EXCEPT ![r] = "insertToken"]
    BY <1>5 DEF InsertPage, Goto
  <2>2. /\ fanpages' \in Seq(Fanpage)
        /\ DOMAIN fanpages' = (DOMAIN fanpages) \cup {Len(fanpages) + 1}
        /\ \A i \in DOMAIN fanpages : fanpages'[i] = fanpages[i]
        /\ fanpages'[Len(fanpages) + 1].page = Item(r)
    <3>1. fanpages \in Seq(Fanpage) /\ Item(r) \in AllPages /\ Create(r, Item(r))
      BY <1>2, <2>1 DEF Shape, TypeOK
    <3>2. fanpages'[Len(fanpages) + 1] = [page |-> Item(r), access |-> r, token |-> NoToken]
      BY <3>1, Appended
    <3>3. /\ fanpages' \in Seq(Fanpage)
          /\ DOMAIN fanpages' = (DOMAIN fanpages) \cup {Len(fanpages) + 1}
          /\ \A i \in DOMAIN fanpages : fanpages'[i] = fanpages[i]
      BY <3>1, Appended
    <3>4. fanpages'[Len(fanpages) + 1].page = Item(r)
      BY <3>2
    <3> QED
      BY <3>3, <3>4
  <2>3. Len(fanpages) + 1 \in Nat
    BY LenProperties DEF Shape, TypeOK
  <2>4. row' = [row EXCEPT ![r] = Len(fanpages) + 1] /\ row'[r] = Len(fanpages) + 1
        /\ pc'[r] = "insertToken"
    BY <2>1, Here DEF Create, TakeRow
  <2>5. row'[r] \in RowsOf(Item(r))'
    BY <1>3, <2>2, <2>4 DEF RowsOf
  <2>6. ShapeOf(r)'
    BY <1>1, <1>2, <1>3, <1>4, <2>4, <2>5
    DEF ShapeOf, Connecting, Renewing, Inviting, OnItem, OnRow
  <2>7. "insertToken" \in Suspended
    BY DEF Suspended, Connecting
  <2> QED
    BY <1>1, <1>3, <2>1, <2>2, <2>3, <2>4, <2>6, <2>7, Here, PageStep
<1>6. CASE RowsOf(Item(r)) # {}
  <2>1. pc' = [pc EXCEPT ![r] = "failed"] /\ fanpages' = fanpages /\ row' = row
    BY <1>6 DEF InsertPage, Goto
  <2>2. pc'[r] = "failed" /\ row' = [row EXCEPT ![r] = row[r]]
    BY <2>1, Here
  <2>3. ShapeOf(r)'
    BY <1>1, <1>2, <1>3, <1>4, <2>1, <2>2
    DEF ShapeOf, Connecting, Renewing, Inviting, OnItem, OnRow
  <2>4. /\ fanpages' \in Seq(Fanpage) /\ DOMAIN fanpages \subseteq DOMAIN fanpages'
        /\ \A p \in DOMAIN fanpages : fanpages'[p].page = fanpages[p].page
    BY <2>1 DEF Shape, TypeOK
  <2> QED
    BY <1>1, <1>3, <2>1, <2>2, <2>3, <2>4, Here, PageStep
<1> QED
  BY <1>5, <1>6

(* UPDATE page_tokens: what it does whether or not there is a row. *)
LEMMA SetTokenDoes ==
    ASSUME fanpages \in Seq(Fanpage), NEW i \in DOMAIN fanpages,
           NEW token \in AllPages \X Requests, SetToken(i, token)
    PROVE  /\ fanpages' \in Seq(Fanpage)
           /\ DOMAIN fanpages' = DOMAIN fanpages
           /\ \A j \in DOMAIN fanpages : fanpages'[j].page = fanpages[j].page
           /\ \A j \in DOMAIN fanpages : j # i => fanpages'[j].token = fanpages[j].token
           /\ fanpages[i].token = NoToken => fanpages'[i].token = NoToken
           /\ fanpages[i].token # NoToken => fanpages'[i].token = token
<1>1. CASE fanpages[i].token = NoToken
  BY <1>1 DEF SetToken
<1>2. CASE fanpages[i].token # NoToken
  BY <1>2, TokenSet DEF SetToken
<1> QED
  BY <1>1, <1>2

(* The steps that only touch the row a request has taken. *)
OnTakenRow(r) ==
    InsertToken(r) \/ UpdatePage(r) \/ UpdateToken(r) \/ RenewPage(r) \/ RenewToken(r)

LEMMA OnTakenRowDoes ==
    ASSUME Shape, NEW r \in Requests, OnTakenRow(r)
    PROVE  /\ fanpages' \in Seq(Fanpage)
           /\ DOMAIN fanpages' = DOMAIN fanpages
           /\ \A i \in DOMAIN fanpages : fanpages'[i].page = fanpages[i].page
           /\ \A i \in DOMAIN fanpages : i # row[r] => fanpages'[i].token = fanpages[i].token
           /\ row[r] \in DOMAIN fanpages
           /\ UpdatePage(r) \/ RenewPage(r) => fanpages'[row[r]].token = fanpages[row[r]].token
           /\ UpdateToken(r) \/ RenewToken(r) =>
                 fanpages'[row[r]].token =
                    IF fanpages[row[r]].token = NoToken THEN NoToken ELSE <<Item(r), r>>
           /\ InsertToken(r) => fanpages'[row[r]].token = <<Item(r), r>>
           /\ job[r].op \in {"connect", "renew"}
           /\ More(r) /\ Item(r) \in AllPages
<1>1. /\ fanpages \in Seq(Fanpage) /\ ShapeOf(r)
      /\ pc[r] \in {"insertToken", "page", "token", "renewPage", "renewToken"}
  BY DEF Shape, TypeOK, OnTakenRow, InsertToken, UpdatePage, UpdateToken, RenewPage, RenewToken, Step
<1>2. job[r].op \in {"connect", "renew"} /\ row[r] \in DOMAIN fanpages
  BY <1>1 DEF ShapeOf, Connecting, Renewing, OnRow, RowsOf
<1>3. More(r)
  <2>1. CASE RenewPage(r)
    BY <2>1 DEF RenewPage
  <2>2. CASE ~ RenewPage(r)
    <3>1. pc[r] \in OnItem
      BY <2>2 DEF OnTakenRow, InsertToken, UpdatePage, UpdateToken, RenewToken, Step, OnItem
    <3> QED
      BY <1>1, <1>2, <3>1, AtItem DEF ShapeOf
  <2> QED
    BY <2>1, <2>2
<1>4. Item(r) \in AllPages /\ <<Item(r), r>> \in AllPages \X Requests
  BY <1>2, <1>3, AtItem
<1>5. CASE InsertToken(r)
  <2>1. fanpages' = [fanpages EXCEPT ![row[r]].token = <<Item(r), r>>] /\ pc[r] = "insertToken"
    BY <1>5 DEF InsertToken, Step
  <2>2. ~ UpdatePage(r) /\ ~ RenewPage(r) /\ ~ UpdateToken(r) /\ ~ RenewToken(r)
    BY <2>1 DEF UpdatePage, RenewPage, UpdateToken, RenewToken, Step
  <2> QED
    BY <1>1, <1>2, <1>3, <1>4, <2>1, <2>2, TokenSet
<1>6. CASE UpdatePage(r) \/ RenewPage(r)
  <2>1. fanpages' = [fanpages EXCEPT ![row[r]].access = r] /\ pc[r] \in {"page", "renewPage"}
    BY <1>6 DEF UpdatePage, RenewPage, Step
  <2>2. ~ InsertToken(r) /\ ~ UpdateToken(r) /\ ~ RenewToken(r)
    BY <2>1 DEF InsertToken, UpdateToken, RenewToken, Step
  <2> QED
    BY <1>1, <1>2, <1>3, <1>4, <2>1, <2>2, AccessSet
<1>7. CASE UpdateToken(r) \/ RenewToken(r)
  <2>1. SetToken(row[r], <<Item(r), r>>) /\ pc[r] \in {"token", "renewToken"}
    BY <1>7 DEF UpdateToken, RenewToken, Step
  <2>2. ~ InsertToken(r) /\ ~ UpdatePage(r) /\ ~ RenewPage(r)
    BY <2>1 DEF InsertToken, UpdatePage, RenewPage, Step
  <2> QED
    BY <1>1, <1>2, <1>3, <1>4, <2>1, <2>2, SetTokenDoes
<1> QED
  BY <1>5, <1>6, <1>7 DEF OnTakenRow

LEMMA OnTakenRowGood == ASSUME Shape, NEW r \in Requests, OnTakenRow(r) PROVE Good(r)
<1>1. /\ fanpages' \in Seq(Fanpage) /\ DOMAIN fanpages' = DOMAIN fanpages
      /\ \A i \in DOMAIN fanpages : fanpages'[i].page = fanpages[i].page
      /\ row[r] \in DOMAIN fanpages
      /\ job[r].op \in {"connect", "renew"} /\ More(r)
  BY OnTakenRowDoes
<1>2. /\ ShapeOf(r) /\ pc[r] \in {"insertToken", "page", "token", "renewPage", "renewToken"}
      /\ pc[r] \in Suspended
  BY DEF Shape, OnTakenRow, InsertToken, UpdatePage, UpdateToken, RenewPage, RenewToken, Step,
         Suspended, Connecting, Renewing
<1>3. /\ at[r] \in Nat /\ at[r] \in 1 .. Len(job[r].list) + 1 /\ at[r] <= Len(job[r].list)
      /\ Len(job[r].list) \in Nat /\ row[r] \in Nat
  BY <1>1, AtItem, Here
<1>4. UNCHANGED <<members, job, row, history>> /\ row' = [row EXCEPT ![r] = row[r]]
  BY Here DEF OnTakenRow, InsertToken, UpdatePage, UpdateToken, RenewPage, RenewToken
<1>5. job'[r] = job[r] /\ row'[r] = row[r]
  BY <1>4
<1>6. CASE InsertToken(r) \/ UpdatePage(r) \/ UpdateToken(r)
  <2>1. PICK l \in {"page", "token", "member"} : pc' = [pc EXCEPT ![r] = l]
    BY <1>6 DEF InsertToken, UpdatePage, UpdateToken, Step, Goto
  <2>2. at' = [at EXCEPT ![r] = at[r]] /\ at'[r] = at[r] /\ pc'[r] = l /\ Item(r)' = Item(r)
    BY <1>5, <1>6, <2>1, Here DEF InsertToken, UpdatePage, UpdateToken, Item
  <2>3. pc[r] \in {"insertToken", "page", "token"}
    BY <1>6 DEF InsertToken, UpdatePage, UpdateToken, Step
  <2>4. job[r].op = "connect" /\ row'[r] \in RowsOf(Item(r))'
    BY <1>1, <1>2, <1>5, <2>2, <2>3 DEF ShapeOf, Connecting, OnRow, RowsOf
  <2>5. ShapeOf(r)'
    BY <1>1, <1>2, <1>3, <1>5, <2>1, <2>2, <2>4
    DEF ShapeOf, Connecting, Renewing, Inviting, OnItem, OnRow
  <2>6. l \in Suspended
    BY DEF Suspended, Connecting
  <2> QED
    BY <1>1, <1>2, <1>3, <1>4, <2>1, <2>2, <2>5, <2>6, PageStep
<1>7. CASE RenewPage(r)
  <2>1. pc' = [pc EXCEPT ![r] = "renewToken"] /\ pc[r] = "renewPage"
    BY <1>7 DEF RenewPage, Step, Goto
  <2>2. at' = [at EXCEPT ![r] = at[r]] /\ at'[r] = at[r] /\ pc'[r] = "renewToken"
    BY <1>7, <2>1, Here DEF RenewPage
  <2>3. ShapeOf(r)'
    BY <1>1, <1>2, <1>3, <1>5, <2>1, <2>2
    DEF ShapeOf, Connecting, Renewing, Inviting, OnItem, OnRow
  <2>4. "renewToken" \in Suspended
    BY DEF Suspended, Renewing
  <2> QED
    BY <1>1, <1>2, <1>3, <1>4, <2>1, <2>2, <2>3, <2>4, PageStep
<1>8. CASE RenewToken(r)
  <2>1. pc' = [pc EXCEPT ![r] = "renewPage"] /\ pc[r] = "renewToken"
    BY <1>8 DEF RenewToken, Step, Goto
  <2>2. at' = [at EXCEPT ![r] = at[r] + 1] /\ at'[r] = at[r] + 1 /\ pc'[r] = "renewPage"
    BY <1>8, <2>1, Here DEF RenewToken, NextItem
  <2>3. ShapeOf(r)'
    BY <1>1, <1>2, <1>3, <1>5, <2>1, <2>2
    DEF ShapeOf, Connecting, Renewing, Inviting, OnItem, OnRow
  <2>4. "renewPage" \in Suspended /\ at[r] + 1 \in Nat
    BY <1>3 DEF Suspended, Renewing
  <2> QED
    BY <1>1, <1>2, <1>3, <1>4, <2>1, <2>2, <2>3, <2>4, PageStep
<1> QED
  BY <1>6, <1>7, <1>8 DEF OnTakenRow
(* The rows of user_pages that a step of r leaves are old ones, but for one. *)
MembersStep(r, m) ==
    /\ m \in Member /\ m.user = job[r].user /\ m.row = row[r]
    /\ \/ members' = {x \in members : ~ (x.user = m.user /\ x.row = m.row)} \cup {m} /\ m.role = Admin
       \/ members' = members \cup {m} /\ ~ IsMember(m.user, m.row)
       \/ members' = members

LEMMA MembersDo ==
    ASSUME Shape, NEW r \in Requests, UpsertMember(r) \/ InviteSave(r)
    PROVE  /\ \E m : MembersStep(r, m)
           /\ row[r] \in DOMAIN fanpages
<1>1. ShapeOf(r) /\ row[r] \in Nat /\ job[r] \in Job \cup {NoJob}
  BY Here
<1>2. CASE UpsertMember(r)
  <2> DEFINE m == [user |-> job[r].user, row |-> row[r], role |-> Admin]
  <2>1. job[r].user \in Users /\ row[r] \in DOMAIN fanpages
    BY <1>1, <1>2, JobIs DEF UpsertMember, Step, ShapeOf, Connecting, OnRow, RowsOf
  <2>2. m \in Member /\ m.user = job[r].user /\ m.row = row[r] /\ m.role = Admin
    BY <1>1, <2>1 DEF Member, Roles
  <2>3. members' = {x \in members : ~ (x.user = m.user /\ x.row = m.row)} \cup {m}
    BY <1>2 DEF UpsertMember
  <2> HIDE DEF m
  <2>4. MembersStep(r, m)
    BY <2>2, <2>3 DEF MembersStep
  <2> QED
    BY <2>1, <2>4
<1>3. CASE InviteSave(r)
  <2> DEFINE m == [user |-> job[r].user, row |-> row[r], role |-> job[r].role]
  <2>1. job[r].user \in Users /\ job[r].role \in Roles /\ row[r] \in DOMAIN fanpages
    BY <1>1, <1>3, JobIs DEF InviteSave, ShapeOf, Inviting
  <2>2. m \in Member /\ m.user = job[r].user /\ m.row = row[r]
    BY <1>1, <2>1 DEF Member
  <2>3. members' = members \/ (members' = members \cup {m} /\ ~ IsMember(m.user, m.row))
    BY <1>3 DEF InviteSave
  <2> HIDE DEF m
  <2>4. MembersStep(r, m)
    BY <2>2, <2>3 DEF MembersStep
  <2> QED
    BY <2>1, <2>4
<1> QED
  BY <1>2, <1>3

LEMMA MembersGood ==
    ASSUME Shape, NEW r \in Requests, UpsertMember(r) \/ InviteSave(r) PROVE Good(r)
<1>1. PICK m : MembersStep(r, m)
  BY MembersDo
<1>2. row[r] \in DOMAIN fanpages /\ m.row = row[r] /\ m \in Member
  BY <1>1, MembersDo DEF MembersStep
<1>3. members' \subseteq members \cup {m}
  BY <1>1 DEF MembersStep
<1>4. members' \subseteq Member /\ \A x \in members' : x.row \in DOMAIN fanpages
  BY <1>2, <1>3 DEF Shape, TypeOK
<1>5. UNCHANGED <<fanpages, job, at, row, history>>
  BY DEF UpsertMember, InviteSave
<1>6. PICK l \in {"subscribe", "done", "failed"} :
        /\ pc' = [pc EXCEPT ![r] = l]
        /\ l = "subscribe" <=> pc[r] = "member"
  BY DEF UpsertMember, InviteSave, Step, Goto
<1>7. ShapeOf(r) /\ TypeOK /\ pc[r] \in {"member", "save"}
  BY Here DEF Shape, UpsertMember, InviteSave, Step
<1>8. pc'[r] = l /\ at'[r] = at[r] /\ job'[r] = job[r] /\ row'[r] = row[r] /\ fanpages' = fanpages
  BY <1>5, <1>6, <1>7 DEF TypeOK
<1>9. Item(r)' = Item(r) /\ RowsOf(Item(r))' = RowsOf(Item(r))
  BY <1>8 DEF RowsOf, Item
<1>10. job[r] # NoJob /\ (l # "subscribe" => job[r].op = "invite")
  BY <1>6, <1>7 DEF ShapeOf, NoJob, Connecting, Inviting
<1>11. ShapeOf(r)'
  BY <1>6, <1>7, <1>8, <1>9, <1>10 DEF ShapeOf, Connecting, Renewing, Inviting, OnItem, OnRow
<1>12. pc' \in [Requests -> Suspended \cup {"new", "done", "failed"}]
  BY <1>6, <1>7 DEF TypeOK, Suspended, Connecting
<1>13. TypeOK'
  BY <1>4, <1>5, <1>7, <1>12 DEF TypeOK, history
<1>14. Frame(r)
  BY <1>5, <1>6, <1>7 DEF Frame, TypeOK
<1> QED
  BY <1>4, <1>5, <1>11, <1>13, <1>14 DEF Good, Shape, history

LEMMA ActsGood == ASSUME Shape, NEW r \in Requests, Acts(r) PROVE Good(r)
BY StartGood, FindPageGood, InsertPageGood, OnTakenRowGood, MembersGood, SubscribeGood, EndedGood,
   InvitingGood, FailGood
DEF Acts, Connects, Renews, Invites, OnTakenRow

LEMMA NextShape == Shape /\ [Next]_vars => Shape'
<1> SUFFICES ASSUME Shape, [Next]_vars PROVE Shape'
  OBVIOUS
<1>1. CASE \E r \in Requests : Acts(r)
  BY <1>1, ActsGood, GoodKeepsShape
<1>2. CASE Remove
  <2>1. /\ members' \subseteq members /\ UNCHANGED <<fanpages, job, pc, at, row, lost>>
        /\ removed' \subseteq Users \X Nat
    BY <1>2 DEF Remove, Shape, TypeOK, Member
  <2>2. \A r \in Requests : ShapeOf(r)'
    BY <2>1 DEF Shape, ShapeOf, RowsOf, Item
  <2> QED
    BY <2>1, <2>2 DEF Shape, TypeOK
<1>3. CASE UNCHANGED vars
  <2>1. \A r \in Requests : ShapeOf(r)'
    BY <1>3 DEF vars, Shape, ShapeOf, RowsOf, Item
  <2> QED
    BY <1>3, <2>1 DEF vars, Shape, TypeOK
<1> QED
  BY <1>1, <1>2, <1>3 DEF Next, Acts

LEMMA ShapeAlways == Spec => []Shape
BY InitShape, NextShape, PTL DEF Spec

(* Every variable keeps its type, whichever requests run side by side and   *)
(* wherever they fail.                                                      *)
THEOREM PagesTypeCorrect == Spec => []TypeOK
<1>1. Shape => TypeOK
  BY DEF Shape
<1> QED
  BY <1>1, ShapeAlways, PTL
-----------------------------------------------------------------------------
(* What a step does to the tables *)

(* A page is created. *)
Creates(r) == pc[r] = "insertPage" /\ RowsOf(Item(r)) = {} /\ Create(r, Item(r))

LEMMA CreatesDoes ==
    ASSUME Shape, NEW r \in Requests, Creates(r)
    PROVE  /\ DOMAIN fanpages' = (DOMAIN fanpages) \cup {Len(fanpages) + 1}
           /\ Len(fanpages) + 1 \notin DOMAIN fanpages
           /\ \A i \in DOMAIN fanpages : fanpages'[i] = fanpages[i]
           /\ fanpages'[Len(fanpages) + 1].page = Item(r)
           /\ fanpages'[Len(fanpages) + 1].token = NoToken
           /\ row'[r] = Len(fanpages) + 1
<1>1. /\ fanpages \in Seq(Fanpage) /\ Len(fanpages) \in Nat
      /\ DOMAIN fanpages = 1 .. Len(fanpages) /\ row \in [Requests -> Nat]
  BY LenProperties DEF Shape, TypeOK
<1>2. job[r].op = "connect" /\ at[r] <= Len(job[r].list)
  BY DEF Shape, Creates, ShapeOf, Connecting, OnItem
<1>3. Item(r) \in AllPages
  BY <1>2, AtItem
<1>4. Create(r, Item(r))
  BY DEF Creates
<1>5. /\ DOMAIN fanpages' = (DOMAIN fanpages) \cup {Len(fanpages) + 1}
      /\ \A i \in DOMAIN fanpages : fanpages'[i] = fanpages[i]
  BY <1>1, <1>3, <1>4, Appended
<1>6. fanpages'[Len(fanpages) + 1] = [page |-> Item(r), access |-> r, token |-> NoToken]
  BY <1>1, <1>3, <1>4, Appended
<1>7. row'[r] = Len(fanpages) + 1
  BY <1>1, <1>4 DEF Create, TakeRow
<1>8. Len(fanpages) + 1 \notin DOMAIN fanpages
  BY <1>1
<1> QED
  BY <1>5, <1>6, <1>7, <1>8

LEMMA PagesDo ==
    ASSUME Shape, NEW r \in Requests, Acts(r)
    PROVE  \/ fanpages' = fanpages /\ ~ Creates(r) /\ ~ OnTakenRow(r)
           \/ Creates(r) /\ InsertPage(r) /\ pc'[r] = "insertToken"
           \/ OnTakenRow(r)
<1>1. pc \in [Requests -> Suspended \cup {"new", "done", "failed"}]
  BY Here
<1>2. CASE InsertPage(r)
  BY <1>1, <1>2 DEF InsertPage, Creates, Goto, OnTakenRow, InsertToken, UpdatePage, UpdateToken,
     RenewPage, RenewToken, Step
<1>3. CASE OnTakenRow(r)
  BY <1>3
<1>4. CASE ~ InsertPage(r) /\ ~ OnTakenRow(r)
  <2>1. fanpages' = fanpages
    BY <1>4 DEF Acts, Connects, Renews, Invites, OnTakenRow, ConnectFacebook, ConnectTelegram,
       FindPage, UpsertMember, Subscribe, Connected, Renew, Renewed, Invite, InvitePage,
       InviteExists, InviteSave, Fail, tables
  <2>2. ~ Creates(r)
    <3> SUFFICES ASSUME Creates(r) PROVE FALSE
      OBVIOUS
    <3>1. Len(fanpages) + 1 \in DOMAIN fanpages' /\ Len(fanpages) + 1 \notin DOMAIN fanpages
      BY CreatesDoes
    <3> QED
      BY <2>1, <3>1
  <2> QED
    BY <1>4, <2>1, <2>2
<1> QED
  BY <1>2, <1>3, <1>4

(* Where a step can bring a request. *)
LEMMA LabelsDo ==
    ASSUME Shape, NEW r \in Requests, Acts(r)
    PROVE  /\ Frame(r) /\ ShapeOf(r)'
           /\ pc'[r] = "insertToken" => Creates(r)
           /\ pc[r] = "insertToken" => InsertToken(r) \/ Fail(r)
           /\ lost' # lost => Fail(r) /\ pc[r] = "insertToken" /\ lost' = lost \cup {row[r]}
           /\ Fail(r) => pc'[r] = "failed" /\ fanpages' = fanpages
<1>1. Frame(r) /\ ShapeOf(r)'
  BY ActsGood DEF Good
<1>2. pc \in [Requests -> Suspended \cup {"new", "done", "failed"}]
  BY Here
<1>3. pc'[r] = "insertToken" => Creates(r)
  BY <1>2 DEF Acts, Connects, Renews, Invites, ConnectFacebook, ConnectTelegram, FindPage,
     InsertPage, InsertToken, UpdatePage, UpdateToken, UpsertMember, Subscribe, Connected, Renew,
     RenewPage, RenewToken, Renewed, Invite, InvitePage, InviteExists, InviteSave, Fail, Step,
     Goto, Creates
<1>4. pc[r] = "insertToken" => InsertToken(r) \/ Fail(r)
  BY DEF Acts, Connects, Renews, Invites, ConnectFacebook, ConnectTelegram, FindPage,
     InsertPage, UpdatePage, UpdateToken, UpsertMember, Subscribe, Connected, Renew,
     RenewPage, RenewToken, Renewed, Invite, InvitePage, InviteExists, InviteSave, Step
<1>5. lost' # lost => Fail(r) /\ pc[r] = "insertToken" /\ lost' = lost \cup {row[r]}
  BY DEF Acts, Connects, Renews, Invites, ConnectFacebook, ConnectTelegram, FindPage,
     InsertPage, InsertToken, UpdatePage, UpdateToken, UpsertMember, Subscribe, Connected, Renew,
     RenewPage, RenewToken, Renewed, Invite, InvitePage, InviteExists, InviteSave, Fail, history
<1>6. Fail(r) => pc'[r] = "failed" /\ fanpages' = fanpages
  BY <1>2 DEF Fail, Goto, tables
<1> QED
  BY <1>1, <1>3, <1>4, <1>5, <1>6
-----------------------------------------------------------------------------
(* One row per page, one per member *)

LEMMA MembersStepKeepsUnique ==
    ASSUME RowsAreUnique, NEW r, NEW m, MembersStep(r, m)
    PROVE  \A x, y \in members' : x.user = y.user /\ x.row = y.row => x = y
<1>1. \A x, y \in members : x.user = y.user /\ x.row = y.row => x = y
  BY DEF RowsAreUnique
<1>2. CASE members' = {x \in members : ~ (x.user = m.user /\ x.row = m.row)} \cup {m}
  BY <1>1, <1>2
<1>3. CASE members' = members \cup {m} /\ ~ IsMember(m.user, m.row)
  BY <1>1, <1>3 DEF IsMember
<1>4. CASE members' = members
  BY <1>1, <1>4
<1> QED
  BY <1>2, <1>3, <1>4 DEF MembersStep

LEMMA MembersOrNot ==
    ASSUME Shape, NEW r \in Requests, Acts(r)
    PROVE  members' = members \/ \E m : MembersStep(r, m)
<1>1. CASE UpsertMember(r) \/ InviteSave(r)
  BY <1>1, MembersDo
<1>2. CASE ~ UpsertMember(r) /\ ~ InviteSave(r)
  BY <1>2 DEF Acts, Connects, Renews, Invites, ConnectFacebook, ConnectTelegram, FindPage,
     InsertPage, InsertToken, UpdatePage, UpdateToken, Subscribe, Connected, Renew,
     RenewPage, RenewToken, Renewed, Invite, InvitePage, InviteExists, Fail, tables
<1> QED
  BY <1>1, <1>2

LEMMA NextUnique == Shape /\ RowsAreUnique /\ [Next]_vars => RowsAreUnique'
<1> SUFFICES ASSUME Shape, RowsAreUnique, [Next]_vars PROVE RowsAreUnique'
  OBVIOUS
<1>1. ASSUME NEW r \in Requests, Acts(r) PROVE RowsAreUnique'
  <2>1. \A x, y \in members' : x.user = y.user /\ x.row = y.row => x = y
    BY <1>1, MembersOrNot, MembersStepKeepsUnique DEF RowsAreUnique
  <2>2. \A i, j \in DOMAIN fanpages' : fanpages'[i].page = fanpages'[j].page => i = j
    <3>1. \A i, j \in DOMAIN fanpages : fanpages[i].page = fanpages[j].page => i = j
      BY DEF RowsAreUnique
    <3>2. CASE fanpages' = fanpages
      BY <3>1, <3>2
    <3>3. CASE Creates(r)
      <4>1. \A i \in DOMAIN fanpages : fanpages[i].page # Item(r)
        BY <3>3 DEF Creates, RowsOf
      <4>2. /\ DOMAIN fanpages' = (DOMAIN fanpages) \cup {Len(fanpages) + 1}
            /\ \A i \in DOMAIN fanpages : fanpages'[i] = fanpages[i]
            /\ fanpages'[Len(fanpages) + 1].page = Item(r)
        BY <3>3, CreatesDoes
      <4> QED
        BY <3>1, <4>1, <4>2
    <3>4. CASE OnTakenRow(r)
      <4>1. /\ DOMAIN fanpages' = DOMAIN fanpages
            /\ \A i \in DOMAIN fanpages : fanpages'[i].page = fanpages[i].page
        BY <3>4, OnTakenRowDoes
      <4> QED
        BY <3>1, <4>1
    <3> QED
      BY <1>1, <3>2, <3>3, <3>4, PagesDo
  <2> QED
    BY <2>1, <2>2 DEF RowsAreUnique
<1>2. CASE Remove
  BY <1>2 DEF Remove, RowsAreUnique
<1>3. CASE UNCHANGED vars
  BY <1>3 DEF vars, RowsAreUnique
<1> QED
  BY <1>1, <1>2, <1>3 DEF Next, Acts

(* A page has one row and a user is a member of it once, although a         *)
(* connection looks a page up in one statement and inserts it in another,   *)
(* and an invitation does so with a member.                                 *)
THEOREM PagesAndMembersAreUnique == Spec => []RowsAreUnique
<1>1. Init => RowsAreUnique
  BY DEF Init, RowsAreUnique
<1> QED
  BY <1>1, NextUnique, ShapeAlways, PTL DEF Spec

-----------------------------------------------------------------------------
(* Pages without a token *)

Inserting == {r \in Requests : pc[r] = "insertToken"}

LostInv ==
    /\ \A i \in lost : fanpages[i].token = NoToken
    /\ \A r \in Inserting : fanpages[row[r]].token = NoToken /\ row[r] \notin lost
    /\ \A r, s \in Inserting : row[r] = row[s] => r = s
    /\ TokenlessIsLost

LEMMA InsertingHaveRows == ASSUME Shape, NEW r \in Inserting PROVE row[r] \in DOMAIN fanpages
BY DEF Shape, Inserting, ShapeOf, OnRow, RowsOf

LEMMA ActsLost ==
    ASSUME Shape, LostInv, NEW r \in Requests, Acts(r)
    PROVE  /\ LostInv'
           /\ \A i \in lost : fanpages[i].token = NoToken /\ fanpages'[i].token = NoToken
<1>1. /\ \A i \in lost : fanpages[i].token = NoToken
      /\ \A s \in Inserting : fanpages[row[s]].token = NoToken /\ row[s] \notin lost
      /\ \A s, t \in Inserting : row[s] = row[t] => s = t
      /\ \A i \in DOMAIN fanpages :
            fanpages[i].token = NoToken => i \in lost \/ \E s \in Inserting : row[s] = i
  BY DEF LostInv, TokenlessIsLost, Inserting
<1>2. /\ \A s \in Requests \ {r} : pc'[s] = pc[s] /\ row'[s] = row[s]
      /\ pc'[r] = "insertToken" => Creates(r)
      /\ pc[r] = "insertToken" => InsertToken(r) \/ Fail(r)
      /\ lost' # lost => Fail(r) /\ pc[r] = "insertToken" /\ lost' = lost \cup {row[r]}
      /\ Fail(r) => pc'[r] = "failed" /\ fanpages' = fanpages
  BY LabelsDo DEF Frame
<1>3. lost \subseteq DOMAIN fanpages /\ \A s \in Inserting : row[s] \in DOMAIN fanpages
  BY InsertingHaveRows DEF Shape
<1> SUFFICES
      /\ \A i \in lost' : fanpages'[i].token = NoToken
      /\ \A s \in Inserting' : fanpages'[row'[s]].token = NoToken /\ row'[s] \notin lost'
      /\ \A s, t \in Inserting' : row'[s] = row'[t] => s = t
      /\ \A i \in DOMAIN fanpages' :
            fanpages'[i].token = NoToken => i \in lost' \/ \E s \in Inserting' : row'[s] = i
      /\ \A i \in lost : fanpages[i].token = NoToken /\ fanpages'[i].token = NoToken
  BY DEF LostInv, TokenlessIsLost, Inserting
<1>4. CASE Creates(r)
  <2> DEFINE n == Len(fanpages) + 1
  <2>1. /\ DOMAIN fanpages' = (DOMAIN fanpages) \cup {n}
        /\ n \notin DOMAIN fanpages
        /\ \A i \in DOMAIN fanpages : fanpages'[i] = fanpages[i]
        /\ fanpages'[n].token = NoToken
        /\ row'[r] = n
    BY <1>4, CreatesDoes
  <2>2. pc[r] = "insertPage" /\ lost' = lost
    BY <1>2, <1>4 DEF Creates
  <2>3. fanpages' # fanpages
    BY <2>1
  <2>4. pc'[r] = "insertToken"
    BY <1>4, <2>3, PagesDo DEF Creates, OnTakenRow, InsertToken, UpdatePage, UpdateToken,
       RenewPage, RenewToken, Step
  <2>5. Inserting' = Inserting \cup {r} /\ r \notin Inserting
    BY <1>2, <2>2, <2>4 DEF Inserting
  <2>6. \A s \in Inserting : row'[s] = row[s]
    BY <1>2, <2>5 DEF Inserting
  <2> HIDE DEF n
  <2> QED
    BY <1>1, <1>3, <2>1, <2>2, <2>5, <2>6
<1>5. CASE OnTakenRow(r)
  <2>1. /\ DOMAIN fanpages' = DOMAIN fanpages
        /\ \A i \in DOMAIN fanpages : i # row[r] => fanpages'[i].token = fanpages[i].token
        /\ row[r] \in DOMAIN fanpages
        /\ UpdatePage(r) \/ RenewPage(r) => fanpages'[row[r]].token = fanpages[row[r]].token
        /\ UpdateToken(r) \/ RenewToken(r) =>
              fanpages'[row[r]].token =
                 IF fanpages[row[r]].token = NoToken THEN NoToken ELSE <<Item(r), r>>
        /\ InsertToken(r) => fanpages'[row[r]].token = <<Item(r), r>>
    BY <1>5, OnTakenRowDoes
  <2>2. Item(r) \in AllPages /\ <<Item(r), r>> # NoToken
    <3>1. Item(r) \in AllPages
      BY <1>5, OnTakenRowDoes
    <3>2. <<Item(r), r>> \in AllPages \X Requests
      BY <3>1
    <3> QED
      BY <3>1, <3>2, PagesAssumption
  <2>3. ~ Creates(r) /\ row' = row /\ lost' = lost
    BY <1>5 DEF OnTakenRow, InsertToken, UpdatePage, UpdateToken, RenewPage, RenewToken, Step,
       Creates, history
  <2>4. Inserting' = Inserting \ {r}
    BY <1>2, <2>3 DEF Inserting
  <2>5. CASE InsertToken(r)
    <3>1. r \in Inserting
      BY <2>5 DEF InsertToken, Step, Inserting
    <3>2. fanpages'[row[r]].token # NoToken
      BY <2>1, <2>2, <2>5
    <3> QED
      BY <1>1, <1>3, <2>1, <2>3, <2>4, <3>1, <3>2
  <2>6. CASE ~ InsertToken(r)
    <3>1. pc[r] # "insertToken"
      BY <1>5, <2>6 DEF OnTakenRow, UpdatePage, UpdateToken, RenewPage, RenewToken, Step
    <3>2. Inserting' = Inserting
      BY <2>4, <3>1 DEF Inserting
    <3>3. \A i \in DOMAIN fanpages : fanpages'[i].token = NoToken <=> fanpages[i].token = NoToken
      BY <1>5, <2>1, <2>2, <2>6 DEF OnTakenRow
    <3> QED
      BY <1>1, <1>3, <2>1, <2>3, <3>2, <3>3
  <2> QED
    BY <2>5, <2>6
<1>6. CASE fanpages' = fanpages /\ ~ Creates(r) /\ ~ OnTakenRow(r)
  <2>1. Inserting' = Inserting \ {r} /\ \A s \in Inserting \ {r} : row'[s] = row[s]
    BY <1>2, <1>6 DEF Inserting
  <2>2. CASE pc[r] = "insertToken"
    <3>1. Fail(r) /\ r \in Inserting
      BY <1>2, <1>6, <2>2 DEF OnTakenRow, Inserting
    <3>2. lost' = lost \cup {row[r]}
      BY <2>2, <3>1 DEF Fail
    <3> QED
      BY <1>1, <1>3, <1>6, <2>1, <3>1, <3>2
  <2>3. CASE pc[r] # "insertToken"
    <3>1. lost' = lost /\ Inserting' = Inserting /\ \A s \in Inserting : row'[s] = row[s]
      BY <1>2, <2>1, <2>3 DEF Inserting
    <3> QED
      BY <1>1, <1>3, <1>6, <3>1
  <2> QED
    BY <2>2, <2>3
<1> QED
  BY <1>4, <1>5, <1>6, PagesDo

LEMMA NextLost ==
    ASSUME Shape, LostInv, [Next]_vars
    PROVE  /\ LostInv'
           /\ \A i \in lost : fanpages[i].token = NoToken /\ fanpages'[i].token = NoToken
<1>1. CASE \E r \in Requests : Acts(r)
  BY <1>1, ActsLost
<1>2. CASE Remove \/ UNCHANGED vars
  BY <1>2 DEF Remove, vars, LostInv, TokenlessIsLost, Inserting
<1> QED
  BY <1>1, <1>2 DEF Next, Acts

LEMMA LostInvAlways == Spec => []LostInv
<1>1. Init => LostInv
  BY DEF Init, LostInv, TokenlessIsLost, Inserting
<1> QED
  BY <1>1, NextLost, ShapeAlways, PTL DEF Spec

(* A page is without a token only between the two INSERTs of the connection *)
(* that created it, or when that connection ended there.                    *)
THEOREM TokenlessPagesAreLost == Spec => []TokenlessIsLost
<1>1. LostInv => TokenlessIsLost
  BY DEF LostInv
<1> QED
  BY <1>1, LostInvAlways, PTL

(* Nothing the service does repairs such a page: later connections and      *)
(* renewals only UPDATE page_tokens.                                        *)
THEOREM LostPagesStayLost == Spec => LostForever
<1>1. Shape /\ LostInv /\ [Next]_vars =>
        [\A i \in lost : fanpages[i].token = NoToken /\ fanpages'[i].token = NoToken]_vars
  BY NextLost
<1> QED
  BY <1>1, ShapeAlways, LostInvAlways, PTL DEF Spec, LostForever
-----------------------------------------------------------------------------
(* The tables keep a register of pages *)

(* Which of its two places a page with a row is at, and what it depends on. *)
Awaiting(p) == \E r \in Inserting : row[r] \in RowsOf(p)

LEMMA StateIs ==
    ASSUME NEW p
    PROVE  /\ RowsOf(p) = {} => StateOf(p) = "unknown"
           /\ (\E i \in RowsOf(p) : fanpages[i].token # NoToken) => StateOf(p) = "held"
           /\ RowsOf(p) # {} /\ (\A i \in RowsOf(p) : fanpages[i].token = NoToken) =>
                 StateOf(p) = IF Awaiting(p) THEN "awaited" ELSE "lost"
BY DEF StateOf, Awaiting, Inserting

LEMMA StateNext ==
    ASSUME NEW p
    PROVE  /\ RowsOf(p)' = {} => StateOf(p)' = "unknown"
           /\ (\E i \in RowsOf(p)' : fanpages'[i].token # NoToken) => StateOf(p)' = "held"
           /\ RowsOf(p)' # {} /\ (\A i \in RowsOf(p)' : fanpages'[i].token = NoToken) =>
                 StateOf(p)' = IF Awaiting(p)' THEN "awaited" ELSE "lost"
BY DEF StateOf, Awaiting, Inserting

LEMMA StateKept ==
    ASSUME NEW p, RowsOf(p)' = RowsOf(p), Awaiting(p)' = Awaiting(p),
           \A i \in RowsOf(p) : fanpages'[i].token = NoToken <=> fanpages[i].token = NoToken
    PROVE  StateOf(p)' = StateOf(p)
BY StateIs, StateNext

(* A page that has a row has one. *)
LEMMA OneRow ==
    ASSUME RowsAreUnique, NEW p, NEW i \in RowsOf(p)
    PROVE  RowsOf(p) = {i} /\ \A q : q # p => i \notin RowsOf(q)
BY DEF RowsAreUnique, RowsOf

SameRoles  == \A u \in Users, p \in AllPages : RolesOf(u, p)' = RolesOf(u, p)
SameStates == \A p \in AllPages : StateOf(p)' = StateOf(p)
Mapped     == PageRegister!Next \/ UNCHANGED PageRegister!register

LEMMA Stutters ==
    ASSUME SameStates, SameRoles PROVE Mapped
BY DEF Mapped, PageRegister!register, SameStates, SameRoles

LEMMA PageMovesMapped ==
    ASSUME SameRoles, NEW p \in AllPages,
           <<StateOf(p), StateOf(p)'>> \in
              {<<"unknown", "awaited">>, <<"awaited", "held">>, <<"awaited", "lost">>},
           \A q \in AllPages \ {p} : StateOf(q)' = StateOf(q)
    PROVE  Mapped
<1> DEFINE s  == [q \in AllPages |-> StateOf(q)]
           s2 == [q \in AllPages |-> StateOf(q)']
<1>1. s2 = [s EXCEPT ![p] = s2[p]] /\ s2[p] # s[p]
  OBVIOUS
<1>2. [x \in Users \X AllPages |-> RolesOf(x[1], x[2])'] = [x \in Users \X AllPages |-> RolesOf(x[1], x[2])]
  BY DEF SameRoles
<1>3. PageRegister!Enter(p) \/ PageRegister!Complete(p) \/ PageRegister!Lose(p)
  BY DEF PageRegister!Enter, PageRegister!Complete, PageRegister!Lose
<1>4. PageRegister!PageMoves
  BY <1>1, <1>2, <1>3 DEF PageRegister!PageMoves
<1> QED
  BY <1>4 DEF Mapped, PageRegister!Next

LEMMA RoleChangesMapped ==
    ASSUME SameStates, NEW u \in Users, NEW p \in AllPages,
           \/ RolesOf(u, p) # {} /\ RolesOf(u, p)' \in {{}, {Admin}}
           \/ /\ RolesOf(u, p) = {} /\ StateOf(p) # "unknown"
              /\ \E role \in Roles : RolesOf(u, p)' = {role},
           \A x \in (Users \X AllPages) \ {<<u, p>>} :
              RolesOf(x[1], x[2])' = RolesOf(x[1], x[2])
    PROVE  Mapped
<1> DEFINE s  == [x \in Users \X AllPages |-> RolesOf(x[1], x[2])]
           s2 == [x \in Users \X AllPages |-> RolesOf(x[1], x[2])']
           y  == <<u, p>>
<1>1. y \in Users \X AllPages /\ y[1] = u /\ y[2] = p
  OBVIOUS
<1>2. s2[y] = RolesOf(u, p)' /\ s[y] = RolesOf(u, p)
  OBVIOUS
<1>3. s2 = [s EXCEPT ![y] = s2[y]]
  BY <1>1
<1>4. [q \in AllPages |-> StateOf(q)'] = [q \in AllPages |-> StateOf(q)]
  BY DEF SameStates
<1>5. CASE s2 = s
  BY <1>4, <1>5 DEF Mapped, PageRegister!register
<1>6. CASE s2 # s
  <2>1. \/ PageRegister!Raise(y) \/ PageRegister!Leave(y)
        \/ \E role \in Roles : PageRegister!Join(y, role)
    BY <1>1, <1>2 DEF PageRegister!Raise, PageRegister!Leave, PageRegister!Join
  <2>2. PageRegister!RoleChanges
    BY <1>1, <1>3, <1>4, <1>6, <2>1 DEF PageRegister!RoleChanges
  <2> QED
    BY <2>2 DEF Mapped, PageRegister!Next
<1> QED
  BY <1>5, <1>6

LEMMA RolesKept ==
    ASSUME members' = members,
           \A q \in AllPages, m \in members : m.row \in RowsOf(q)' <=> m.row \in RowsOf(q)
    PROVE  SameRoles
BY DEF SameRoles, RolesOf

LEMMA EntersMapped ==
    ASSUME Shape, LostInv, RowsAreUnique, NEW r \in Requests, Acts(r), Creates(r)
    PROVE  Mapped
<1>n. PICK n, p : n = Len(fanpages) + 1 /\ p = Item(r)
  OBVIOUS
<1>1. /\ DOMAIN fanpages' = (DOMAIN fanpages) \cup {n}
      /\ n \notin DOMAIN fanpages
      /\ \A i \in DOMAIN fanpages : fanpages'[i] = fanpages[i]
      /\ fanpages'[n].page = p
      /\ fanpages'[n].token = NoToken
      /\ row'[r] = n
  BY <1>n, CreatesDoes
<1>2. /\ pc[r] = "insertPage" /\ RowsOf(p) = {}
      /\ job[r].op = "connect" /\ at[r] <= Len(job[r].list)
  BY <1>n DEF Shape, Creates, ShapeOf, Connecting, OnItem
<1>3. p \in AllPages
  BY <1>n, <1>2, AtItem
<1>4. InsertPage(r) /\ pc'[r] = "insertToken"
  <2>1. fanpages' # fanpages /\ ~ OnTakenRow(r)
    BY <1>1, <1>2 DEF OnTakenRow, InsertToken, UpdatePage, UpdateToken, RenewPage, RenewToken, Step
  <2> QED
    BY <2>1, PagesDo
<1>5. members' = members
  BY <1>4 DEF InsertPage
<1>6. /\ Inserting' = Inserting \cup {r} /\ r \notin Inserting
      /\ \A s \in Inserting : row'[s] = row[s] /\ row[s] \in DOMAIN fanpages
  BY <1>2, <1>4, LabelsDo, InsertingHaveRows DEF Frame, Inserting
<1>7. RowsOf(p)' = {n} /\ \A q : q # p => RowsOf(q)' = RowsOf(q)
  BY <1>1, <1>2 DEF RowsOf
<1>8. SameRoles
  <2>1. \A m \in members : m.row \in DOMAIN fanpages
    BY DEF Shape
  <2> QED
    BY <1>1, <1>2, <1>5, <1>7, <2>1, RolesKept
<1>9. StateOf(p) = "unknown" /\ StateOf(p)' = "awaited"
  BY <1>1, <1>2, <1>6, <1>7, StateIs, StateNext DEF Awaiting
<1>10. ASSUME NEW q \in AllPages \ {p} PROVE StateOf(q)' = StateOf(q)
  <2>1. RowsOf(q)' = RowsOf(q) /\ RowsOf(q) \subseteq DOMAIN fanpages
    BY <1>7 DEF RowsOf
  <2>2. Awaiting(q)' = Awaiting(q)
    BY <1>1, <1>6, <2>1 DEF Awaiting
  <2> QED
    BY <1>1, <2>1, <2>2, StateKept
<1> QED
  BY <1>3, <1>8, <1>9, <1>10, PageMovesMapped

(* A connection inserts the token of its page, or ends just before that.    *)
LEMMA AwaitedMapped ==
    ASSUME Shape, LostInv, RowsAreUnique, NEW r \in Requests, Acts(r), pc[r] = "insertToken"
    PROVE  Mapped
<1>i. PICK i, p : i = row[r] /\ p = Item(r)
  OBVIOUS
<1>1. ShapeOf(r) /\ job[r].op = "connect" /\ at[r] <= Len(job[r].list) /\ i \in RowsOf(p)
  BY <1>i DEF Shape, ShapeOf, Connecting, OnItem, OnRow
<1>2. p \in AllPages /\ More(r)
  BY <1>i, <1>1, AtItem
<1>3. RowsOf(p) = {i} /\ \A q : q # p => i \notin RowsOf(q)
  BY <1>1, OneRow
<1>4. /\ r \in Inserting /\ fanpages[i].token = NoToken
      /\ \A s \in Inserting : row[s] = i => s = r
  BY <1>i DEF LostInv, Inserting
<1>5. InsertToken(r) \/ Fail(r)
  BY LabelsDo
<1>6. ~ Creates(r) /\ members' = members
  BY <1>5 DEF Creates, InsertToken, Fail, tables
<1>7. /\ Inserting' = Inserting \ {r}
      /\ \A s \in Inserting \ {r} : row'[s] = row[s]
  BY <1>6, LabelsDo DEF Frame, Inserting
<1>8. /\ DOMAIN fanpages' = DOMAIN fanpages
      /\ \A j \in DOMAIN fanpages : fanpages'[j].page = fanpages[j].page
      /\ \A j \in DOMAIN fanpages : j # i => fanpages'[j].token = fanpages[j].token
      /\ InsertToken(r) => fanpages'[i].token # NoToken
      /\ Fail(r) => fanpages'[i].token = NoToken
  <2>1. CASE InsertToken(r)
    <3>1. <<Item(r), r>> # NoToken
      <4>1. <<Item(r), r>> \in AllPages \X Requests
        BY <1>i, <1>2
      <4> QED
        BY <4>1, PagesAssumption
    <3>2. ~ Fail(r)
      BY <2>1 DEF InsertToken, Step, Fail, Goto, Shape, TypeOK
    <3> QED
      BY <1>i, <2>1, <3>1, <3>2, OnTakenRowDoes DEF OnTakenRow
  <2>2. CASE Fail(r)
    <3>1. fanpages' = fanpages /\ pc'[r] = "failed"
      BY <2>2, LabelsDo
    <3>2. ~ InsertToken(r)
      BY <3>1 DEF InsertToken, Step, Goto, Shape, TypeOK
    <3> QED
      BY <1>4, <3>1, <3>2
  <2> QED
    BY <1>5, <2>1, <2>2
<1>9. \A q : RowsOf(q)' = RowsOf(q)
  BY <1>8 DEF RowsOf
<1>10. SameRoles
  BY <1>6, <1>9, RolesKept
<1>11. StateOf(p) = "awaited"
  BY <1>3, <1>4, <1>i, StateIs DEF Awaiting
<1>12. StateOf(p)' \in {"held", "lost"}
  <2>1. CASE InsertToken(r)
    BY <1>3, <1>8, <1>9, <2>1, StateNext
  <2>2. CASE Fail(r)
    <3>1. ~ Awaiting(p)'
      BY <1>3, <1>4, <1>7, <1>9 DEF Awaiting
    <3> QED
      BY <1>3, <1>8, <1>9, <2>2, <3>1, StateNext
  <2> QED
    BY <1>5, <2>1, <2>2
<1>13. ASSUME NEW q \in AllPages \ {p} PROVE StateOf(q)' = StateOf(q)
  <2>1. i \notin RowsOf(q) /\ RowsOf(q) \subseteq DOMAIN fanpages
    BY <1>3 DEF RowsOf
  <2>2. Awaiting(q)' = Awaiting(q)
    BY <1>i, <1>4, <1>7, <1>9, <2>1 DEF Awaiting
  <2> QED
    BY <1>8, <1>9, <2>1, <2>2, StateKept
<1> QED
  BY <1>2, <1>10, <1>11, <1>12, <1>13, PageMovesMapped

(* No other step moves a page.                                              *)
LEMMA StatesKept ==
    ASSUME Shape, LostInv, NEW r \in Requests, Acts(r), ~ Creates(r), pc[r] # "insertToken"
    PROVE  SameStates /\ \A q : RowsOf(q)' = RowsOf(q)
<1>1. Inserting' = Inserting /\ \A s \in Inserting : row'[s] = row[s]
  BY LabelsDo DEF Frame, Inserting
<1>2. /\ DOMAIN fanpages' = DOMAIN fanpages
      /\ \A i \in DOMAIN fanpages : fanpages'[i].page = fanpages[i].page
      /\ \A i \in DOMAIN fanpages : fanpages'[i].token = NoToken <=> fanpages[i].token = NoToken
  <2>1. CASE fanpages' = fanpages
    BY <2>1
  <2>2. CASE OnTakenRow(r)
    <3>1. ~ InsertToken(r)
      BY DEF InsertToken, Step
    <3>2. <<Item(r), r>> \in AllPages \X Requests
      BY <2>2, OnTakenRowDoes
    <3>3. <<Item(r), r>> # NoToken
      BY <3>2, PagesAssumption
    <3>4. fanpages'[row[r]].token \in {fanpages[row[r]].token,
             IF fanpages[row[r]].token = NoToken THEN NoToken ELSE <<Item(r), r>>}
      BY <2>2, <3>1, OnTakenRowDoes DEF OnTakenRow
    <3> QED
      BY <2>2, <3>3, <3>4, OnTakenRowDoes
  <2> QED
    BY <2>1, <2>2, PagesDo
<1>3. \A q : RowsOf(q)' = RowsOf(q)
  BY <1>2 DEF RowsOf
<1>4. ASSUME NEW q \in AllPages PROVE StateOf(q)' = StateOf(q)
  <2>1. RowsOf(q) \subseteq DOMAIN fanpages
    BY DEF RowsOf
  <2>2. Awaiting(q)' = Awaiting(q)
    BY <1>1, <1>3 DEF Awaiting
  <2> QED
    BY <1>2, <1>3, <2>1, <2>2, StateKept
<1> QED
  BY <1>3, <1>4 DEF SameStates

(* The only roles that a row of user_pages has a part in.                   *)
LEMMA OtherRolesKept ==
    ASSUME RowsAreUnique, \A q : RowsOf(q)' = RowsOf(q),
           NEW u, NEW p, NEW i \in RowsOf(p),
           \A y : ~ (y.user = u /\ y.row = i) => (y \in members' <=> y \in members),
           NEW x \in (Users \X AllPages) \ {<<u, p>>}
    PROVE  RolesOf(x[1], x[2])' = RolesOf(x[1], x[2])
<1>1. PICK v, q : x = <<v, q>> /\ x[1] = v /\ x[2] = q /\ (v # u \/ q # p)
  OBVIOUS
<1>2. q # p => i \notin RowsOf(q)
  BY OneRow
<1>3. \A y : y.user = v /\ y.row \in RowsOf(q) => (y \in members' <=> y \in members)
  BY <1>1, <1>2
<1>4. RolesOf(v, q)' = RolesOf(v, q)
  BY <1>3 DEF RolesOf
<1> QED
  BY <1>1, <1>4

LEMMA RoleIs ==
    ASSUME \A q : RowsOf(q)' = RowsOf(q), NEW u, NEW p, NEW i, RowsOf(p) = {i}
    PROVE  \A role :
             /\ role \in RolesOf(u, p) <=>
                   \E y \in members : y.user = u /\ y.row = i /\ y.role = role
             /\ role \in RolesOf(u, p)' <=>
                   \E y \in members' : y.user = u /\ y.row = i /\ y.role = role
BY DEF RolesOf

LEMMA KnownPage ==
    ASSUME Shape, NEW i \in DOMAIN fanpages
    PROVE  /\ fanpages[i].page \in AllPages /\ i \in RowsOf(fanpages[i].page)
           /\ StateOf(fanpages[i].page) # "unknown"
<1>1. fanpages[i] \in Fanpage
  BY ElementOfSeq, LenProperties DEF Shape, TypeOK
<1>2. PICK p : p = fanpages[i].page
  OBVIOUS
<1>3. p \in AllPages /\ i \in RowsOf(p)
  BY <1>1, <1>2 DEF Fanpage, RowsOf
<1>4. StateOf(p) \in {"held", "awaited", "lost"}
  BY <1>3, StateIs
<1> QED
  BY <1>2, <1>3, <1>4

LEMMA MembersStepMapped ==
    ASSUME Shape, RowsAreUnique, SameStates, \A q : RowsOf(q)' = RowsOf(q),
           NEW r \in Requests, row[r] \in DOMAIN fanpages, NEW m, MembersStep(r, m)
    PROVE  Mapped
<1>1. PICK u, i, p : u = m.user /\ i = m.row /\ p = fanpages[i].page
  OBVIOUS
<1>2. m \in Member /\ i \in DOMAIN fanpages /\ u \in Users /\ m.role \in Roles
  BY <1>1 DEF MembersStep, Member
<1>3. p \in AllPages /\ RowsOf(p) = {i} /\ StateOf(p) # "unknown"
  BY <1>1, <1>2, KnownPage, OneRow
<1>4. CASE /\ members' = {x \in members : ~ (x.user = m.user /\ x.row = m.row)} \cup {m}
           /\ m.role = Admin
  <2>1. \A y : ~ (y.user = u /\ y.row = i) => (y \in members' <=> y \in members)
    BY <1>1, <1>4
  <2>2. RolesOf(u, p)' = {Admin}
    <3>1. \A y \in members' : y.user = u /\ y.row = i => y = m
      BY <1>1, <1>4
    <3>2. m \in members' /\ m.user = u /\ m.row = i /\ m.role = Admin
      BY <1>1, <1>4
    <3>3. ASSUME NEW role PROVE role \in RolesOf(u, p)' <=> role = Admin
      <4>1. role \in RolesOf(u, p)' <=>
              \E y \in members' : y.user = u /\ y.row = i /\ y.role = role
        BY <1>3, RoleIs
      <4> QED
        BY <3>1, <3>2, <4>1
    <3> QED
      BY <3>3
  <2>3. \A x \in (Users \X AllPages) \ {<<u, p>>} : RolesOf(x[1], x[2])' = RolesOf(x[1], x[2])
    BY <1>3, <2>1, OtherRolesKept
  <2>4. Admin \in Roles
    BY DEF Roles
  <2> QED
    BY <1>2, <1>3, <2>2, <2>3, <2>4, RoleChangesMapped
<1>5. CASE members' = members \cup {m} /\ ~ IsMember(m.user, m.row)
  <2>1. \A y : ~ (y.user = u /\ y.row = i) => (y \in members' <=> y \in members)
    BY <1>1, <1>5
  <2>2. RolesOf(u, p) = {} /\ RolesOf(u, p)' = {m.role}
    <3>1. \A y \in members : ~ (y.user = u /\ y.row = i)
      BY <1>1, <1>5 DEF IsMember
    <3>2. m.user = u /\ m.row = i
      BY <1>1
    <3>3. /\ \A role : role \notin RolesOf(u, p)
          /\ \A role : role \in RolesOf(u, p)' <=> role = m.role
      BY <1>3, <1>5, <3>1, <3>2, RoleIs
    <3> QED
      BY <3>3
  <2>3. \A x \in (Users \X AllPages) \ {<<u, p>>} : RolesOf(x[1], x[2])' = RolesOf(x[1], x[2])
    BY <1>3, <2>1, OtherRolesKept
  <2> QED
    BY <1>2, <1>3, <2>2, <2>3, RoleChangesMapped
<1>6. CASE members' = members
  BY <1>6, RolesKept, Stutters
<1> QED
  BY <1>4, <1>5, <1>6 DEF MembersStep

LEMMA RemoveMapped ==
    ASSUME Shape, RowsAreUnique, Remove
    PROVE  Mapped
<1>1. PICK m \in members : members' = members \ {m}
  BY DEF Remove
<1>2. PICK u, i, p : u = m.user /\ i = m.row /\ p = fanpages[i].page
  OBVIOUS
<1>3. i \in DOMAIN fanpages /\ u \in Users
  BY <1>2 DEF Shape, TypeOK, Member
<1>4. p \in AllPages /\ RowsOf(p) = {i}
  BY <1>2, <1>3, KnownPage, OneRow
<1>5. fanpages' = fanpages /\ pc' = pc /\ row' = row
  BY DEF Remove
<1>6. SameStates /\ \A q : RowsOf(q)' = RowsOf(q)
  BY <1>5 DEF SameStates, StateOf, RowsOf
<1>7. \A x, y \in members : x.user = y.user /\ x.row = y.row => x = y
  BY DEF RowsAreUnique
<1>8. RolesOf(u, p) # {} /\ RolesOf(u, p)' = {}
  <2>1. m.role \in RolesOf(u, p)
    BY <1>1, <1>2, <1>4, <1>6, RoleIs
  <2>2. \A y \in members' : ~ (y.user = u /\ y.row = i)
    BY <1>1, <1>2, <1>7
  <2>3. ASSUME NEW role PROVE role \notin RolesOf(u, p)'
    <3>1. RowsOf(p) = {i} /\ \A q : RowsOf(q)' = RowsOf(q)
      BY <1>4, <1>6
    <3>2. role \in RolesOf(u, p)' <=>
            \E y \in members' : y.user = u /\ y.row = i /\ y.role = role
      BY <3>1 DEF RolesOf
    <3> QED
      BY <2>2, <3>2
  <2> QED
    BY <2>1, <2>3
<1>9. \A y : ~ (y.user = u /\ y.row = i) => (y \in members' <=> y \in members)
  BY <1>1, <1>2
<1>10. \A x \in (Users \X AllPages) \ {<<u, p>>} : RolesOf(x[1], x[2])' = RolesOf(x[1], x[2])
  BY <1>4, <1>6, <1>9, OtherRolesKept
<1> QED
  BY <1>3, <1>4, <1>6, <1>8, <1>10, RoleChangesMapped

LEMMA NextMapped ==
    ASSUME Shape, LostInv, RowsAreUnique, [Next]_vars
    PROVE  Mapped
<1>1. ASSUME NEW r \in Requests, Acts(r) PROVE Mapped
  <2>1. CASE Creates(r)
    BY <1>1, <2>1, EntersMapped
  <2>2. CASE pc[r] = "insertToken"
    BY <1>1, <2>2, AwaitedMapped
  <2>3. CASE ~ Creates(r) /\ pc[r] # "insertToken"
    <3>1. SameStates /\ \A q : RowsOf(q)' = RowsOf(q)
      BY <1>1, <2>3, StatesKept
    <3>2. CASE members' = members
      BY <3>1, <3>2, RolesKept, Stutters
    <3>3. CASE members' # members
      <4>1. UpsertMember(r) \/ InviteSave(r)
        BY <1>1, <3>3 DEF Acts, Connects, Renews, Invites, ConnectFacebook, ConnectTelegram,
           FindPage, InsertPage, InsertToken, UpdatePage, UpdateToken, Subscribe, Connected,
           Renew, RenewPage, RenewToken, Renewed, Invite, InvitePage, InviteExists, Fail, tables
      <4> QED
        BY <3>1, <4>1, MembersDo, MembersStepMapped
    <3> QED
      BY <3>2, <3>3
  <2> QED
    BY <2>1, <2>2, <2>3
<1>2. CASE Remove
  BY <1>2, RemoveMapped
<1>3. CASE UNCHANGED vars
  BY <1>3, Stutters DEF vars, SameStates, SameRoles, StateOf, RolesOf, RowsOf
<1> QED
  BY <1>1, <1>2, <1>3 DEF Next, Acts

(* However requests overlap and wherever they end, the three tables keep    *)
(* the register that Register describes: a page is entered once, its token  *)
(* comes once or never, nobody is a member of an unknown page, and a role   *)
(* is given once and then only raised or taken away.                        *)
THEOREM PagesKeepRegister == Spec => KeepsRegister
<1>1. Init => PageRegister!Init
  <2> SUFFICES ASSUME Init PROVE PageRegister!Init
    OBVIOUS
  <2>1. \A p \in AllPages : StateOf(p) = "unknown" /\ \A u \in Users : RolesOf(u, p) = {}
    BY StateIs DEF Init, RowsOf, RolesOf
  <2> QED
    BY <2>1 DEF PageRegister!Init
<1>2. Shape /\ LostInv /\ RowsAreUnique /\ [Next]_vars =>
        [PageRegister!Next]_(PageRegister!register)
  BY NextMapped DEF Mapped
<1> QED
  BY <1>1, <1>2, ShapeAlways, LostInvAlways, PagesAndMembersAreUnique, PTL
     DEF Spec, KeepsRegister, PageRegister!Spec

-----------------------------------------------------------------------------
(* Where tokens come from *)

(* A request keeps its job, and only a renewal's own write of a token moves *)
(* it on in its list.                                                       *)
LEMMA JobsDo ==
    ASSUME Shape, NEW r \in Requests, Acts(r)
    PROVE  \/ job[r] = NoJob
           \/ /\ job' = job
              /\ job[r].op = "renew" => row'[r] = row[r]
              /\ job[r].op = "renew" => at'[r] = IF RenewToken(r) THEN at[r] + 1 ELSE at[r]
<1>1. /\ ShapeOf(r) /\ at \in [Requests -> Nat] /\ row \in [Requests -> Nat]
  BY Here
<1>2. CASE pc[r] = "new"
  BY <1>1, <1>2 DEF ShapeOf
<1>3. CASE pc[r] # "new"
  <2>1. job' = job
    BY <1>3 DEF Acts, Connects, Renews, Invites, ConnectFacebook, ConnectTelegram, FindPage,
       InsertPage, InsertToken, UpdatePage, UpdateToken, UpsertMember, Subscribe, Connected, Renew,
       RenewPage, RenewToken, Renewed, Invite, InvitePage, InviteExists, InviteSave, Fail, Step
  <2>2. CASE job[r].op = "renew"
    <3>1. pc[r] \notin Connecting \cup Inviting
      BY <1>1, <2>2 DEF ShapeOf
    <3>2. RenewPage(r) \/ RenewToken(r) \/ Renewed(r) \/ Fail(r)
      BY <1>3, <3>1 DEF Acts, Connects, Renews, Invites, ConnectFacebook, ConnectTelegram, FindPage,
         InsertPage, InsertToken, UpdatePage, UpdateToken, UpsertMember, Subscribe, Connected, Renew,
         Invite, InvitePage, InviteExists, InviteSave, Step, Connecting, Inviting
    <3>3. row' = row
      BY <3>2 DEF RenewPage, RenewToken, Renewed, Fail
    <3>4. ~ RenewToken(r) => at' = at
      BY <3>2 DEF RenewPage, Renewed, Fail
    <3>5. RenewToken(r) => at'[r] = at[r] + 1
      BY <1>1 DEF RenewToken, NextItem
    <3> QED
      BY <2>1, <3>3, <3>4, <3>5
  <2> QED
    BY <2>1, <2>2
<1> QED
  BY <1>2, <1>3

(* The page a request's token stands for: that of the row, or for a renewal *)
(* the item before the one its loop has come to.                            *)
From(r, i, p) ==
    /\ r \in Requests
    /\ \/ job[r].op = "connect" /\ p = fanpages[i].page
       \/ /\ job[r].op = "renew" /\ row[r] = i
          /\ at[r] > 1 /\ p = job[r].list[at[r] - 1]

OriginInv ==
    \A i \in DOMAIN fanpages : fanpages[i].token # NoToken =>
        From(fanpages[i].token[2], i, fanpages[i].token[1])

LEMMA OriginImplies == Shape /\ OriginInv => TokenOrigin
<1> SUFFICES ASSUME Shape, OriginInv, NEW i \in DOMAIN fanpages, fanpages[i].token # NoToken
    PROVE  LET r == fanpages[i].token[2] IN
             \/ job[r].op = "connect" /\ fanpages[i].token[1] = fanpages[i].page
             \/ /\ job[r].op = "renew" /\ row[r] = i
                /\ fanpages[i].token[1] \in Listed(r)
                /\ pc[r] = "done" => fanpages[i].token[1] = job[r].list[Len(job[r].list)]
  BY DEF TokenOrigin
<1> DEFINE r == fanpages[i].token[2]
<1> HIDE DEF r
<1>1. From(r, i, fanpages[i].token[1]) /\ r \in Requests
  BY DEF OriginInv, From, r
<1>2. CASE job[r].op = "renew"
  <2>1. row[r] = i /\ at[r] > 1 /\ fanpages[i].token[1] = job[r].list[at[r] - 1]
    BY <1>1, <1>2 DEF From
  <2>2. /\ DOMAIN job[r].list = 1 .. Len(job[r].list) /\ at[r] \in 1 .. Len(job[r].list) + 1
        /\ Len(job[r].list) \in Nat /\ at[r] \in Nat
    BY <1>1, <1>2, AtItem
  <2>3. at[r] - 1 \in DOMAIN job[r].list
    BY <2>1, <2>2
  <2>4. fanpages[i].token[1] \in Listed(r)
    BY <2>1, <2>3 DEF Listed
  <2>5. pc[r] = "done" => at[r] - 1 = Len(job[r].list)
    BY <1>1, <1>2, <2>2, Here DEF ShapeOf
  <2> QED
    BY <1>2, <2>1, <2>4, <2>5 DEF r
<1>3. CASE job[r].op # "renew"
  BY <1>1, <1>3 DEF From, r
<1> QED
  BY <1>2, <1>3

(* A token that is left alone keeps its origin. *)
LEMMA FromKept ==
    ASSUME Shape, NEW r \in Requests, Acts(r), NEW s, NEW i \in DOMAIN fanpages, NEW p, From(s, i, p),
           ~ (RenewToken(r) /\ s = r)
    PROVE  From(s, i, p)'
<1>1. /\ Frame(r) /\ i \in DOMAIN fanpages' /\ fanpages'[i].page = fanpages[i].page
  BY LabelsDo DEF Frame
<1>2. CASE s # r
  <2>1. s \in Requests \ {r}
    BY <1>2 DEF From
  <2>2. job'[s] = job[s] /\ at'[s] = at[s] /\ row'[s] = row[s]
    BY <1>1, <2>1 DEF Frame
  <2> QED
    BY <1>1, <2>2 DEF From
<1>3. CASE s = r
  <2>1. job[r] # NoJob
    BY <1>3 DEF From, NoJob
  <2>2. /\ job' = job
        /\ job[r].op = "renew" => row'[r] = row[r] /\ at'[r] = at[r]
    BY <1>3, <2>1, JobsDo
  <2> QED
    BY <1>1, <1>3, <2>2 DEF From
<1> QED
  BY <1>2, <1>3

LEMMA ActsOrigin == ASSUME Shape, OriginInv, NEW r \in Requests, Acts(r) PROVE OriginInv'
<1> SUFFICES ASSUME NEW i \in DOMAIN fanpages', NEW t, t = fanpages'[i].token, t # NoToken
    PROVE  From(t[2], i, t[1])'
  BY DEF OriginInv, From
<1>1. ASSUME i \in DOMAIN fanpages, t = fanpages[i].token, ~ (RenewToken(r) /\ t[2] = r)
      PROVE  From(t[2], i, t[1])'
  <2>1. From(t[2], i, t[1])
    BY <1>1 DEF OriginInv
  <2> QED
    BY <1>1, <2>1, FromKept
<1>2. CASE fanpages' = fanpages /\ ~ Creates(r) /\ ~ OnTakenRow(r)
  BY <1>1, <1>2 DEF OnTakenRow
<1>3. CASE Creates(r) /\ InsertPage(r)
  <2>1. i \in DOMAIN fanpages /\ fanpages'[i] = fanpages[i]
    BY <1>3, CreatesDoes
  <2>2. ~ RenewToken(r)
    BY <1>3 DEF Creates, RenewToken, Step
  <2> QED
    BY <1>1, <2>1, <2>2
<1>4. CASE OnTakenRow(r)
  <2>1. /\ DOMAIN fanpages' = DOMAIN fanpages
        /\ fanpages'[i].page = fanpages[i].page
        /\ i # row[r] => t = fanpages[i].token
        /\ UpdatePage(r) \/ RenewPage(r) => fanpages'[row[r]].token = fanpages[row[r]].token
        /\ UpdateToken(r) \/ RenewToken(r) =>
              fanpages'[row[r]].token =
                 IF fanpages[row[r]].token = NoToken THEN NoToken ELSE <<Item(r), r>>
        /\ InsertToken(r) => fanpages'[row[r]].token = <<Item(r), r>>
        /\ job[r].op \in {"connect", "renew"}
        /\ job[r] # NoJob
    BY <1>4, OnTakenRowDoes DEF NoJob
  <2>2. ShapeOf(r) /\ at[r] \in Nat /\ at[r] \in 1 .. Len(job[r].list) + 1 /\ job' = job
    BY <2>1, Here, AtItem, JobsDo
  <2>3. PICK p : p = Item(r)
    OBVIOUS
  <2>4. CASE RenewToken(r)
    <3>1. job[r].op = "renew" /\ row'[r] = row[r] /\ at'[r] = at[r] + 1
      BY <2>1, <2>2, <2>4, JobsDo DEF RenewToken, Step, ShapeOf, Renewing
    <3>2. CASE i = row[r]
      <4>1. t = <<p, r>>
        BY <2>1, <2>3, <2>4, <3>2
      <4>2. From(r, i, p)'
        BY <2>2, <2>3, <3>1, <3>2 DEF From, Item
      <4>3. t[1] = p /\ t[2] = r
        BY <4>1
      <4> QED
        BY <4>2, <4>3
    <3>3. CASE i # row[r]
      <4>1. t = fanpages[i].token /\ i \in DOMAIN fanpages
        BY <2>1, <3>3
      <4>2. From(t[2], i, t[1])
        BY <4>1 DEF OriginInv
      <4>3. t[2] # r
        BY <3>1, <3>3, <4>2 DEF From
      <4> QED
        BY <1>1, <4>1, <4>3
    <3> QED
      BY <3>2, <3>3
  <2>5. CASE ~ RenewToken(r) /\ t = fanpages[i].token
    BY <1>1, <2>1, <2>5
  <2>6. CASE ~ RenewToken(r) /\ t # fanpages[i].token
    <3>1. i = row[r] /\ (InsertToken(r) \/ UpdateToken(r)) /\ t = <<p, r>>
      BY <1>4, <2>1, <2>3, <2>6 DEF OnTakenRow
    <3>2. pc[r] \in {"insertToken", "token"}
      BY <3>1 DEF InsertToken, UpdateToken, Step
    <3>3. job[r].op = "connect" /\ row[r] \in RowsOf(Item(r))
      BY <2>2, <3>2 DEF ShapeOf, Connecting, OnRow
    <3>4. fanpages'[i].page = p
      BY <2>1, <2>3, <3>1, <3>3 DEF RowsOf
    <3>5. From(r, i, p)'
      BY <2>2, <3>3, <3>4 DEF From
    <3>6. t[1] = p /\ t[2] = r
      BY <3>1
    <3> QED
      BY <3>5, <3>6
  <2> QED
    BY <2>4, <2>5, <2>6
<1> QED
  BY <1>2, <1>3, <1>4, PagesDo

(* The token of a page is its own, from a connection, or was written over   *)
(* it by a renewal, which leaves that of the last page of the account.      *)
THEOREM TokensHaveOrigin == Spec => []TokenOrigin
<1>1. Init => OriginInv
  BY DEF Init, OriginInv
<1>2. Shape /\ OriginInv /\ [Next]_vars => OriginInv'
  <2>1. ASSUME Shape, OriginInv, Remove \/ UNCHANGED vars PROVE OriginInv'
    BY <2>1 DEF Remove, vars, OriginInv, From
  <2> QED
    BY <2>1, ActsOrigin DEF Next, Acts
<1> QED
  BY <1>1, <1>2, OriginImplies, ShapeAlways, PTL DEF Spec

-----------------------------------------------------------------------------
(* What an answered connection has done *)

Joined(u, p) == \E i \in RowsOf(p) : IsMember(u, i) \/ <<u, i>> \in removed

ConnectedInv ==
    \A r \in Requests : job[r].op = "connect" /\ pc[r] # "failed" =>
        \A k \in DOMAIN job[r].list :
            k < at[r] \/ (k = at[r] /\ pc[r] = "subscribe") => Joined(job[r].user, job[r].list[k])

LEMMA JoinedKept ==
    ASSUME Shape, NEW r \in Requests, Acts(r), NEW u, NEW p, Joined(u, p)
    PROVE  Joined(u, p)'
<1>1. PICK i \in RowsOf(p) : IsMember(u, i) \/ <<u, i>> \in removed
  BY DEF Joined
<1>2. i \in RowsOf(p)'
  BY LabelsDo DEF Frame, RowsOf
<1>3. removed' = removed
  BY DEF Acts, Connects, Renews, Invites, ConnectFacebook, ConnectTelegram, FindPage,
     InsertPage, InsertToken, UpdatePage, UpdateToken, UpsertMember, Subscribe, Connected, Renew,
     RenewPage, RenewToken, Renewed, Invite, InvitePage, InviteExists, InviteSave, Fail, history
<1>4. IsMember(u, i) => IsMember(u, i)'
  BY MembersOrNot DEF IsMember, MembersStep
<1> QED
  BY <1>1, <1>2, <1>3, <1>4 DEF Joined

LEMMA ActsConnected ==
    ASSUME Shape, ConnectedInv, NEW r \in Requests, Acts(r) PROVE ConnectedInv'
<1> SUFFICES ASSUME NEW s \in Requests, job'[s].op = "connect", pc'[s] # "failed",
                    NEW k \in DOMAIN job'[s].list,
                    k < at'[s] \/ (k = at'[s] /\ pc'[s] = "subscribe"),
                    NEW u, u = job'[s].user, NEW p, p = job'[s].list[k]
    PROVE  Joined(u, p)'
  BY DEF ConnectedInv, Joined, RowsOf, IsMember
<1>1. CASE s # r
  <2>1. job'[s] = job[s] /\ pc'[s] = pc[s] /\ at'[s] = at[s]
    BY <1>1, LabelsDo DEF Frame
  <2>2. Joined(u, p)
    BY <2>1 DEF ConnectedInv
  <2> QED
    BY <2>1, <2>2, JoinedKept
<1>2. CASE s = r
  <2>1. CASE job[r] = NoJob
    <3>1. at[r] = 1 /\ pc[r] = "new"
      BY <2>1, Here DEF ShapeOf, NoJob, Suspended
    <3>2. at' = at /\ pc'[r] \in {"find", "renewPage", "invite"}
      BY <3>1, Here DEF Acts, Connects, Renews, Invites, ConnectFacebook, ConnectTelegram, FindPage,
         InsertPage, InsertToken, UpdatePage, UpdateToken, UpsertMember, Subscribe, Connected, Renew,
         RenewPage, RenewToken, Renewed, Invite, InvitePage, InviteExists, InviteSave, Fail, Step,
         Goto, Suspended, Connecting, Renewing, Inviting
    <3>3. ShapeOf(r)' /\ TypeOK'
      BY ActsGood DEF Good
    <3>4. job'[r] \in Job \cup {NoJob}
      BY <3>3 DEF TypeOK
    <3>5. job'[r].list \in Seq(AllPages)
      BY <1>2, <3>4, JobIs
    <3>6. k \in Nat \ {0}
      BY <1>2, <3>5, LenProperties
    <3> QED
      BY <1>2, <3>1, <3>2, <3>6
  <2>2. CASE job[r] # NoJob
    <3>1. job' = job /\ job[r].op = "connect" /\ ShapeOf(r)
      BY <1>2, <2>2, JobsDo, Here
    <3>2. /\ at[r] \in Nat /\ DOMAIN job[r].list = 1 .. Len(job[r].list)
          /\ job[r].list \in Seq(AllPages) /\ Len(job[r].list) \in Nat
      BY <3>1, AtItem
    <3>3. k \in DOMAIN job[r].list /\ k \in Nat
      BY <1>2, <3>1, <3>2
    <3>4. pc[r] # "failed" /\ pc[r] # "new" /\ pc[r] \notin Renewing \cup Inviting /\ pc[r] # "done"
      <4>1. pc[r] # "new" /\ pc[r] \notin Renewing \cup Inviting
        BY <2>2, <3>1 DEF ShapeOf
      <4>2. pc[r] \notin {"failed", "done"}
        BY <4>1 DEF Acts, Connects, Renews, Invites, ConnectFacebook, ConnectTelegram, FindPage,
           InsertPage, InsertToken, UpdatePage, UpdateToken, UpsertMember, Subscribe, Connected, Renew,
           RenewPage, RenewToken, Renewed, Invite, InvitePage, InviteExists, InviteSave, Fail, Step,
           Suspended, Connecting, Renewing, Inviting
      <4> QED
        BY <4>1, <4>2
    <3>5. CASE k < at[r] \/ (k = at[r] /\ pc[r] = "subscribe")
      <4>1. Joined(u, p)
        BY <1>2, <3>1, <3>3, <3>4, <3>5 DEF ConnectedInv
      <4> QED
        BY <1>2, <3>1, <4>1, JoinedKept
    <3>6. CASE ~ (k < at[r] \/ (k = at[r] /\ pc[r] = "subscribe"))
      <4>1. UpsertMember(r) /\ k = at[r]
        <5>1. CASE Subscribe(r)
          <6>1. at'[r] = at[r] + 1 /\ pc[r] = "subscribe" /\ pc'[r] = "find"
            BY <5>1, Here DEF Subscribe, NextItem, Step, Goto
          <6> QED
            BY <1>2, <3>2, <3>3, <3>6, <6>1
        <5>2. CASE ~ Subscribe(r)
          <6>1. at' = at
            BY <3>4, <5>2 DEF Acts, Connects, Renews, Invites, ConnectFacebook, ConnectTelegram,
               FindPage, InsertPage, InsertToken, UpdatePage, UpdateToken, UpsertMember, Connected,
               Renew, RenewPage, RenewToken, Renewed, Invite, InvitePage, InviteExists, InviteSave,
               Fail, Step, Renewing
          <6>2. k = at[r] /\ pc'[r] = "subscribe"
            BY <1>2, <3>6, <6>1
          <6>3. UpsertMember(r)
            BY <3>4, <5>2, <6>2, Here DEF Acts, Connects, Renews, Invites, ConnectFacebook,
               ConnectTelegram, FindPage, InsertPage, InsertToken, UpdatePage, UpdateToken, Connected,
               Renew, RenewPage, RenewToken, Renewed, Invite, InvitePage, InviteExists, InviteSave,
               Fail, Step, Goto, Renewing, Inviting
          <6> QED
            BY <6>2, <6>3
        <5> QED
          BY <5>1, <5>2
      <4>2. row[r] \in RowsOf(p) /\ u = job[r].user
        BY <1>2, <3>1, <4>1 DEF UpsertMember, Step, ShapeOf, OnRow, Item
      <4>3. PICK i : i = row[r]
        OBVIOUS
      <4>4. i \in RowsOf(p)'
        BY <4>1, <4>2, <4>3 DEF UpsertMember, RowsOf
      <4>5. [user |-> u, row |-> i, role |-> Admin] \in members'
        BY <4>1, <4>2, <4>3 DEF UpsertMember
      <4>6. IsMember(u, i)'
        BY <4>5 DEF IsMember
      <4> QED
        BY <4>4, <4>6 DEF Joined
    <3> QED
      BY <3>5, <3>6
  <2> QED
    BY <2>1, <2>2
<1> QED
  BY <1>1, <1>2

(* Success means that every page of the account is known and has the user   *)
(* among its members, or that somebody removed the user since.              *)
THEOREM AnswersMeanConnected == Spec => []AnsweredIsConnected
<1>1. Init => ConnectedInv
  BY DEF Init, ConnectedInv, NoJob
<1>2. Shape /\ ConnectedInv /\ [Next]_vars => ConnectedInv'
  <2>1. ASSUME Shape, ConnectedInv, Remove PROVE ConnectedInv'
    <3>1. PICK m \in members :
            /\ members' = members \ {m} /\ removed' = removed \cup {<<m.user, m.row>>}
            /\ UNCHANGED <<fanpages, job, pc, at, row, lost>>
      BY <2>1 DEF Remove
    <3>2. ASSUME NEW u, NEW p, Joined(u, p) PROVE Joined(u, p)'
      BY <3>1, <3>2 DEF Joined, RowsOf, IsMember
    <3> QED
      BY <2>1, <3>1, <3>2 DEF ConnectedInv
  <2>2. ASSUME ConnectedInv, UNCHANGED vars PROVE ConnectedInv'
    BY <2>2 DEF vars, ConnectedInv, Joined, RowsOf, IsMember
  <2> QED
    BY <2>1, <2>2, ActsConnected DEF Next, Acts
<1>3. Shape /\ ConnectedInv => AnsweredIsConnected
  <2> SUFFICES ASSUME Shape, ConnectedInv, NEW r \in Requests, job[r].op = "connect", pc[r] = "done",
                      NEW p \in Listed(r)
      PROVE  \E i \in RowsOf(p) : IsMember(job[r].user, i) \/ <<job[r].user, i>> \in removed
    BY DEF AnsweredIsConnected
  <2>1. PICK k \in DOMAIN job[r].list : p = job[r].list[k]
    BY DEF Listed
  <2>2. at[r] = Len(job[r].list) + 1
    BY Here DEF ShapeOf
  <2>3. DOMAIN job[r].list = 1 .. Len(job[r].list) /\ Len(job[r].list) \in Nat
    BY AtItem
  <2>4. k < at[r]
    BY <2>1, <2>2, <2>3
  <2> QED
    BY <2>1, <2>4 DEF ConnectedInv, Joined
<1> QED
  BY <1>1, <1>2, <1>3, ShapeAlways, PTL DEF Spec
=============================================================================
