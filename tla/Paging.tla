-------------------------------- MODULE Paging --------------------------------
(***************************************************************************)
(* A list read page by page while its rows are written.                    *)
(*                                                                         *)
(* Every list of the program is paged by offset: page n skips (n - 1) *    *)
(* limit rows of the query and takes one row more than the limit, which    *)
(* says whether there are more.  A list that joins another table is read   *)
(* with two statements, the ids of the page and then its rows, and no      *)
(* transaction holds the pages of one reading together; each row may be    *)
(* written between two statements.                                         *)
(*                                                                         *)
(* A row is its serial id; its key is what the query sorts by before the   *)
(* id: created_at or sent_at, below the rank if the reading searches.      *)
(***************************************************************************)
EXTENDS Naturals, FiniteSets

CONSTANTS
    Rows,   \* ids of the rows a list may have
    Keys,   \* positions in the order of the query
    Out,    \* key of a row the query does not select
    Limit   \* rows of a page

ASSUME PagingAssumption ==
    /\ Rows \subseteq Nat /\ IsFiniteSet(Rows)
    /\ Keys \subseteq Nat /\ Out \notin Keys
    /\ Limit \in Nat \ {0}

VARIABLES
    kind,      \* the list that is read
    searching, \* whether the reader gave a search text
    key,       \* the key of each row
    at,        \* "idle", or the second statement that is to come
    ids,       \* what the first statement returned
    page,      \* pages the reader was shown
    shown,     \* the rows on them
    more,      \* hasMore of the last one
    twice,     \* a row was shown on two of them (history)
    due,       \* rows of the list when its first page was read that have
               \* kept their key since (history)
    grown,     \* a row came or moved since (history)
    shrunk     \* a row left or moved back since (history)

table   == <<kind, searching, key>>
reader  == <<at, ids, page, shown, more, twice>>
history == <<due, grown, shrunk>>
vars    == <<table, reader, history>>

Listed == {r \in Rows : key[r] # Out}

(* Mutant of Ahead: created_at is the only sort key. *)
AheadByTime(r, s) == key[r] > key[s]

(* Every query but that of the roles has the id as its last sort key. *)
Ahead(r, s) == key[r] > key[s] \/ (kind # "roles" /\ key[r] = key[s] /\ r > s)

(* No two rows that the query does not order. *)
Unambiguous ==
    kind = "roles" => \A r, s \in Listed : key[r] = key[s] => r = s

Kinds == {"conversations", "messages", "labels", "replies", "categories", "members",
          "connected", "roles"}

TypeOK ==
    /\ kind \in Kinds
    /\ searching \in BOOLEAN
    /\ key \in [Rows -> Keys \cup {Out}]
    /\ at \in {"idle", "rows", "count"}
    /\ ids \subseteq Rows
    /\ page \in Nat
    /\ shown \subseteq Rows
    /\ more \in BOOLEAN
    /\ twice \in BOOLEAN
    /\ due \subseteq Rows
    /\ grown \in BOOLEAN
    /\ shrunk \in BOOLEAN

Init ==
    /\ kind \in Kinds
    /\ searching \in BOOLEAN
    /\ key \in [Rows -> Keys \cup {Out}]
    /\ at = "idle"
    /\ ids = {}
    /\ page = 0
    /\ shown = {}
    /\ more = FALSE
    /\ twice = FALSE
    /\ due = {}
    /\ grown = FALSE
    /\ shrunk = FALSE

-----------------------------------------------------------------------------
(* The statements of a reading. *)

(* The first rows of S, in the order of the query. *)
Leading(A, S) == A \subseteq S /\ \A r \in A, s \in S : Ahead(s, r) => s \in A

Smaller(m, n) == IF m < n THEN m ELSE n

(* OFFSET skip LIMIT take: what S has after its first skip rows.           *)
IsWindow(W, S, skip, take) ==
    \E A \in SUBSET S :
        /\ Leading(A, S)
        /\ Cardinality(A) = Smaller(skip, Cardinality(S))
        /\ W \subseteq S \ A
        /\ Leading(A \cup W, S)
        /\ Cardinality(W) = Smaller(take, Cardinality(S \ A))

Skip   == page * Limit
Wanted == at = "idle" /\ (page = 0 \/ more)

(* The first page starts the history of a reading. *)
Opening ==
    \/ page = 0 /\ due' = Listed /\ grown' = FALSE /\ shrunk' = FALSE
    \/ page # 0 /\ UNCHANGED history

Show(rows) ==
    /\ page' = page + 1
    /\ shown' = shown \cup rows
    /\ twice' = (twice \/ shown \cap rows # {})

(* Mutant of Answer: a full page is taken for the last one. *)
AnswerLast(got) ==
    /\ \E rows \in SUBSET got : IsWindow(rows, got, 0, Limit) /\ Show(rows)
    /\ more' = (Cardinality(got) > Limit + 1)

(* The answer keeps the first rows of what came and says if one was left. *)
Answer(got) ==
    /\ \E rows \in SUBSET got : IsWindow(rows, got, 0, Limit) /\ Show(rows)
    /\ more' = (Cardinality(got) > Limit)

(* A list without joins: one statement. *)
ReadPage ==
    /\ Wanted
    /\ \E got \in SUBSET Listed :
          /\ IsWindow(got, Listed, Skip, Limit + 1)
          /\ Answer(got)
    /\ Opening
    /\ UNCHANGED <<table, at, ids>>

(* A list with joins: skip and take select ids, and a second statement the *)
(* rows of those ids that the query still selects, in their order by then. *)
ReadIds ==
    /\ Wanted
    /\ at' = "rows"
    /\ \E got \in SUBSET Listed : IsWindow(got, Listed, Skip, Limit + 1) /\ ids' = got
    /\ Opening
    /\ UNCHANGED <<table, page, shown, more, twice>>

ReadRows ==
    /\ at = "rows" /\ at' = "idle"
    /\ Answer(ids \cap Listed)
    /\ ids' = {}
    /\ UNCHANGED <<table, history>>

ReadTwice == ReadIds \/ ReadRows

(* The base repository: the rows of the page, then their total. *)
ReadCounted ==
    /\ Wanted
    /\ at' = "count"
    /\ \E got \in SUBSET Listed : IsWindow(got, Listed, Skip, Limit) /\ ids' = got
    /\ Opening
    /\ UNCHANGED <<table, page, shown, more, twice>>

ReadTotal ==
    /\ at = "count" /\ at' = "idle"
    /\ Show(ids)
    /\ more' = (Cardinality(Listed) > page' * Limit)
    /\ ids' = {}
    /\ UNCHANGED <<table, history>>

-----------------------------------------------------------------------------
(* Reading: the GetPaging of each list *)

ConversationPage == kind = "conversations" /\ ReadTwice
MessagePage      == kind = "messages"      /\ ReadTwice
LabelPage        == kind = "labels"        /\ ReadPage
ReplyPage        == kind = "replies"       /\ ReadTwice
CategoryPage     == kind = "categories"    /\ ReadPage
MemberPage       == kind = "members"       /\ ReadTwice
ConnectedPage    == kind = "connected"     /\ ReadTwice
RolePage         == kind = "roles"         /\ (ReadCounted \/ ReadTotal)

(* Mutant of ReadFails: the reading is left open. *)
ReadHangs ==
    /\ at # "idle" /\ at' = "failed"
    /\ ids' = {}
    /\ UNCHANGED <<table, page, shown, more, twice, history>>

(* A statement fails: the request is answered with an error. *)
ReadFails ==
    /\ at # "idle" /\ at' = "idle"
    /\ ids' = {}
    /\ UNCHANGED <<table, page, shown, more, twice, history>>

(* The reader opens the list anew. *)
Open ==
    /\ at = "idle" /\ page # 0
    /\ page' = 0 /\ shown' = {} /\ more' = FALSE /\ twice' = FALSE
    /\ due' = {} /\ grown' = FALSE /\ shrunk' = FALSE
    /\ UNCHANGED <<table, at, ids>>

-----------------------------------------------------------------------------
(* Writing *)

Opened == page # 0 \/ at # "idle"

Place(r, k) == key' = [key EXCEPT ![r] = k]

(* A row is inserted, or shown again.  Its time stamp was taken before the *)
(* statement, and imported messages keep the time they were sent.          *)
Insert(r) ==
    /\ key[r] = Out
    /\ \E k \in Keys : Place(r, k)
    /\ grown' = Opened
    /\ due' = due \ {r}
    /\ UNCHANGED <<kind, searching, reader, shrunk>>

(* A row is deleted, or hidden: is_deleted of a label. *)
Delete(r) ==
    /\ kind \in {"labels", "replies", "categories", "members", "connected"}
    /\ key[r] # Out /\ Place(r, Out)
    /\ shrunk' = Opened
    /\ due' = due \ {r}
    /\ UNCHANGED <<kind, searching, reader, grown>>

(* A row gets another place in the order, or is no longer selected. *)
Move(r, K) ==
    /\ key[r] # Out
    /\ \E k \in K :
          /\ Place(r, k)
          /\ shrunk' = (shrunk \/ (Opened /\ (k = Out \/ k < key[r])))
    /\ grown' = Opened
    /\ due' = due \ {r}
    /\ UNCHANGED <<kind, searching, reader>>

(* A message from its customer gives a conversation a new created_at, an   *)
(* import gives it one, connecting a page again gives one to its user_page.*)
(* The time is taken before the statement: one that comes late takes the   *)
(* row back.  The connected pages are those of a provider, which connecting*)
(* sets as well.                                                           *)
Upsert(r) ==
    /\ kind \in {"conversations", "members", "connected"}
    /\ Move(r, IF kind = "connected" THEN Keys \cup {Out} ELSE Keys)

(* An edit of the searched text: another rank, or none. *)
Edit(r) ==
    /\ searching /\ kind \notin {"messages", "roles"}
    /\ Move(r, Keys \cup {Out})

Read ==
    \/ ConversationPage \/ MessagePage \/ LabelPage \/ ReplyPage
    \/ CategoryPage \/ MemberPage \/ ConnectedPage \/ RolePage
    \/ ReadFails \/ Open
Write(r) == Insert(r) \/ Delete(r) \/ Upsert(r) \/ Edit(r)

Next == Read \/ \E r \in Rows : Write(r)

Spec == Init /\ [][Next]_vars

-----------------------------------------------------------------------------
(* Properties *)

(* A reading that reached its end has shown every row the list had at its  *)
(* beginning, whatever was inserted or moved to the front meanwhile, unless *)
(* a row left the list or moved back (limit + 1 and hasMore of GetPaging). *)
NothingSkipped ==
    Unambiguous /\ at = "idle" /\ page # 0 /\ ~more /\ ~shrunk => due \subseteq shown

(* No row is shown on two pages of one reading, whatever was deleted       *)
(* meanwhile, unless a row came or moved (skip and take of GetPaging).     *)
NothingTwice ==
    Unambiguous /\ ~grown => ~twice
=============================================================================
