---------------------------- MODULE CacheAside ----------------------------
(***************************************************************************)
(* The cached lists of one page and one user.                              *)
(*                                                                         *)
(* The chat, fanpage and auth services answer five reads from Redis and    *)
(* fill the key from Postgres on a miss; the edits of the listed rows drop *)
(* the key after the write, before it, or not at all.  Every await is a    *)
(* step, and requests of several service instances interleave.  The        *)
(* content of a list is abstracted to a version that every write moves on. *)
(***************************************************************************)
EXTENDS Naturals

CONSTANTS
    Requests,   \* slots for HTTP requests
    Workload,   \* the edits that arrive, a subset of Edits
    MaxWrites,  \* bound: how many writes Postgres sees
    Faults,     \* whether Redis and Postgres calls reject and processes die
    Absent      \* no such key, no edit, no list

Lists == {"label", "quickReply", "categories", "user", "fanpage"}

(* An edit drops one key, writes rows that some lists show, in an order.    *)
Edit(key, writes, order, many) ==
    [drops |-> key, writes |-> writes, order |-> order, many |-> many]

LabelCreate      == Edit("label", {"label"}, "after", FALSE)
LabelDelete      == Edit("label", {"label"}, "after", FALSE)
LabelUpdate      == Edit("label", {"label"}, "after", FALSE)
(* page_id is optional in UpdateLabelDto: without it no list's key is hit.  *)
LabelUpdateUnnamed == Edit("label", {"label"}, "never", FALSE)
LabelRestore     == Edit("label", {"label"}, "never", FALSE)
LabelDeleteAll   == Edit("label", {"label"}, "never", FALSE)
LabelCopy        == Edit("label", {"label"}, "never", TRUE)
ReplyCreate      == Edit("quickReply", {"quickReply"}, "after", FALSE)
ReplyUpdate      == Edit("quickReply", {"quickReply"}, "after", FALSE)
ReplyDelete      == Edit("quickReply", {"quickReply"}, "before", FALSE)
ReplyDeleteAll   == Edit("quickReply", {"quickReply"}, "never", FALSE)
ReplyCopy        == Edit("quickReply", {"quickReply", "categories"}, "never", TRUE)
CategoryCreate   == Edit("categories", {"categories"}, "after", FALSE)
(* A cached quick reply shows the name and the colour of its category.      *)
CategoryDelete   == Edit("categories", {"categories", "quickReply"}, "after", FALSE)
CategoryUpdate   == Edit("categories", {"categories", "quickReply"}, "after", FALSE)
LoginFlags       == Edit("user", {"user"}, "never", TRUE)
PageConnect      == Edit("fanpage", {"fanpage"}, "never", TRUE)
PageRenewal      == Edit("fanpage", {"fanpage"}, "never", TRUE)
PageSync         == Edit("fanpage", {"fanpage"}, "never", TRUE)
PageSyncTelegram == Edit("fanpage", {"fanpage"}, "before", TRUE)

Edits ==
    {LabelCreate, LabelDelete, LabelUpdate, LabelUpdateUnnamed, LabelRestore,
     LabelDeleteAll, LabelCopy, ReplyCreate, ReplyUpdate, ReplyDelete, ReplyDeleteAll,
     ReplyCopy, CategoryCreate, CategoryDelete, CategoryUpdate, LoginFlags,
     PageConnect, PageRenewal, PageSync, PageSyncTelegram}

ASSUME CacheAssumption ==
    /\ Workload \subseteq Edits
    /\ MaxWrites \in Nat
    /\ Faults \in BOOLEAN

VARIABLES
    content,  \* the version of each list in Postgres
    cache,    \* the value under each list's key, or Absent
    pc,       \* where each request is suspended
    edit,     \* the edit a request performs
    list,     \* the list a request reads
    seen,     \* the version a reader got from Postgres
    writes    \* writes so far, for the bound

vars == <<content, cache, pc, edit, list, seen, writes>>

(* late: the list had changed since the filler's query (a history field).   *)
Entry == [version : Nat, late : BOOLEAN]

Suspended == {"query", "fill", "write", "drop"}
(* "undropped": ended after its write without the drop that should follow.  *)
Labels    == {"idle", "done", "crashed", "undropped"} \cup Suspended

TypeOK ==
    /\ content \in [Lists -> Nat]
    /\ cache \in [Lists -> Entry \cup {Absent}]
    /\ pc \in [Requests -> Labels]
    /\ edit \in [Requests -> Edits \cup {Absent}]
    /\ list \in [Requests -> Lists \cup {Absent}]
    /\ seen \in [Requests -> Nat]
    /\ writes \in Nat
    /\ \A r \in Requests :
         /\ pc[r] \in {"write", "drop"} => edit[r] \in Workload
         /\ pc[r] \in {"query", "fill"} => list[r] \in Lists

Init ==
    /\ content = [l \in Lists |-> 0]
    /\ cache = [l \in Lists |-> Absent]
    /\ pc = [r \in Requests |-> "idle"]
    /\ edit = [r \in Requests |-> Absent]
    /\ list = [r \in Requests |-> Absent]
    /\ seen = [r \in Requests |-> 0]
    /\ writes = 0

Goto(r, label) == pc' = [pc EXCEPT ![r] = label]

(* The lists worth reading: the others never change. *)
Served == UNION {e.writes : e \in Workload}

-----------------------------------------------------------------------------
(* Readers: the three GetAll, GetPageId, GetByIdUser *)

(* Mutant of Lookup: the id of the page does not reach the query. *)
LookupNameless(r) ==
    /\ pc[r] = "idle"
    /\ \E l \in Served : Goto(r, IF cache[l] = Absent THEN "query" ELSE "done")
    /\ UNCHANGED <<content, cache, edit, list, seen, writes>>

Lookup(r) ==
    /\ pc[r] = "idle"
    /\ \E l \in Served :
         /\ list' = [list EXCEPT ![r] = l]
         /\ Goto(r, IF cache[l] = Absent THEN "query" ELSE "done")
    /\ UNCHANGED <<content, cache, edit, seen, writes>>

(* GET rejects: the lists fall back to Postgres, GetByIdUser fails. *)
LookupFails(r) ==
    /\ Faults
    /\ pc[r] = "idle"
    /\ \E l \in Served :
         /\ list' = [list EXCEPT ![r] = l]
         /\ Goto(r, IF l = "user" THEN "done" ELSE "query")
    /\ UNCHANGED <<content, cache, edit, seen, writes>>

Query(r) ==
    /\ pc[r] = "query"
    /\ seen' = [seen EXCEPT ![r] = content[list[r]]]
    /\ Goto(r, "fill")
    /\ UNCHANGED <<content, cache, edit, list, writes>>

(* The SET reaches Redis some time after the query. *)
Fill(r) ==
    /\ pc[r] = "fill"
    /\ cache' = [cache EXCEPT ![list[r]] =
                   [version |-> seen[r], late |-> seen[r] # content[list[r]]]]
    /\ Goto(r, "done")
    /\ UNCHANGED <<content, edit, list, seen, writes>>

-----------------------------------------------------------------------------
(* Edits *)

Begin(r) ==
    /\ pc[r] = "idle"
    /\ \E e \in Workload :
         /\ edit' = [edit EXCEPT ![r] = e]
         /\ Goto(r, IF e.order = "before" THEN "drop" ELSE "write")
    /\ UNCHANGED <<content, cache, list, seen, writes>>

Change(lists) ==
    /\ writes < MaxWrites
    /\ writes' = writes + 1
    /\ content' = [l \in Lists |-> IF l \in lists THEN content[l] + 1 ELSE content[l]]

(* Mutant of AfterWrite: create, update and delete forget to drop. *)
AfterWriteNoDrop(r) == Goto(r, "done")

AfterWrite(r) ==
    \/ edit[r].order = "after" /\ Goto(r, "drop")
    \/ edit[r].order # "after" /\ Goto(r, "done")
    \/ edit[r].many /\ Goto(r, "write")

Write(r) ==
    /\ pc[r] = "write"
    /\ Change(edit[r].writes)
    /\ AfterWrite(r)
    /\ UNCHANGED <<cache, edit, list, seen>>

(* No row has the given id: the statement succeeds and changes nothing. *)
WriteNothing(r) ==
    /\ pc[r] = "write"
    /\ AfterWrite(r)
    /\ UNCHANGED <<content, cache, edit, list, seen, writes>>

(* No such page, or a unique name already taken: the handler throws. *)
Refuse(r) ==
    /\ pc[r] \in {"query", "write"}
    /\ Goto(r, "done")
    /\ UNCHANGED <<content, cache, edit, list, seen, writes>>

AfterDrop(r) == Goto(r, IF edit[r].order = "before" THEN "write" ELSE "done")

Drop(r) ==
    /\ pc[r] = "drop"
    /\ cache' = [cache EXCEPT ![edit[r].drops] = Absent]
    /\ AfterDrop(r)
    /\ UNCHANGED <<content, edit, list, seen, writes>>

-----------------------------------------------------------------------------
(* Faults *)

(* invalidateCache swallows the error of its DEL; telegram.syncing does not. *)
DropFails(r) ==
    /\ Faults
    /\ pc[r] = "drop"
    /\ Goto(r, CASE edit[r].drops = "fanpage" -> "done"
                 [] edit[r].order = "before"   -> "write"
                 [] OTHER                      -> "undropped")
    /\ UNCHANGED <<content, cache, edit, list, seen, writes>>

(* The connection breaks after the commit: the handler throws. *)
CommitUnheard(r) ==
    /\ Faults
    /\ pc[r] = "write"
    /\ Change(edit[r].writes)
    /\ Goto(r, "undropped")
    /\ UNCHANGED <<cache, edit, list, seen>>

(* A SET or a query rejects, or the process dies. *)
Crash(r) ==
    /\ Faults
    /\ pc[r] \in Suspended
    /\ Goto(r, IF pc[r] = "drop" /\ edit[r].order = "after"
               THEN "undropped" ELSE "crashed")
    /\ UNCHANGED <<content, cache, edit, list, seen, writes>>

(* The TTL of a day (an hour for a user) fires, or the key is evicted. *)
Expire(l) ==
    /\ cache[l] # Absent
    /\ cache' = [cache EXCEPT ![l] = Absent]
    /\ UNCHANGED <<content, pc, edit, list, seen, writes>>

Next ==
    \/ \E r \in Requests :
         \/ Lookup(r) \/ LookupFails(r) \/ Query(r) \/ Fill(r)
         \/ Begin(r) \/ Write(r) \/ WriteNothing(r) \/ Refuse(r) \/ Drop(r)
         \/ DropFails(r) \/ CommitUnheard(r) \/ Crash(r)
    \/ \E l \in Lists : Expire(l)

Spec == Init /\ [][Next]_vars

-----------------------------------------------------------------------------
(* Properties *)

Stale(l) == cache[l] # Absent /\ cache[l].version # content[l]

(* The edit drops the key of l after its only write. *)
Covers(e, l) == e.order = "after" /\ e.drops = l /\ ~e.many

BeingDropped(l) ==
    \E r \in Requests : pc[r] = "drop" /\ edit[r].order = "after" /\ edit[r].drops = l

(* r may have written already. *)
Past(r) ==
    \/ pc[r] \in {"done", "crashed", "undropped"}
    \/ pc[r] = "drop" /\ edit[r].order = "after"
    \/ pc[r] = "write" /\ edit[r].many

(* An edit of l is past its write and will not drop the key: it never does, *)
(* or it broke off before it could.                                         *)
LeftBehind(l) ==
    \E r \in Requests :
        /\ edit[r] \in Workload /\ l \in edit[r].writes
        /\ Covers(edit[r], l) => pc[r] = "undropped"
        /\ Past(r)

(* "Xoa cache khi xoa danh muc": an edit removes from Redis what it made    *)
(* stale.  An entry that was current when it was stored is either current,  *)
(* or about to be dropped by the edit that outdated it, or that edit drops  *)
(* another key, none, or broke off: however many edits, refused edits and   *)
(* fills overlap, an edit that covers its list and ends in order leaves no  *)
(* stale entry but one that a straddling fill stores.                       *)
StaleIsDropped ==
    \A l \in Lists :
        Stale(l) /\ ~cache[l].late => BeingDropped(l) \/ LeftBehind(l)
=============================================================================
