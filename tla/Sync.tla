-------------------------------- MODULE Sync --------------------------------
(***************************************************************************)
(* The synchronisation of the history of one page and its status.          *)
(*                                                                         *)
(* A run marks the page 'syncing', imports the newest messages of every    *)
(* dialog and marks the page 'success' or 'failed'. Each mark is an UPDATE *)
(* followed by a message on a Redis channel that the gateway forwards to   *)
(* the screens. Nothing keeps two runs apart.                              *)
(*                                                                         *)
(* A Facebook page is imported dialog by dialog, the messages of one in a  *)
(* single INSERT; of a Telegram account three dialogs are imported at a    *)
(* time, each message by a statement of its own, the newest first. A       *)
(* Telegram message is stored with a foreign key on the one it replies to. *)
(***************************************************************************)
EXTENDS Naturals, FiniteSets

CONSTANTS
    Runs,        \* calls of Syncing
    Dialogs,     \* number of dialogs of the page, in the order of their listing
    MaxMessages, \* per dialog, a bound on its messages
    PageSize,    \* how many of the newest messages a listing has
    Workers,     \* pLimit(3)
    ReplyTo,     \* the position a Telegram message replies to, 0 for none
    Bare         \* Telegram messages with neither text nor media

Dialog  == 1 .. Dialogs
Message == UNION {{d} \X (1 .. MaxMessages[d]) : d \in Dialog}

ASSUME SyncAssumption ==
    /\ Dialogs \in Nat /\ MaxMessages \in [Dialog -> Nat]
    /\ PageSize \in Nat \ {0} /\ Workers \in Nat \ {0}
    /\ ReplyTo \in [Message -> Nat]
    /\ \A m \in Message : ReplyTo[m] < m[2]    \* a reply is newer than what it answers
    /\ Bare \subseteq Message

VARIABLES
    platform,  \* of the page
    received,  \* per dialog, how many messages it has at the provider
    known,     \* dialogs that have a row in conversations
    stored,    \* rows of live_messages
    status,    \* fanpages.sync_status
    shown,     \* the last status pushed to the screens
    disturbed, \* two runs overlapped, or a push was lost (history)
    pc,        \* where each run is suspended
    at,        \* the dialog its loop has come to
    listed,    \* per dialog, how many messages it had when the run listed them
    cursor,    \* per dialog, the message the run stores next; 0 when through
    open,      \* dialogs a Telegram run is working on
    dropped    \* dialogs whose import a Telegram run gave up

vars == <<platform, received, known, stored, status, shown, disturbed,
          pc, at, listed, cursor, open, dropped>>

SyncStatus == {"pending", "syncing", "success", "failed"}

(* What each suspended run does next. *)
Trying == {"list", "conversation", "fetch", "insert", "messages", "succeed", "tellSuccess"}
Active == Trying \cup {"tellSyncing", "catch", "tellFailed"}

Lengths == {f \in [Dialog -> Nat] : \A d \in Dialog : f[d] <= MaxMessages[d]}

TypeOK ==
    /\ platform \in {"facebook", "telegram"}
    /\ received \in Lengths
    /\ known \subseteq Dialog
    /\ stored \subseteq Message
    /\ status \in SyncStatus /\ shown \in SyncStatus
    /\ disturbed \in BOOLEAN
    /\ pc \in [Runs -> Active \cup {"new", "success", "failed", "lost"}]
    /\ at \in [Runs -> 1 .. Dialogs + 1]
    /\ listed \in [Runs -> Lengths]
    /\ cursor \in [Runs -> Lengths]
    /\ open \in [Runs -> SUBSET Dialog]
    /\ dropped \in [Runs -> SUBSET Dialog]

Init ==
    /\ platform \in {"facebook", "telegram"}
    /\ received = [d \in Dialog |-> 0]
    /\ known = {}
    /\ stored = {}
    /\ status = "pending" /\ shown = "pending"
    /\ disturbed = FALSE
    /\ pc = [r \in Runs |-> "new"]
    /\ at = [r \in Runs |-> 1]
    /\ listed = [r \in Runs |-> [d \in Dialog |-> 0]]
    /\ cursor = [r \in Runs |-> [d \in Dialog |-> 0]]
    /\ open = [r \in Runs |-> {}]
    /\ dropped = [r \in Runs |-> {}]

marks == <<status, shown, disturbed>>
rows  == <<known, stored>>
work  == <<at, listed, cursor, open, dropped>>

Running == {r \in Runs : pc[r] \in Active}
Goto(r, label)    == pc' = [pc EXCEPT ![r] = label]
Step(r, from, to) == pc[r] = from /\ Goto(r, to)

(* The messages run r was given of dialog d: the newest ones at that time. *)
Listing(r, d) ==
    {m \in Message : m[1] = d /\ m[2] <= listed[r][d] /\ m[2] + PageSize > listed[r][d]}

(* Somebody writes to the page. *)
Receive(d) ==
    /\ received[d] < MaxMessages[d]
    /\ received' = [received EXCEPT ![d] = @ + 1]
    /\ UNCHANGED <<platform, rows, marks, pc, work>>

-----------------------------------------------------------------------------
(* The status: updateSyncStatus *)

Begin(r) ==
    /\ Step(r, "new", "tellSyncing")
    /\ status' = "syncing"
    /\ disturbed' = (disturbed \/ Running # {})
    /\ UNCHANGED <<platform, received, rows, shown, work>>

Succeed(r) ==
    /\ Step(r, "succeed", "tellSuccess")
    /\ status' = "success"
    /\ UNCHANGED <<platform, received, rows, shown, disturbed, work>>

(* Mutant of Catch: the error is only rethrown. *)
CatchRethrows(r) ==
    /\ Step(r, "catch", "failed")
    /\ UNCHANGED <<platform, received, rows, marks, work>>

(* Mutant of Catch: the repository is updated without updateSyncStatus. *)
CatchSilently(r) ==
    /\ Step(r, "catch", "failed")
    /\ status' = "failed"
    /\ UNCHANGED <<platform, received, rows, shown, disturbed, work>>

(* Mutant of Catch: 'success' is written in a finally block. *)
CatchSucceeds(r) ==
    /\ Step(r, "catch", "tellSuccess")
    /\ status' = "success"
    /\ UNCHANGED <<platform, received, rows, shown, disturbed, work>>

Catch(r) ==
    /\ Step(r, "catch", "tellFailed")
    /\ status' = "failed"
    /\ UNCHANGED <<platform, received, rows, shown, disturbed, work>>

(* PUBLISH; a gateway that is down does not hear it. *)
Tell(r, s) ==
    /\ \/ shown' = s /\ UNCHANGED disturbed
       \/ disturbed' = TRUE /\ UNCHANGED shown
    /\ UNCHANGED <<platform, received, rows, status, work>>

TellSyncing(r) == Step(r, "tellSyncing", "list") /\ Tell(r, "syncing")
TellSuccess(r) == Step(r, "tellSuccess", "success") /\ Tell(r, "success")
TellFailed(r)  == Step(r, "tellFailed", "failed") /\ Tell(r, "failed")

-----------------------------------------------------------------------------
(* The import: Syncing of Facebook and of Telegram *)

(* The row of the page, its token, and the list of dialogs. *)
List(r) ==
    /\ Step(r, "list", "conversation")
    /\ UNCHANGED <<platform, received, rows, marks, work>>

(* The upsert of one conversation; Telegram goes through all of them before *)
(* it turns to the messages.                                                *)
Conversation(r) ==
    /\ at[r] \in Dialog
    /\ known' = known \cup {at[r]}
    /\ IF platform = "facebook"
       THEN Step(r, "conversation", "fetch") /\ UNCHANGED at
       ELSE pc[r] = "conversation" /\ at' = [at EXCEPT ![r] = @ + 1] /\ UNCHANGED pc
    /\ UNCHANGED <<platform, received, stored, marks, listed, cursor, open, dropped>>

Conversations(r) ==
    /\ at[r] \notin Dialog
    /\ Step(r, "conversation", IF platform = "facebook" THEN "succeed" ELSE "messages")
    /\ at' = [at EXCEPT ![r] = IF platform = "facebook" THEN @ ELSE 1]
    /\ UNCHANGED <<platform, received, rows, marks, listed, cursor, open, dropped>>

(* Mutant of Fetch: one message more than the dialog has. *)
FetchNext(r) ==
    /\ Step(r, "fetch", "insert")
    /\ listed' = [listed EXCEPT ![r][at[r]] = received[at[r]] + 1]
    /\ UNCHANGED <<platform, received, rows, marks, at, cursor, open, dropped>>

Fetch(r) ==
    /\ Step(r, "fetch", "insert")
    /\ listed' = [listed EXCEPT ![r][at[r]] = received[at[r]]]
    /\ UNCHANGED <<platform, received, rows, marks, at, cursor, open, dropped>>

(* One INSERT of the whole listing; the mids that are there are skipped. *)
Insert(r) ==
    /\ Step(r, "insert", "conversation")
    /\ stored' = stored \cup Listing(r, at[r])
    /\ at' = [at EXCEPT ![r] = @ + 1]
    /\ UNCHANGED <<platform, received, known, marks, listed, cursor, open, dropped>>

(* A worker takes the next dialog and lists its newest messages. *)
OpenDialog(r) ==
    /\ pc[r] = "messages" /\ at[r] \in Dialog
    /\ Cardinality(open[r]) < Workers
    /\ open' = [open EXCEPT ![r] = @ \cup {at[r]}]
    /\ listed' = [listed EXCEPT ![r][at[r]] = received[at[r]]]
    /\ cursor' = [cursor EXCEPT ![r][at[r]] = received[at[r]]]
    /\ at' = [at EXCEPT ![r] = @ + 1]
    /\ UNCHANGED <<platform, received, rows, marks, pc, dropped>>

CloseDialog(r, d) ==
    /\ open' = [open EXCEPT ![r] = @ \ {d}]
    /\ cursor' = [cursor EXCEPT ![r][d] = 0]

(* getMessages or an upsert rejects: the rest of the dialog is dropped. *)
DropDialog(r, d) ==
    /\ CloseDialog(r, d)
    /\ dropped' = [dropped EXCEPT ![r] = @ \cup {d}]
    /\ UNCHANGED <<platform, received, rows, marks, pc, at, listed>>

(* The foreign key on the message that m replies to. *)
Accepted(m) == ReplyTo[m] = 0 \/ <<m[1], ReplyTo[m]>> \in stored

(* Mutant of StoreMessage: a message that was rejected is tried again. *)
StoreRetries(r, d) ==
    LET m == <<d, cursor[r][d]>> IN
    /\ d \in open[r] /\ m \in Listing(r, d)
    /\ m \in Bare \/ Accepted(m)
    /\ stored' = IF m \in Bare THEN stored ELSE stored \cup {m}
    /\ cursor' = [cursor EXCEPT ![r][d] = @ - 1]
    /\ UNCHANGED <<platform, received, known, marks, pc, at, listed, open, dropped>>

(* The next message is upserted, passed over, or rejected. *)
StoreMessage(r, d) ==
    LET m == <<d, cursor[r][d]>> IN
    /\ d \in open[r] /\ m \in Listing(r, d)
    /\ \/ /\ m \in Bare \/ Accepted(m)
          /\ stored' = IF m \in Bare THEN stored ELSE stored \cup {m}
          /\ cursor' = [cursor EXCEPT ![r][d] = @ - 1]
          /\ UNCHANGED <<platform, received, known, marks, pc, at, listed, open, dropped>>
       \/ /\ m \notin Bare /\ ~ Accepted(m)
          /\ DropDialog(r, d)

Imported(r, d) ==
    /\ d \in open[r] /\ <<d, cursor[r][d]>> \notin Listing(r, d)
    /\ CloseDialog(r, d)
    /\ UNCHANGED <<platform, received, rows, marks, pc, at, listed, dropped>>

(* Mutant of AllImported: Promise.all is not awaited. *)
NotAwaited(r) ==
    /\ Step(r, "messages", "succeed")
    /\ at[r] \notin Dialog
    /\ UNCHANGED <<platform, received, rows, marks, work>>

(* Promise.all *)
AllImported(r) ==
    /\ Step(r, "messages", "succeed")
    /\ at[r] \notin Dialog /\ open[r] = {}
    /\ UNCHANGED <<platform, received, rows, marks, work>>

-----------------------------------------------------------------------------
(* Faults *)

(* What a run had in its hands goes with its try block. *)
Forget(S) ==
    /\ at' = [r \in Runs |-> IF r \in S THEN 1 ELSE at[r]]
    /\ listed' = [r \in Runs |-> IF r \in S THEN [d \in Dialog |-> 0] ELSE listed[r]]
    /\ cursor' = [r \in Runs |-> IF r \in S THEN [d \in Dialog |-> 0] ELSE cursor[r]]
    /\ open' = [r \in Runs |-> IF r \in S THEN {} ELSE open[r]]
    /\ dropped' = [r \in Runs |-> IF r \in S THEN {} ELSE dropped[r]]

(* The UPDATE to 'syncing' and its message are outside of the try block. *)
BeginFails(r) ==
    /\ \/ Step(r, "new", "lost") /\ status' = "syncing"
       \/ Step(r, "tellSyncing", "lost") /\ UNCHANGED status
    /\ disturbed' = TRUE
    /\ UNCHANGED <<platform, received, rows, shown, work>>

(* A call or a statement rejects; an UPDATE may have taken effect. *)
TryFails(r) ==
    /\ pc[r] \in Trying \ {"messages"} /\ Goto(r, "catch")
    /\ \/ UNCHANGED status
       \/ pc[r] = "succeed" /\ status' = "success"
    /\ Forget({r})
    /\ UNCHANGED <<platform, received, rows, shown, disturbed>>

DialogFails(r) == \E d \in open[r] : DropDialog(r, d)

CatchFails(r) ==
    /\ \/ Step(r, "catch", "lost") /\ status' \in {status, "failed"}
       \/ Step(r, "tellFailed", "failed") /\ UNCHANGED status
    /\ disturbed' = TRUE
    /\ UNCHANGED <<platform, received, rows, shown, work>>

(* The fanpage service dies, and with it every run. *)
Crash ==
    /\ Running # {}
    /\ pc' = [r \in Runs |-> IF r \in Running THEN "lost" ELSE pc[r]]
    /\ disturbed' = TRUE
    /\ Forget(Running)
    /\ UNCHANGED <<platform, received, rows, status, shown>>

-----------------------------------------------------------------------------
Syncing(r) ==
    \/ TellSyncing(r) \/ List(r)
    \/ Conversation(r) \/ Conversations(r) \/ Fetch(r) \/ Insert(r)
    \/ OpenDialog(r) \/ AllImported(r)
    \/ \E d \in Dialog : StoreMessage(r, d) \/ Imported(r, d)
    \/ Succeed(r) \/ TellSuccess(r) \/ Catch(r) \/ TellFailed(r)

Faults(r) == BeginFails(r) \/ TryFails(r) \/ DialogFails(r) \/ CatchFails(r)

Next ==
    \/ \E r \in Runs : Begin(r) \/ Syncing(r) \/ Faults(r)
    \/ \E d \in Dialog : Receive(d)
    \/ Crash

Spec == Init /\ [][Next]_vars

(* An awaited call is answered or rejects, and the event loop goes on. *)
FairSpec == Spec /\ \A r \in Runs : WF_vars(Syncing(r))

-----------------------------------------------------------------------------
(* Properties *)

(* A page reads 'syncing' only while a run is under way, or after one that *)
(* was lost: with the service, or where the status could not be written.   *)
SyncingHasRun ==
    status = "syncing" => Running # {} \/ \E r \in Runs : pc[r] = "lost"

(* When no run is under way, none overlapped another one and no push was   *)
(* lost, the screens show the status of the row.                            *)
ShownIsStatus == Running = {} /\ ~ disturbed => shown = status

(* A run that marked the page 'success' has stored all it was given of     *)
(* every dialog, but for Telegram dialogs whose error it swallowed.        *)
SuccessIsComplete ==
    \A r \in Runs : pc[r] \in {"tellSuccess", "success"} =>
        \A d \in Dialog :
            \/ platform = "facebook" /\ Listing(r, d) \subseteq stored
            \/ platform = "telegram" /\ Listing(r, d) \ Bare \subseteq stored
            \/ platform = "telegram" /\ d \in dropped[r]

(* What a run was given and has to store before it may say 'success'. *)
Due(r) ==
    {m \in Message :
        /\ m \in Listing(r, m[1])
        /\ platform = "telegram" => m \notin Bare /\ m[1] \notin dropped[r]}

Phase(r) ==
    CASE pc[r] = "new"         -> "new"
      [] pc[r] = "tellSuccess" -> "declared"
      [] pc[r] = "catch"       -> "failing"
      [] pc[r] \in (Trying \ {"tellSuccess"}) \cup {"tellSyncing"} -> "working"
      [] OTHER                 -> "ended"

History == INSTANCE Import WITH
    Dialogs  <- {{m \in Message : m[1] = d} : d \in Dialog},
    lenient  <- platform = "telegram",
    posted   <- {m \in Message : m[2] <= received[m[1]]},
    archive  <- stored,
    due      <- [r \in Runs |-> Due(r)],
    phase    <- [r \in Runs |-> Phase(r)]

(* Both imports, with their loops, workers, rejected replies and swallowed  *)
(* errors, are imports in the sense of Import: a run adds only messages it  *)
(* was given, gives up only whole dialogs and only of Telegram, writes      *)
(* 'success' only when nothing it owes is missing, 'failed' only after it   *)
(* broke off, and never writes again after that.                            *)
KeepsHistory == History!Spec

(* A page does not read 'syncing' for ever, unless a run was lost. *)
SyncingEnds == []<>(status # "syncing" \/ \E r \in Runs : pc[r] = "lost")
=============================================================================
