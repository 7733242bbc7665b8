------------------------------- MODULE Inbox -------------------------------
(***************************************************************************)
(* One conversation of a page with a customer.                             *)
(*                                                                         *)
(* Facebook posts batches of events to the gateway's webhook, again and    *)
(* again until it gets a 200; the chat service stores the message, moves   *)
(* the conversation on and hands it back, and the gateway pushes it to the *)
(* agents' sockets.  Agents send messages and reset the unread counter,    *)
(* and the fanpage service imports the history that Facebook keeps.  All   *)
(* of them write the same two tables, and every await is a step.           *)
(*                                                                         *)
(* The customer's messages are numbered in the order they were sent; the   *)
(* message an agent sends is named after its request.  A time stamp is     *)
(* abstracted to the number of messages stored when it was taken.          *)
(***************************************************************************)
EXTENDS Naturals, Sequences, FiniteSets

CONSTANTS
    Requests,    \* slots for HTTP requests
    MaxMessage,  \* the customer sends messages 1..MaxMessage
    Batches,     \* what Facebook posts: sequences of messages and receipts
    Resets,      \* the values the agents' pages set the unread counter to
    ReplyTo,     \* the message each one replies to, or Nobody
    Agents,      \* whether agents send messages and mark as read
    Syncs,       \* whether the history is imported
    Faults       \* whether calls reject and processes die

Messages == 1 .. MaxMessage
Receipt  == 0   \* an event without a message: a delivery or a postback
Nobody   == 0

ASSUME InboxAssumption ==
    /\ MaxMessage \in Nat
    /\ IsFiniteSet(Requests)
    /\ Requests \cap (Messages \cup {Nobody}) = {}
    /\ Resets \subseteq Nat
    /\ Batches \subseteq Seq(Messages \cup {Receipt})
    /\ ReplyTo \in [Messages -> Messages \cup {Nobody}]
    /\ {Agents, Syncs, Faults} \subseteq BOOLEAN

VARIABLES
    rows,      \* live_messages: the mids in the order of their ids
    conv,      \* the row of the conversation
    received,  \* agents' messages that reached Facebook
    pc,        \* where each request is suspended
    batch,     \* the events a webhook request carries
    row,       \* savedMessage.id of a request
    copy,      \* updatedConversation of a request
    status,    \* the HTTP status a request was answered with, 0 before that
    counted,   \* messages that were added to unread_count (history)
    reset,     \* the value the counter was last set to, and the messages
               \* that had been counted by then (history)
    announced, \* messages that were pushed to the sockets
    shown      \* the conversation the sockets of the page saw last

tables  == <<rows, conv, received>>
request == <<pc, batch, row, copy, status>>
sockets == <<announced, shown>>
vars    == <<tables, request, counted, reset, sockets>>

Conversation ==
    [exists : BOOLEAN, last : Nat, unread : Nat, created : Nat]

Reset == [value : Nat, mids : SUBSET Messages]

NoConversation == [exists |-> FALSE, last |-> 0, unread |-> 0, created |-> 0]

Webhook   == {"find", "save", "count", "reread", "emit"}
Suspended == {"token", "post", "keep", "point", "upsert", "import"} \cup Webhook
Labels    == {"idle", "done"} \cup Suspended

TypeOK ==
    /\ rows \in Seq(Messages \cup Requests)
    /\ conv \in Conversation
    /\ received \subseteq Requests
    /\ pc \in [Requests -> Labels]
    /\ batch \in [Requests -> Batches \cup {<<>>}]
    /\ row \in [Requests -> Nat]
    /\ copy \in [Requests -> Conversation]
    /\ status \in [Requests -> {0, 200, 500}]
    /\ counted \subseteq Messages
    /\ reset \in Reset
    /\ announced \subseteq Messages
    /\ shown \in Conversation

Init ==
    /\ rows = <<>>
    /\ conv = NoConversation
    /\ received = {}
    /\ pc = [r \in Requests |-> "idle"]
    /\ batch = [r \in Requests |-> <<>>]
    /\ row = [r \in Requests |-> 0]
    /\ copy = [r \in Requests |-> NoConversation]
    /\ status = [r \in Requests |-> 0]
    /\ counted = {}
    /\ reset = [value |-> 0, mids |-> {}]
    /\ announced = {}
    /\ shown = NoConversation

At(r, label)   == pc[r] = label
Goto(r, label) == pc' = [pc EXCEPT ![r] = label] /\ UNCHANGED status

Answer(r, code) ==
    /\ pc' = [pc EXCEPT ![r] = "done"]
    /\ status' = [status EXCEPT ![r] = code]

(* The mids that the unique column facebook_mid holds. *)
Stored == {rows[i] : i \in DOMAIN rows}

(* Upsert on (page_id, customer_id), with created_at among the values.      *)
Touch == conv' = [conv EXCEPT !.exists = TRUE, !.created = Len(rows)]

-----------------------------------------------------------------------------
(* Webhook: gateway webhooks.service.ts, chat conversation.service.ts *)

MessagesOf(b) == {b[i] : i \in DOMAIN b} \ {Receipt}

(* FacebookSend skips receipts and returns from inside its loop: it handles *)
(* the first message of a batch and no other.                               *)
Handles(b, i) == b[i] # Receipt /\ \A j \in 1 .. (i - 1) : b[j] = Receipt

HasMessage(b) == \E i \in DOMAIN b : Handles(b, i)
First(b)      == b[CHOOSE i \in DOMAIN b : Handles(b, i)]

(* A batch without a message makes the handler return undefined, which the  *)
(* gateway cannot parse.                                                    *)
Deliver(r) ==
    /\ At(r, "idle")
    /\ \E b \in Batches :
         /\ batch' = [batch EXCEPT ![r] = b]
         /\ IF HasMessage(b) THEN Goto(r, "find") ELSE Answer(r, 500)
    /\ UNCHANGED <<tables, row, copy, counted, reset, sockets>>

(* findOrCreateConversation *)
Find(r) ==
    /\ At(r, "find")
    /\ Touch
    /\ copy' = [copy EXCEPT ![r] = conv']
    /\ Goto(r, "save")
    /\ UNCHANGED <<rows, received, batch, row, counted, reset, sockets>>

Insert(r, mid, next) ==
    /\ rows' = Append(rows, mid)
    /\ row' = [row EXCEPT ![r] = Len(rows) + 1]
    /\ Goto(r, next)

(* Mutant of Save: a duplicate is taken for one that was handled. *)
SaveAcksDuplicate(r) ==
    LET mid == First(batch[r]) IN
    /\ At(r, "save")
    /\ IF mid \in Stored
         THEN Answer(r, 200) /\ UNCHANGED <<rows, row>>
         ELSE Insert(r, mid, "count")
    /\ UNCHANGED <<conv, received, batch, copy, counted, reset, sockets>>

(* The unique mid and the foreign key of reply_to_id make the INSERT fail. *)
Save(r) ==
    LET mid == First(batch[r]) IN
    /\ At(r, "save")
    /\ IF mid \in Stored \/ ReplyTo[mid] \notin Stored \cup {Nobody}
         THEN Answer(r, 500) /\ UNCHANGED <<rows, row>>
         ELSE Insert(r, mid, "count")
    /\ UNCHANGED <<conv, received, batch, copy, counted, reset, sockets>>

(* Mutant of Count: the counter is computed from the row read before. *)
CountFromCopy(r) ==
    /\ At(r, "count")
    /\ conv' = [conv EXCEPT !.last = row[r], !.unread = copy[r].unread + 1]
    /\ counted' = counted \cup {rows[row[r]]}
    /\ Goto(r, "reread")
    /\ UNCHANGED <<rows, received, batch, row, copy, reset, sockets>>

Count(r) ==
    /\ At(r, "count")
    /\ conv' = [conv EXCEPT !.last = row[r], !.unread = @ + 1]
    /\ counted' = counted \cup {rows[row[r]]}
    /\ Goto(r, "reread")
    /\ UNCHANGED <<rows, received, batch, row, copy, reset, sockets>>

Reread(r) ==
    /\ At(r, "reread")
    /\ copy' = [copy EXCEPT ![r] = conv]
    /\ Goto(r, "emit")
    /\ UNCHANGED <<tables, batch, row, counted, reset, sockets>>

(* Mutant of Emit: the sockets get every message of the batch. *)
EmitBatch(r) ==
    /\ At(r, "emit")
    /\ announced' = announced \cup MessagesOf(batch[r])
    /\ shown' = copy[r]
    /\ Answer(r, 200)
    /\ UNCHANGED <<tables, batch, row, copy, counted, reset>>

(* handleSync: the message, then the conversation as it was re-read. *)
Emit(r) ==
    /\ At(r, "emit")
    /\ announced' = announced \cup {rows[row[r]]}
    /\ shown' = copy[r]
    /\ Answer(r, 200)
    /\ UNCHANGED <<tables, batch, row, copy, counted, reset>>

-----------------------------------------------------------------------------
(* Agents: chat messages.service.ts, conversation.service.ts *)

SendArrive(r) ==
    /\ Agents
    /\ At(r, "idle")
    /\ conv.exists
    /\ Goto(r, "token")
    /\ UNCHANGED <<tables, batch, row, copy, counted, reset, sockets>>

(* Without a token of the page, Send returns and the answer is a 200. *)
SendToken(r) ==
    /\ At(r, "token")
    /\ Goto(r, "post") \/ Answer(r, 200)
    /\ UNCHANGED <<tables, batch, row, copy, counted, reset, sockets>>

(* Accepted, refused, or accepted after the 10 s in which axios waits. *)
SendPost(r) ==
    /\ At(r, "post")
    /\ \/ received' = received \cup {r} /\ Goto(r, "keep")
       \/ received' = received /\ Answer(r, 200)
       \/ received' = received \cup {r} /\ Answer(r, 200)
    /\ UNCHANGED <<rows, conv, batch, row, copy, counted, reset, sockets>>

(* saveMessage swallows its errors, the duplicate mid included. *)
SendKeep(r) ==
    /\ At(r, "keep")
    /\ IF r \in Stored
         THEN Answer(r, 200) /\ UNCHANGED <<rows, row>>
         ELSE Insert(r, r, "point")
    /\ UNCHANGED <<conv, received, batch, copy, counted, reset, sockets>>

SendPoint(r) ==
    /\ At(r, "point")
    /\ conv' = [conv EXCEPT !.last = row[r]]
    /\ Answer(r, 200)
    /\ UNCHANGED <<rows, received, batch, row, copy, counted, reset, sockets>>

(* Mutant of MarkRead: the value is taken off the counter. *)
MarkReadSubtracts ==
    /\ Agents
    /\ conv.exists
    /\ \E n \in Resets :
         /\ conv' = [conv EXCEPT !.unread = @ - n]
         /\ reset' = [value |-> n, mids |-> counted]
    /\ UNCHANGED <<rows, received, request, counted, sockets>>

(* An agent reads the conversation or marks it as unread: the page sends    *)
(* the new value of the counter, UpdateUnreadCount writes it.               *)
MarkRead ==
    /\ Agents
    /\ conv.exists
    /\ \E n \in Resets :
         /\ conv' = [conv EXCEPT !.unread = n]
         /\ reset' = [value |-> n, mids |-> counted]
    /\ UNCHANGED <<rows, received, request, counted, sockets>>

-----------------------------------------------------------------------------
(* Import of the history: fanpage.service.ts, Syncing *)

SyncArrive(r) ==
    /\ Syncs
    /\ At(r, "idle")
    /\ Goto(r, "upsert")
    /\ UNCHANGED <<tables, batch, row, copy, counted, reset, sockets>>

SyncUpsert(r) ==
    /\ At(r, "upsert")
    /\ Touch
    /\ Goto(r, "import")
    /\ UNCHANGED <<rows, received, batch, row, copy, counted, reset, sockets>>

(* The orders in which the rows of one INSERT may stand. *)
Listings(mids) ==
    {s \in [1 .. Cardinality(mids) -> mids] : {s[i] : i \in DOMAIN s} = mids}

(* Facebook lists what it had when it was asked, and orIgnore skips the     *)
(* mids that are there.                                                     *)
SyncImport(r) ==
    /\ At(r, "import")
    /\ \E k \in 0 .. MaxMessage, out \in SUBSET received :
         \E new \in Listings(((1 .. k) \cup out) \ Stored) : rows' = rows \o new
    /\ Answer(r, 200)
    /\ UNCHANGED <<conv, received, batch, row, copy, counted, reset, sockets>>

-----------------------------------------------------------------------------
(* A call rejects, or a process dies: the work done so far stays done. *)
Fail(r) ==
    /\ Faults
    /\ pc[r] \in Suspended
    /\ \/ Answer(r, 500)
       \/ pc[r] \in {"keep", "point"} /\ Answer(r, 200)
    /\ UNCHANGED <<tables, batch, row, copy, counted, reset, sockets>>

Next ==
    \/ \E r \in Requests :
         \/ Deliver(r) \/ Find(r) \/ Save(r) \/ Count(r) \/ Reread(r) \/ Emit(r)
         \/ SendArrive(r) \/ SendToken(r) \/ SendPost(r) \/ SendKeep(r) \/ SendPoint(r)
         \/ SyncArrive(r) \/ SyncUpsert(r) \/ SyncImport(r)
         \/ Fail(r)
    \/ MarkRead

Spec == Init /\ [][Next]_vars

-----------------------------------------------------------------------------
(* Properties *)

FromCustomer == Stored \cap Messages

(* live_message.entity "tranh duplicate": whatever is redelivered, imported *)
(* or cut off half way, every message takes the steps store, count and      *)
(* announce in this order and none of them twice.                           *)
Promise == INSTANCE Ledger WITH stored <- FromCustomer
KeepsPromise == Promise!Spec

(* A webhook is answered with 200 only when its message was counted and     *)
(* pushed: otherwise Facebook delivers it again.                            *)
AckedIsHandled ==
    \A r \in Requests : status[r] = 200 /\ batch[r] # <<>> =>
        First(batch[r]) \in counted \cap announced

(* The unread counter is exactly what an agent's page last set it to and    *)
(* the number of messages counted since, in every state: no increment and   *)
(* no reset is lost to another request, and no redelivery adds to it.       *)
UnreadIsExact ==
    conv.unread = reset.value + Cardinality(counted \ reset.mids)
=============================================================================
