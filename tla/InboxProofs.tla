---------------------------- MODULE InboxProofs ----------------------------
(***************************************************************************)
(* What holds of a conversation for any number of requests, any batches    *)
(* and any replies.  The helpers that only name variables are always       *)
(* expanded.                                                               *)
(***************************************************************************)
EXTENDS Inbox, FiniteSetTheorems, TLAPS

USE DEF At, tables, request, sockets

-----------------------------------------------------------------------------
(* The invariant *)

Held == {"count", "reread", "emit"}

(* A webhook past its INSERT owns the row of its message, and no two of     *)
(* them have stored the same message.                                       *)
Rows ==
    /\ \A r \in Requests : pc[r] \in Held =>
         row[r] \in DOMAIN rows /\ rows[row[r]] = First(batch[r])
    /\ \A r, s \in Requests : r # s /\ pc[r] \in Held /\ pc[s] \in Held =>
         First(batch[r]) # First(batch[s])

(* What a webhook has yet to do has not been done. *)
Progress ==
    /\ counted \subseteq Stored
    /\ announced \subseteq counted
    /\ reset.mids \subseteq counted
    /\ \A r \in Requests :
         /\ pc[r] = "count" => First(batch[r]) \notin counted
         /\ pc[r] \in {"reread", "emit"} => First(batch[r]) \in counted \ announced

(* Only webhooks carry a batch, and only with a message in it. *)
Carried ==
    \A r \in Requests :
      /\ pc[r] \in Webhook => batch[r] \in Batches /\ HasMessage(batch[r])
      /\ batch[r] # <<>> => pc[r] \in Webhook \cup {"done"}
      /\ pc[r] # "done" => status[r] = 0

IInv == TypeOK /\ Rows /\ Progress /\ Carried /\ AckedIsHandled /\ UnreadIsExact

-----------------------------------------------------------------------------
(* Lemmas about batches and rows *)

LEMMA FirstIsMessage ==
    ASSUME NEW b \in Batches, HasMessage(b)
    PROVE  First(b) \in Messages
<1>1. PICK i \in DOMAIN b : First(b) = b[i] /\ Handles(b, i)
  BY DEF HasMessage, First
<1>2. b[i] \in Messages \cup {Receipt}
  BY InboxAssumption
<1> QED
  BY <1>1, <1>2 DEF Handles

LEMMA AppendAdds ==
    ASSUME NEW S, NEW s \in Seq(S), NEW e \in S
    PROVE  /\ Append(s, e) \in Seq(S)
           /\ {Append(s, e)[i] : i \in DOMAIN Append(s, e)} = {s[i] : i \in DOMAIN s} \cup {e}
           /\ Len(s) + 1 \in DOMAIN Append(s, e)
           /\ Append(s, e)[Len(s) + 1] = e
           /\ \A i \in DOMAIN s : i \in DOMAIN Append(s, e) /\ Append(s, e)[i] = s[i]
<1>1. /\ Len(Append(s, e)) = Len(s) + 1
      /\ DOMAIN Append(s, e) = 1 .. (Len(s) + 1)
      /\ DOMAIN s = 1 .. Len(s)
      /\ Len(s) \in Nat
      /\ Append(s, e)[Len(s) + 1] = e
      /\ \A i \in 1 .. Len(s) : Append(s, e)[i] = s[i]
  OBVIOUS
<1>2. 1 .. (Len(s) + 1) = (1 .. Len(s)) \cup {Len(s) + 1}
  BY <1>1
<1> QED
  BY <1>1, <1>2

LEMMA ConcatKeeps ==
    ASSUME NEW S, NEW s \in Seq(S), NEW t \in Seq(S)
    PROVE  /\ s \o t \in Seq(S)
           /\ \A i \in DOMAIN s : i \in DOMAIN (s \o t) /\ (s \o t)[i] = s[i]
OBVIOUS

LEMMA FiniteSubsets ==
    ASSUME NEW M \in SUBSET (Messages \cup Requests)
    PROVE  IsFiniteSet(M) /\ Cardinality(M) \in Nat
<1>1. IsFiniteSet(Messages)
  <2>1. 1 \in Int /\ MaxMessage \in Int
    BY InboxAssumption
  <2> QED
    BY <2>1, FS_Interval DEF Messages
<1>2. IsFiniteSet(Requests)
  BY InboxAssumption
<1>3. IsFiniteSet(Messages \cup Requests)
  BY <1>1, <1>2, FS_Union
<1>4. IsFiniteSet(M)
  BY <1>3, FS_Subset
<1> QED
  BY <1>4, FS_CardinalityType

(* One import: the new rows follow the old ones. *)
LEMMA ImportAdds ==
    ASSUME TypeOK, NEW r \in Requests, SyncImport(r)
    PROVE  /\ rows' \in Seq(Messages \cup Requests)
           /\ Stored \subseteq Stored'
           /\ \A i \in DOMAIN rows : i \in DOMAIN rows' /\ rows'[i] = rows[i]
<1> PICK k \in 0 .. MaxMessage, out \in SUBSET received :
          \E new \in Listings(((1 .. k) \cup out) \ Stored) : rows' = rows \o new
  BY DEF SyncImport
<1> DEFINE T == ((1 .. k) \cup out) \ Stored
           S == Messages \cup Requests
<1> PICK new \in Listings(T) : rows' = rows \o new
  OBVIOUS
<1>1. T \in SUBSET S
  BY InboxAssumption DEF Messages, TypeOK
<1>2. Cardinality(T) \in Nat
  BY <1>1, FiniteSubsets
<1>3. new \in [1 .. Cardinality(T) -> T]
  BY DEF Listings
<1> HIDE DEF T
<1>4. new \in Seq(S)
  BY <1>1, <1>2, <1>3
<1>5. rows \in Seq(S)
  BY DEF TypeOK
<1> HIDE DEF S
<1>6. /\ rows' \in Seq(S)
      /\ \A i \in DOMAIN rows : i \in DOMAIN rows' /\ rows'[i] = rows[i]
  BY <1>4, <1>5, ConcatKeeps
<1>7. Stored \subseteq Stored'
  BY <1>6 DEF Stored
<1> QED
  BY <1>6, <1>7 DEF S

(* One INSERT: a row at the end, or none. *)
LEMMA InsertAdds ==
    ASSUME TypeOK, NEW r \in Requests, NEW mid \in Messages \cup Requests,
           NEW next, Insert(r, mid, next)
    PROVE  /\ rows' \in Seq(Messages \cup Requests)
           /\ Stored' = Stored \cup {mid}
           /\ row' = [row EXCEPT ![r] = Len(rows) + 1]
           /\ row' \in [Requests -> Nat]
           /\ Len(rows) + 1 \in DOMAIN rows' /\ rows'[Len(rows) + 1] = mid
           /\ \A i \in DOMAIN rows : i \in DOMAIN rows' /\ rows'[i] = rows[i]
           /\ Len(rows) + 1 \in Nat
<1>1. rows \in Seq(Messages \cup Requests)
  BY DEF TypeOK
<1> DEFINE S == Messages \cup Requests
<1>2. mid \in S /\ rows \in Seq(S)
  BY <1>1
<1> HIDE DEF S
<1>3. /\ Append(rows, mid) \in Seq(S)
      /\ {Append(rows, mid)[i] : i \in DOMAIN Append(rows, mid)} = {rows[i] : i \in DOMAIN rows} \cup {mid}
      /\ Len(rows) + 1 \in DOMAIN Append(rows, mid)
      /\ Append(rows, mid)[Len(rows) + 1] = mid
      /\ \A i \in DOMAIN rows : i \in DOMAIN Append(rows, mid) /\ Append(rows, mid)[i] = rows[i]
  BY <1>2, AppendAdds
<1>4. Len(rows) + 1 \in Nat
  BY <1>2
<1>5. row' \in [Requests -> Nat]
  BY <1>4 DEF Insert, TypeOK
<1> QED
  BY <1>3, <1>4, <1>5 DEF Insert, Stored, S

-----------------------------------------------------------------------------
(* The steps, grouped by what they disturb *)

(* The message a webhook works on, and where its row is. *)
LEMMA Working ==
    ASSUME IInv, NEW r \in Requests
    PROVE  /\ pc[r] \in Webhook => First(batch[r]) \in Messages
           /\ pc[r] \in Held => rows[row[r]] = First(batch[r])
BY FirstIsMessage DEF IInv, Carried, Rows

LEMMA ConversationTypes ==
    ASSUME NEW c \in Conversation, NEW n \in Nat
    PROVE  /\ [c EXCEPT !.exists = TRUE, !.created = n] \in Conversation
           /\ [c EXCEPT !.exists = TRUE, !.created = n].unread = c.unread
           /\ [c EXCEPT !.last = n, !.unread = @ + 1] \in Conversation
           /\ [c EXCEPT !.last = n, !.unread = @ + 1].unread = c.unread + 1
           /\ [c EXCEPT !.last = n] \in Conversation
           /\ [c EXCEPT !.last = n].unread = c.unread
<1>1. /\ [c EXCEPT !.exists = TRUE, !.created = n] \in Conversation
      /\ [c EXCEPT !.exists = TRUE, !.created = n].unread = c.unread
  BY DEF Conversation
<1>2. /\ [c EXCEPT !.last = n, !.unread = @ + 1] \in Conversation
      /\ [c EXCEPT !.last = n, !.unread = @ + 1].unread = c.unread + 1
  <2>1. c.unread + 1 \in Nat
    BY DEF Conversation
  <2> DEFINE u == c.unread + 1
  <2>2. u \in Nat
    BY <2>1
  <2> HIDE DEF u
  <2>3. /\ [c EXCEPT !.last = n, !.unread = u] \in Conversation
        /\ [c EXCEPT !.last = n, !.unread = u].unread = u
    BY <2>2 DEF Conversation
  <2> QED
    BY <2>3 DEF u
<1>3. /\ [c EXCEPT !.last = n] \in Conversation
      /\ [c EXCEPT !.last = n].unread = c.unread
  BY DEF Conversation
<1> QED
  BY <1>1, <1>2, <1>3

LEMMA TouchKeeps ==
    ASSUME TypeOK, Touch
    PROVE  conv' \in Conversation /\ conv'.unread = conv.unread
<1>1. conv \in Conversation /\ Len(rows) \in Nat
  BY DEF TypeOK
<1> QED
  BY <1>1, ConversationTypes DEF Touch

LEMMA CountEffect ==
    ASSUME TypeOK, NEW r \in Requests, Count(r)
    PROVE  conv' \in Conversation /\ conv'.unread = conv.unread + 1
<1>1. conv \in Conversation /\ row[r] \in Nat
  BY DEF TypeOK
<1> QED
  BY <1>1, ConversationTypes DEF Count

(* Steps of a request other than the INSERTs and what a webhook does later. *)
Light(r) ==
    \/ Deliver(r) \/ Find(r) \/ Reread(r)
    \/ SendArrive(r) \/ SendToken(r) \/ SendPost(r) \/ SendPoint(r)
    \/ SyncArrive(r) \/ SyncUpsert(r) \/ Fail(r)

LEMMA StepCases ==
    ASSUME [Next]_vars
    PROVE  \/ \E r \in Requests :
                Light(r) \/ Save(r) \/ Count(r) \/ Emit(r) \/ SendKeep(r) \/ SyncImport(r)
           \/ MarkRead
           \/ UNCHANGED vars
BY DEF Next, Light

LEMMA LightKeeps ==
    ASSUME TypeOK, NEW r \in Requests, Light(r)
    PROVE  /\ UNCHANGED <<rows, row, counted, reset, announced>>
           /\ \A s \in Requests \ {r} :
                pc'[s] = pc[s] /\ batch'[s] = batch[s] /\ status'[s] = status[s]
           /\ conv'.unread = conv.unread
           /\ pc'[r] \in Held => pc[r] = "reread" /\ pc'[r] = "emit" /\ batch'[r] = batch[r]
           /\ ~At(r, "idle") => batch'[r] = batch[r]
<1> USE DEF TypeOK, Held, Suspended, Webhook, Goto, Answer
<1>1. CASE Deliver(r)
  BY <1>1 DEF Deliver
<1>2. CASE Find(r) \/ SyncUpsert(r)
  BY <1>2, TouchKeeps DEF Find, SyncUpsert
<1>3. CASE Reread(r)
  BY <1>3 DEF Reread
<1>4. CASE SendArrive(r) \/ SendToken(r) \/ SendPost(r) \/ SyncArrive(r)
  BY <1>4 DEF SendArrive, SendToken, SendPost, SyncArrive
<1>5. CASE SendPoint(r)
  BY <1>5 DEF SendPoint, Conversation
<1>6. CASE Fail(r)
  BY <1>6 DEF Fail
<1> QED
  BY <1>1, <1>2, <1>3, <1>4, <1>5, <1>6 DEF Light

(* A webhook or an agent's message reaches its INSERT. *)
LEMMA SaveEffect ==
    ASSUME TypeOK, NEW r \in Requests, Save(r), First(batch[r]) \in Messages
    PROVE  \/ /\ First(batch[r]) \notin Stored
              /\ Insert(r, First(batch[r]), "count")
           \/ Answer(r, 500) /\ UNCHANGED <<rows, row>>
BY DEF Save

LEMMA SendKeepEffect ==
    ASSUME TypeOK, NEW r \in Requests, SendKeep(r)
    PROVE  \/ Insert(r, r, "point")
           \/ Answer(r, 200) /\ UNCHANGED <<rows, row>>
BY DEF SendKeep

-----------------------------------------------------------------------------
(* Type correctness *)

LEMMA Moves ==
    ASSUME TypeOK, NEW r \in Requests
    PROVE  /\ \A label \in Labels : Goto(r, label) =>
                pc' \in [Requests -> Labels] /\ status' \in [Requests -> {0, 200, 500}]
           /\ \A code \in {200, 500} : Answer(r, code) =>
                pc' \in [Requests -> Labels] /\ status' \in [Requests -> {0, 200, 500}]
<1> USE DEF TypeOK
<1>1. ASSUME NEW label \in Labels, Goto(r, label)
      PROVE  pc' \in [Requests -> Labels] /\ status' \in [Requests -> {0, 200, 500}]
  BY <1>1 DEF Goto
<1>2. ASSUME NEW code \in {200, 500}, Answer(r, code)
      PROVE  pc' \in [Requests -> Labels] /\ status' \in [Requests -> {0, 200, 500}]
  <2>1. "done" \in Labels
    BY DEF Labels
  <2>2. pc' \in [Requests -> Labels]
    BY <1>2, <2>1 DEF Answer
  <2>3. status' \in [Requests -> {0, 200, 500}]
    BY <1>2 DEF Answer
  <2> QED
    BY <2>2, <2>3
<1> QED
  BY <1>1, <1>2

LEMMA LabelsType ==
    \A label \in {"find", "save", "count", "reread", "emit", "token", "post",
                  "keep", "point", "upsert", "import"} : label \in Labels
BY DEF Labels, Suspended, Webhook

LEMMA TypeStep ==
    ASSUME IInv, [Next]_vars
    PROVE  TypeOK'
<1> USE DEF TypeOK
<1> DEFINE Moved == pc' \in [Requests -> Labels] /\ status' \in [Requests -> {0, 200, 500}]
<1>0. TypeOK
  BY DEF IInv
<1>1. ASSUME NEW r \in Requests, Deliver(r)
      PROVE  TypeOK'
  <2>1. Moved
    BY <1>0, <1>1, Moves, LabelsType DEF Deliver
  <2>2. batch' \in [Requests -> Batches \cup {<<>>}]
    BY <1>0, <1>1 DEF Deliver
  <2> QED
    BY <1>0, <1>1, <2>1, <2>2 DEF Deliver
<1>2. ASSUME NEW r \in Requests, Find(r) \/ SyncUpsert(r)
      PROVE  TypeOK'
  <2>1. Moved
    BY <1>0, <1>2, Moves, LabelsType DEF Find, SyncUpsert
  <2>2. conv' \in Conversation
    BY <1>0, <1>2, TouchKeeps DEF Find, SyncUpsert
  <2>3. copy' \in [Requests -> Conversation]
    BY <1>0, <1>2, <2>2 DEF Find, SyncUpsert
  <2>4. UNCHANGED <<rows, received, batch, row, counted, reset, sockets>>
    BY <1>2 DEF Find, SyncUpsert
  <2> QED
    BY <1>0, <2>1, <2>2, <2>3, <2>4
<1>3. ASSUME NEW r \in Requests, Save(r)
      PROVE  TypeOK'
  <2>1. First(batch[r]) \in Messages
    BY <1>3, Working DEF Save, Webhook
  <2>2. CASE Insert(r, First(batch[r]), "count")
    <3>1. Moved
      BY <1>0, <2>2, Moves, LabelsType DEF Insert
    <3>2. rows' \in Seq(Messages \cup Requests) /\ row' \in [Requests -> Nat]
      BY <1>0, <2>1, <2>2, InsertAdds
    <3> QED
      BY <1>0, <1>3, <3>1, <3>2 DEF Save
  <2>3. CASE Answer(r, 500) /\ UNCHANGED <<rows, row>>
    <3>1. Moved
      BY <1>0, <2>3, Moves, LabelsType
    <3> QED
      BY <1>0, <1>3, <2>3, <3>1 DEF Save
  <2> QED
    BY <1>0, <1>3, <2>1, <2>2, <2>3, SaveEffect
<1>4. ASSUME NEW r \in Requests, Count(r)
      PROVE  TypeOK'
  <2>1. Moved
    BY <1>0, <1>4, Moves, LabelsType DEF Count
  <2>2. conv' \in Conversation
    BY <1>0, <1>4, CountEffect
  <2>3. rows[row[r]] \in Messages
    BY <1>4, Working DEF Count, Held, Webhook
  <2> QED
    BY <1>0, <1>4, <2>1, <2>2, <2>3 DEF Count
<1>5. ASSUME NEW r \in Requests, Reread(r)
      PROVE  TypeOK'
  <2>1. Moved
    BY <1>0, <1>5, Moves, LabelsType DEF Reread
  <2> QED
    BY <1>0, <1>5, <2>1 DEF Reread
<1>6. ASSUME NEW r \in Requests, Emit(r)
      PROVE  TypeOK'
  <2>1. Moved
    BY <1>0, <1>6, Moves, LabelsType DEF Emit
  <2>2. rows[row[r]] \in Messages
    BY <1>6, Working DEF Emit, Held, Webhook
  <2> QED
    BY <1>0, <1>6, <2>1, <2>2 DEF Emit
<1>7. ASSUME NEW r \in Requests,
             \/ SendArrive(r) \/ SendToken(r) \/ SendPost(r) \/ SyncArrive(r) \/ Fail(r)
      PROVE  TypeOK'
  <2>1. Moved
    <3>1. \/ \E label \in {"token", "post", "keep", "upsert"} : Goto(r, label)
          \/ \E code \in {200, 500} : Answer(r, code)
      BY <1>7 DEF SendArrive, SendToken, SendPost, SyncArrive, Fail
    <3> QED
      BY <1>0, <3>1, Moves, LabelsType
  <2>2. received' \subseteq Requests
    BY <1>0, <1>7 DEF SendArrive, SendToken, SendPost, SyncArrive, Fail
  <2>3. UNCHANGED <<rows, conv, batch, row, copy, counted, reset, sockets>>
    BY <1>7 DEF SendArrive, SendToken, SendPost, SyncArrive, Fail
  <2> QED
    BY <1>0, <2>1, <2>2, <2>3
<1>8. ASSUME NEW r \in Requests, SendKeep(r)
      PROVE  TypeOK'
  <2>1. CASE Insert(r, r, "point")
    <3>1. Moved
      BY <1>0, <2>1, Moves, LabelsType DEF Insert
    <3>2. rows' \in Seq(Messages \cup Requests) /\ row' \in [Requests -> Nat]
      BY <1>0, <2>1, InsertAdds
    <3> QED
      BY <1>0, <1>8, <3>1, <3>2 DEF SendKeep
  <2>2. CASE Answer(r, 200) /\ UNCHANGED <<rows, row>>
    <3>1. Moved
      BY <1>0, <2>2, Moves, LabelsType
    <3> QED
      BY <1>0, <1>8, <2>2, <3>1 DEF SendKeep
  <2> QED
    BY <1>0, <1>8, <2>1, <2>2, SendKeepEffect
<1>9. ASSUME NEW r \in Requests, SendPoint(r)
      PROVE  TypeOK'
  <2>1. Moved
    BY <1>0, <1>9, Moves, LabelsType DEF SendPoint
  <2>2. conv' \in Conversation
    BY <1>0, <1>9, ConversationTypes DEF SendPoint
  <2> QED
    BY <1>0, <1>9, <2>1, <2>2 DEF SendPoint
<1>10. ASSUME NEW r \in Requests, SyncImport(r)
       PROVE  TypeOK'
  <2>1. Moved
    BY <1>0, <1>10, Moves, LabelsType DEF SyncImport
  <2>2. rows' \in Seq(Messages \cup Requests)
    BY <1>0, <1>10, ImportAdds
  <2> QED
    BY <1>0, <1>10, <2>1, <2>2 DEF SyncImport
<1>11. CASE MarkRead
  <2>1. PICK n \in Resets : /\ conv' = [conv EXCEPT !.unread = n]
                            /\ reset' = [value |-> n, mids |-> counted]
    BY <1>11 DEF MarkRead
  <2>2. conv' \in Conversation /\ reset' \in Reset
    BY <1>0, <2>1, InboxAssumption DEF Conversation, Reset
  <2> QED
    BY <1>0, <1>11, <2>2 DEF MarkRead
<1>12. CASE UNCHANGED vars
  BY <1>0, <1>12 DEF vars
<1> QED
  BY <1>1, <1>2, <1>3, <1>4, <1>5, <1>6, <1>7, <1>8, <1>9, <1>10, <1>11, <1>12 DEF Next

-----------------------------------------------------------------------------
(* The other conjuncts of the invariant *)

(* What holds a message's row keeps it, if rows only grow. *)
LEMMA RowsKept ==
    ASSUME IInv,
           \A i \in DOMAIN rows : i \in DOMAIN rows' /\ rows'[i] = rows[i],
           \A s \in Requests : pc'[s] \in Held =>
               pc[s] \in Held /\ batch'[s] = batch[s] /\ row'[s] = row[s]
    PROVE  Rows'
BY DEF IInv, Rows, Held

LEMMA RowsStep ==
    ASSUME IInv, [Next]_vars
    PROVE  Rows'
<1>0. TypeOK
  BY DEF IInv
<1>1. ASSUME NEW r \in Requests, Light(r)
      PROVE  Rows'
  BY <1>0, <1>1, LightKeeps, RowsKept DEF Held
<1>2. ASSUME NEW r \in Requests, Save(r)
      PROVE  Rows'
  <2> DEFINE mid == First(batch[r])
  <2>1. mid \in Messages
    BY <1>2, Working DEF Save, Webhook
  <2>2. /\ batch' = batch
        /\ pc[r] = "save"
    BY <1>2 DEF Save
  <2>3. CASE mid \notin Stored /\ Insert(r, mid, "count")
    <3>1. /\ Stored' = Stored \cup {mid}
          /\ row' = [row EXCEPT ![r] = Len(rows) + 1]
          /\ Len(rows) + 1 \in DOMAIN rows' /\ rows'[Len(rows) + 1] = mid
          /\ \A i \in DOMAIN rows : i \in DOMAIN rows' /\ rows'[i] = rows[i]
      BY <1>0, <2>1, <2>3, InsertAdds
    <3>2. row'[r] \in DOMAIN rows' /\ rows'[row'[r]] = mid
      BY <1>0, <3>1 DEF TypeOK
    <3>3. \A s \in Requests \ {r} : pc'[s] = pc[s] /\ row'[s] = row[s]
      BY <1>0, <2>3, <3>1 DEF TypeOK, Insert, Goto
    <3>4. \A s \in Requests \ {r} : pc[s] \in Held =>
              row[s] \in DOMAIN rows /\ rows[row[s]] = First(batch[s])
      BY DEF IInv, Rows
    <3>5. \A s \in Requests \ {r} : pc[s] \in Held => First(batch[s]) # mid
      BY <2>3, <3>4 DEF Stored
    <3>6. \A s, t \in Requests : s # t /\ pc[s] \in Held /\ pc[t] \in Held =>
              First(batch[s]) # First(batch[t])
      BY DEF IInv, Rows
    <3>7. \A s \in Requests : pc'[s] \in Held =>
              row'[s] \in DOMAIN rows' /\ rows'[row'[s]] = First(batch'[s])
      BY <2>2, <3>1, <3>2, <3>3, <3>4
    <3>8. \A s, t \in Requests : s # t /\ pc'[s] \in Held /\ pc'[t] \in Held =>
              First(batch'[s]) # First(batch'[t])
      BY <2>2, <3>3, <3>5, <3>6
    <3> QED
      BY <3>7, <3>8 DEF Rows
  <2>4. CASE Answer(r, 500) /\ UNCHANGED <<rows, row>>
    BY <1>0, <2>2, <2>4, RowsKept DEF TypeOK, Answer, Held
  <2> QED
    BY <1>0, <1>2, <2>1, <2>3, <2>4, SaveEffect
<1>3. ASSUME NEW r \in Requests, Count(r) \/ Emit(r)
      PROVE  Rows'
  <2>1. /\ UNCHANGED <<rows, row, batch>>
        /\ pc[r] \in Held
        /\ \A s \in Requests \ {r} : pc'[s] = pc[s]
    BY <1>0, <1>3 DEF Count, Emit, Goto, Answer, TypeOK, Held
  <2> QED
    BY <2>1, RowsKept
<1>4. ASSUME NEW r \in Requests, SendKeep(r)
      PROVE  Rows'
  <2>1. /\ batch' = batch
        /\ pc'[r] \notin Held
        /\ \A s \in Requests \ {r} : pc'[s] = pc[s] /\ row'[s] = row[s]
    BY <1>0, <1>4 DEF SendKeep, Insert, Goto, Answer, TypeOK, Held
  <2>2. \A i \in DOMAIN rows : i \in DOMAIN rows' /\ rows'[i] = rows[i]
    BY <1>0, <1>4, SendKeepEffect, InsertAdds
  <2> QED
    BY <2>1, <2>2, RowsKept
<1>5. ASSUME NEW r \in Requests, SyncImport(r)
      PROVE  Rows'
  <2>1. /\ UNCHANGED <<batch, row>>
        /\ pc'[r] \notin Held
        /\ \A s \in Requests \ {r} : pc'[s] = pc[s]
    BY <1>0, <1>5 DEF SyncImport, Answer, TypeOK, Held
  <2>2. \A i \in DOMAIN rows : i \in DOMAIN rows' /\ rows'[i] = rows[i]
    BY <1>0, <1>5, ImportAdds
  <2> QED
    BY <2>1, <2>2, RowsKept
<1>6. CASE MarkRead \/ UNCHANGED vars
  BY <1>6, RowsKept DEF MarkRead, vars
<1> QED
  BY <1>1, <1>2, <1>3, <1>4, <1>5, <1>6, StepCases

LEMMA ProgressKept ==
    ASSUME IInv, Stored \subseteq Stored', UNCHANGED <<counted, announced>>,
           reset'.mids \subseteq counted',
           \A s \in Requests :
             /\ pc'[s] = "count" => pc[s] = "count" /\ batch'[s] = batch[s]
             /\ pc'[s] \in {"reread", "emit"} =>
                  pc[s] \in {"reread", "emit"} /\ batch'[s] = batch[s]
    PROVE  Progress'
BY DEF IInv, Progress

LEMMA ProgressStep ==
    ASSUME IInv, [Next]_vars
    PROVE  Progress'
<1>0. TypeOK /\ Progress /\ Rows
  BY DEF IInv
<1>1. ASSUME NEW r \in Requests, Light(r)
      PROVE  Progress'
  <2>1. Stored' = Stored
    BY <1>0, <1>1, LightKeeps DEF Stored
  <2> QED
    BY <1>0, <1>1, <2>1, LightKeeps, ProgressKept DEF Held, Progress
<1>2. ASSUME NEW r \in Requests, Save(r)
      PROVE  Progress'
  <2> DEFINE mid == First(batch[r])
  <2>1. mid \in Messages
    BY <1>2, Working DEF Save, Webhook
  <2>2. UNCHANGED <<batch, counted, reset, announced>>
    BY <1>2 DEF Save
  <2>3. CASE mid \notin Stored /\ Insert(r, mid, "count")
    <3>1. Stored' = Stored \cup {mid}
      BY <1>0, <2>1, <2>3, InsertAdds
    <3>2. pc' = [pc EXCEPT ![r] = "count"]
      BY <2>3 DEF Insert, Goto
    <3>3. mid \notin counted
      BY <1>0, <2>3 DEF Progress
    <3> QED
      BY <1>0, <2>2, <3>1, <3>2, <3>3 DEF Progress, TypeOK
  <2>4. CASE Answer(r, 500) /\ UNCHANGED <<rows, row>>
    <3>1. Stored' = Stored
      BY <2>4 DEF Stored
    <3> QED
      BY <1>0, <2>2, <2>4, <3>1, ProgressKept DEF TypeOK, Answer, Progress
  <2> QED
    BY <1>0, <1>2, <2>1, <2>3, <2>4, SaveEffect
<1>3. ASSUME NEW r \in Requests, Count(r)
      PROVE  Progress'
  <2> DEFINE mid == First(batch[r])
  <2>1. /\ rows[row[r]] = mid
        /\ mid \in Stored
    BY <1>0, <1>3 DEF Count, Rows, Held, Stored
  <2>2. /\ UNCHANGED <<rows, batch, reset, announced>>
        /\ counted' = counted \cup {mid}
        /\ pc' = [pc EXCEPT ![r] = "reread"]
        /\ pc[r] = "count"
    BY <1>3, <2>1 DEF Count, Goto
  <2>3. \A s \in Requests \ {r} : pc[s] = "count" => First(batch[s]) # mid
    BY <1>0, <2>2 DEF Rows, Held
  <2>4. Stored' = Stored
    BY <2>2 DEF Stored
  <2>5. mid \notin announced
    BY <1>0, <2>2 DEF Progress
  <2> QED
    BY <1>0, <2>1, <2>2, <2>3, <2>4, <2>5 DEF Progress, TypeOK
<1>4. ASSUME NEW r \in Requests, Emit(r)
      PROVE  Progress'
  <2> DEFINE mid == First(batch[r])
  <2>1. rows[row[r]] = mid
    BY <1>0, <1>4 DEF Emit, Rows, Held
  <2>2. /\ UNCHANGED <<rows, batch, counted, reset>>
        /\ announced' = announced \cup {mid}
        /\ pc' = [pc EXCEPT ![r] = "done"]
        /\ pc[r] = "emit"
    BY <1>4, <2>1 DEF Emit, Answer
  <2>3. \A s \in Requests \ {r} : pc[s] \in {"reread", "emit"} => First(batch[s]) # mid
    BY <1>0, <2>2 DEF Rows, Held
  <2>4. Stored' = Stored
    BY <2>2 DEF Stored
  <2>5. mid \in counted
    BY <1>0, <2>2 DEF Progress
  <2> QED
    BY <1>0, <2>2, <2>3, <2>4, <2>5 DEF Progress, TypeOK
<1>5. ASSUME NEW r \in Requests, SendKeep(r)
      PROVE  Progress'
  <2>1. Stored \subseteq Stored'
    <3>1. CASE Insert(r, r, "point")
      BY <1>0, <3>1, InsertAdds
    <3>2. CASE UNCHANGED rows
      BY <3>2 DEF Stored
    <3> QED
      BY <1>0, <1>5, <3>1, <3>2, SendKeepEffect
  <2>2. /\ UNCHANGED <<batch, counted, reset, announced>>
        /\ pc'[r] \in {"point", "done"}
        /\ \A s \in Requests \ {r} : pc'[s] = pc[s]
    BY <1>0, <1>5 DEF SendKeep, Insert, Goto, Answer, TypeOK
  <2> QED
    BY <1>0, <2>1, <2>2, ProgressKept DEF Progress
<1>6. ASSUME NEW r \in Requests, SyncImport(r)
      PROVE  Progress'
  <2>1. /\ UNCHANGED <<batch, counted, reset, announced>>
        /\ pc'[r] = "done"
        /\ \A s \in Requests \ {r} : pc'[s] = pc[s]
    BY <1>0, <1>6 DEF SyncImport, Answer, TypeOK
  <2>2. Stored \subseteq Stored'
    BY <1>0, <1>6, ImportAdds
  <2> QED
    BY <1>0, <2>1, <2>2, ProgressKept DEF Progress
<1>7. CASE MarkRead \/ UNCHANGED vars
  <2>1. UNCHANGED <<rows, batch, pc, counted, announced>> /\ reset'.mids \subseteq counted'
    BY <1>0, <1>7 DEF MarkRead, vars, Progress
  <2>2. Stored' = Stored
    BY <2>1 DEF Stored
  <2> QED
    BY <2>1, <2>2, ProgressKept
<1> QED
  BY <1>1, <1>2, <1>3, <1>4, <1>5, <1>6, <1>7, StepCases

(* A request that is answered may carry whatever it carried. *)
LEMMA CarriedWhenAnswered ==
    ASSUME TypeOK, Carried, NEW r \in Requests, NEW code \in {200, 500},
           Answer(r, code), batch' = batch
    PROVE  Carried'
<1> SUFFICES ASSUME NEW s \in Requests
             PROVE  /\ pc'[s] \in Webhook => batch[s] \in Batches /\ HasMessage(batch[s])
                    /\ batch[s] # <<>> => pc'[s] \in Webhook \cup {"done"}
                    /\ pc'[s] # "done" => status'[s] = 0
  BY DEF Carried
<1>1. CASE s = r
  <2>1. pc'[s] = "done"
    BY <1>1 DEF Answer, TypeOK
  <2> QED
    BY <2>1 DEF Webhook
<1>2. CASE s # r
  <2>1. pc'[s] = pc[s] /\ status'[s] = status[s]
    BY <1>2 DEF Answer, TypeOK
  <2> QED
    BY <2>1 DEF Carried
<1> QED
  BY <1>1, <1>2

LEMMA CarriedStep ==
    ASSUME IInv, [Next]_vars
    PROVE  Carried'
<1>0. TypeOK /\ Carried
  BY DEF IInv
<1> USE DEF TypeOK, Carried, Webhook, Suspended, Goto, Answer
<1>1. ASSUME NEW r \in Requests, Deliver(r)
      PROVE  Carried'
  BY <1>0, <1>1 DEF Deliver
<1>2. ASSUME NEW r \in Requests, Find(r) \/ Save(r) \/ Count(r) \/ Reread(r) \/ Emit(r)
      PROVE  Carried'
  <2>1. /\ batch' = batch
        /\ pc[r] \in Webhook
        /\ \/ \E label \in Webhook : Goto(r, label)
           \/ \E code \in {200, 500} : Answer(r, code)
    BY <1>2 DEF Find, Save, Insert, Count, Reread, Emit
  <2> QED
    BY <1>0, <2>1
<1>3. ASSUME NEW r \in Requests,
             \/ SendArrive(r) \/ SendToken(r) \/ SendPost(r) \/ SendKeep(r)
             \/ SendPoint(r) \/ SyncArrive(r) \/ SyncUpsert(r) \/ SyncImport(r)
      PROVE  Carried'
  <2>1. /\ batch' = batch
        /\ pc[r] \in {"idle", "token", "post", "keep", "point", "upsert", "import"}
        /\ \/ \E label \in {"token", "post", "keep", "point", "upsert", "import"} : Goto(r, label)
           \/ \E code \in {200, 500} : Answer(r, code)
    BY <1>3 DEF SendArrive, SendToken, SendPost, SendKeep, Insert, SendPoint,
                SyncArrive, SyncUpsert, SyncImport
  <2>2. batch[r] = <<>>
    BY <1>0, <2>1
  <2> QED
    BY <1>0, <2>1, <2>2
<1>4. ASSUME NEW r \in Requests, Fail(r)
      PROVE  Carried'
  <2>1. batch' = batch /\ \E code \in {200, 500} : Answer(r, code)
    BY <1>4 DEF Fail
  <2> QED
    BY <1>0, <2>1, CarriedWhenAnswered
<1>5. CASE MarkRead \/ UNCHANGED vars
  BY <1>0, <1>5 DEF MarkRead, vars
<1> QED
  BY <1>1, <1>2, <1>3, <1>4, <1>5 DEF Next

LEMMA AckStep ==
    ASSUME IInv, [Next]_vars
    PROVE  AckedIsHandled'
<1>0. TypeOK /\ Rows /\ Progress /\ Carried /\ AckedIsHandled
  BY DEF IInv
<1>1. ASSUME \A s \in Requests : batch'[s] # <<>> /\ status'[s] = 200 =>
                 status[s] = 200 /\ batch'[s] = batch[s],
             counted \subseteq counted', announced \subseteq announced'
      PROVE  AckedIsHandled'
  BY <1>0, <1>1 DEF AckedIsHandled
<1> USE DEF TypeOK, Carried, Webhook, Goto, Answer
<1>2. ASSUME NEW r \in Requests, Deliver(r)
      PROVE  AckedIsHandled'
  BY <1>0, <1>1, <1>2 DEF Deliver
<1>3. ASSUME NEW r \in Requests, Find(r) \/ Save(r) \/ Count(r) \/ Reread(r)
      PROVE  AckedIsHandled'
  <2>1. /\ batch' = batch
        /\ status' = status \/ status' = [status EXCEPT ![r] = 500]
        /\ counted \subseteq counted'
        /\ announced' = announced
    BY <1>3 DEF Find, Save, Insert, Count, Reread
  <2> QED
    BY <1>0, <1>1, <2>1
<1>4. ASSUME NEW r \in Requests, Emit(r)
      PROVE  AckedIsHandled'
  <2>1. rows[row[r]] = First(batch[r]) /\ First(batch[r]) \in counted
    BY <1>0, <1>4 DEF Emit, Rows, Progress, Held
  <2>2. /\ UNCHANGED <<batch, counted>>
        /\ announced' = announced \cup {First(batch[r])}
        /\ status' = [status EXCEPT ![r] = 200]
    BY <1>4, <2>1 DEF Emit
  <2> QED
    BY <1>0, <2>1, <2>2 DEF AckedIsHandled
<1>5. ASSUME NEW r \in Requests,
             \/ SendArrive(r) \/ SendToken(r) \/ SendPost(r) \/ SendKeep(r)
             \/ SendPoint(r) \/ SyncArrive(r) \/ SyncUpsert(r) \/ SyncImport(r)
      PROVE  AckedIsHandled'
  <2>1. /\ UNCHANGED <<batch, counted, announced>>
        /\ pc[r] \in {"idle", "token", "post", "keep", "point", "upsert", "import"}
        /\ \A s \in Requests \ {r} : status'[s] = status[s]
    BY <1>0, <1>5 DEF SendArrive, SendToken, SendPost, SendKeep, Insert, SendPoint,
                      SyncArrive, SyncUpsert, SyncImport
  <2>2. batch[r] = <<>>
    BY <1>0, <2>1
  <2> QED
    BY <1>1, <2>1, <2>2
<1>6. ASSUME NEW r \in Requests, Fail(r)
      PROVE  AckedIsHandled'
  <2>1. /\ UNCHANGED <<batch, counted, announced>>
        /\ \/ status' = [status EXCEPT ![r] = 500]
           \/ pc[r] \in {"keep", "point"} /\ status' = [status EXCEPT ![r] = 200]
    BY <1>6 DEF Fail
  <2>2. pc[r] \in {"keep", "point"} => batch[r] = <<>>
    BY <1>0
  <2>3. \A s \in Requests : batch[s] # <<>> /\ status'[s] = 200 => status[s] = 200
    BY <2>1, <2>2, <1>0
  <2> QED
    BY <1>1, <2>1, <2>3
<1>7. CASE MarkRead \/ UNCHANGED vars
  BY <1>1, <1>7 DEF MarkRead, vars
<1> QED
  BY <1>2, <1>3, <1>4, <1>5, <1>6, <1>7 DEF Next

LEMMA UnreadStep ==
    ASSUME IInv, [Next]_vars
    PROVE  UnreadIsExact'
<1>0. TypeOK /\ Rows /\ Progress /\ UnreadIsExact
  BY DEF IInv
<1>1. ASSUME NEW r \in Requests, Count(r)
      PROVE  UnreadIsExact'
  <2> DEFINE mid == First(batch[r])
  <2>1. rows[row[r]] = mid /\ mid \notin counted
    BY <1>0, <1>1 DEF Count, Rows, Progress, Held
  <2>2. counted' = counted \cup {mid} /\ reset' = reset
    BY <1>1, <2>1 DEF Count
  <2>3. counted' \ reset'.mids = (counted \ reset.mids) \cup {mid} /\ mid \notin counted \ reset.mids
    BY <1>0, <2>1, <2>2 DEF Progress
  <2>4. IsFiniteSet(counted \ reset.mids)
    BY <1>0, FiniteSubsets DEF TypeOK
  <2>5. Cardinality(counted' \ reset'.mids) = Cardinality(counted \ reset.mids) + 1
    BY <2>3, <2>4, FS_AddElement
  <2>6. conv'.unread = conv.unread + 1
    BY <1>0, <1>1, CountEffect
  <2> QED
    BY <1>0, <2>2, <2>4, <2>5, <2>6, FS_CardinalityType DEF UnreadIsExact, TypeOK, Reset, Conversation
<1>2. CASE MarkRead
  <2>1. PICK n \in Resets : /\ conv' = [conv EXCEPT !.unread = n]
                            /\ reset' = [value |-> n, mids |-> counted]
    BY <1>2 DEF MarkRead
  <2>2. conv'.unread = n /\ reset'.value = n /\ counted' \ reset'.mids = {}
    BY <1>0, <1>2, <2>1 DEF MarkRead, TypeOK, Conversation
  <2>3. Cardinality(counted' \ reset'.mids) = 0 /\ n \in Nat
    BY <2>2, FS_EmptySet, InboxAssumption
  <2> QED
    BY <2>2, <2>3 DEF UnreadIsExact
<1>3. ASSUME conv'.unread = conv.unread, UNCHANGED <<counted, reset>>
      PROVE  UnreadIsExact'
  BY <1>0, <1>3 DEF UnreadIsExact
<1>4. ASSUME NEW r \in Requests, Light(r)
      PROVE  UnreadIsExact'
  BY <1>0, <1>3, <1>4, LightKeeps
<1>5. ASSUME NEW r \in Requests, Save(r) \/ Emit(r) \/ SendKeep(r) \/ SyncImport(r)
      PROVE  UnreadIsExact'
  BY <1>3, <1>5 DEF Save, Emit, SendKeep, SyncImport
<1>6. CASE UNCHANGED vars
  BY <1>3, <1>6 DEF vars
<1> QED
  BY <1>1, <1>2, <1>4, <1>5, <1>6, StepCases

-----------------------------------------------------------------------------
(* Theorems *)

LEMMA Invariance == Spec => []IInv
<1>1. Init => IInv
  <2> SUFFICES ASSUME Init PROVE IInv
    OBVIOUS
  <2>1. TypeOK
    <3>1. NoConversation \in Conversation
      BY DEF NoConversation, Conversation
    <3>2. "idle" \in Labels
      BY DEF Labels
    <3>3. [value |-> 0, mids |-> {}] \in Reset
      BY DEF Reset
    <3> QED
      BY <3>1, <3>2, <3>3 DEF Init, TypeOK
  <2>2. Rows /\ Progress /\ Carried
    BY DEF Init, Rows, Progress, Carried, Held, Webhook
  <2>3. AckedIsHandled /\ UnreadIsExact
    <3>1. conv.unread = 0 /\ reset.value = 0 /\ counted \ reset.mids = {}
      BY DEF Init, NoConversation
    <3>2. Cardinality(counted \ reset.mids) = 0
      BY <3>1, FS_EmptySet
    <3> QED
      BY <3>1, <3>2 DEF Init, AckedIsHandled, UnreadIsExact
  <2> QED
    BY <2>1, <2>2, <2>3 DEF IInv
<1>2. IInv /\ [Next]_vars => IInv'
  BY TypeStep, RowsStep, ProgressStep, CarriedStep, AckStep, UnreadStep DEF IInv
<1> QED
  BY <1>1, <1>2, PTL DEF Spec

(* Every reachable state of the inbox is well typed. *)
THEOREM TypeCorrect == Spec => []TypeOK
BY Invariance, PTL DEF IInv

(* A webhook that was answered with 200 has counted and pushed its message, *)
(* whatever failed, was imported or was delivered again meanwhile.          *)
THEOREM AcknowledgedIsHandled == Spec => []AckedIsHandled
BY Invariance, PTL DEF IInv

(* The unread counter is the number of messages counted since the last      *)
(* reset, in every state, crashes and redeliveries included.                *)
THEOREM UnreadAlwaysExact == Spec => []UnreadIsExact
BY Invariance, PTL DEF IInv

(* The inbox implements the ledger: every step stores new messages, counts  *)
(* or announces one for the first time, or leaves the ledger alone.         *)
THEOREM InboxKeepsPromise == Spec => KeepsPromise
<1>1. Init => Promise!Init
  BY DEF Init, Promise!Init, FromCustomer, Stored
<1>2. ASSUME IInv, [Next]_vars
      PROVE  [Promise!Next]_(Promise!ledger)
  <2>0. TypeOK /\ Rows /\ Progress
    BY <1>2 DEF IInv
  <2>1. ASSUME Stored \subseteq Stored', UNCHANGED <<counted, announced>>
        PROVE  Promise!Next
    <3>1. FromCustomer' \in SUBSET Messages /\ FromCustomer' = FromCustomer \cup FromCustomer'
      BY <2>1 DEF FromCustomer
    <3>2. Promise!Store(FromCustomer')
      BY <2>1, <3>1 DEF Promise!Store
    <3> QED
      BY <3>1, <3>2 DEF Promise!Next
  <2>2. ASSUME UNCHANGED <<rows, counted, announced>>
        PROVE  UNCHANGED Promise!ledger
    BY <2>2 DEF Promise!ledger, FromCustomer, Stored
  <2>3. ASSUME NEW r \in Requests, Count(r)
        PROVE  Promise!Next
    <3> DEFINE mid == First(batch[r])
    <3>1. rows[row[r]] = mid /\ mid \in Stored /\ mid \notin counted
      BY <2>0, <2>3 DEF Count, Rows, Progress, Held, Stored
    <3>2. mid \in Messages
      BY <1>2, <2>3, Working DEF Count, Webhook
    <3>3. counted' = counted \cup {mid} /\ UNCHANGED <<rows, announced>>
      BY <2>3, <3>1 DEF Count
    <3>4. Promise!Count(mid)
      BY <3>1, <3>2, <3>3 DEF Promise!Count, FromCustomer, Stored
    <3> QED
      BY <3>2, <3>4 DEF Promise!Next
  <2>4. ASSUME NEW r \in Requests, Emit(r)
        PROVE  Promise!Next
    <3> DEFINE mid == First(batch[r])
    <3>1. rows[row[r]] = mid /\ mid \in counted /\ mid \notin announced
      BY <2>0, <2>4 DEF Emit, Rows, Progress, Held
    <3>2. mid \in Messages
      BY <1>2, <2>4, Working DEF Emit, Webhook
    <3>3. announced' = announced \cup {mid} /\ UNCHANGED <<rows, counted>>
      BY <2>4, <3>1 DEF Emit
    <3>4. Promise!Announce(mid)
      BY <3>1, <3>3 DEF Promise!Announce, FromCustomer, Stored
    <3> QED
      BY <3>2, <3>4 DEF Promise!Next
  <2>5. ASSUME NEW r \in Requests, Light(r)
        PROVE  UNCHANGED Promise!ledger
    BY <2>0, <2>2, <2>5, LightKeeps
  <2>6. ASSUME NEW r \in Requests, Save(r) \/ SendKeep(r)
        PROVE  Promise!Next
    <3>1. Stored \subseteq Stored'
      <4>1. CASE UNCHANGED rows
        BY <4>1 DEF Stored
      <4>2. ASSUME NEW mid \in Messages \cup Requests, NEW next, Insert(r, mid, next)
            PROVE  Stored \subseteq Stored'
        BY <2>0, <4>2, InsertAdds
      <4>3. Save(r) => First(batch[r]) \in Messages
        BY <1>2, Working DEF Save, Webhook
      <4> QED
        BY <2>0, <2>6, <4>1, <4>2, <4>3, SaveEffect, SendKeepEffect
    <3> QED
      BY <2>1, <2>6, <3>1 DEF Save, SendKeep
  <2>7. ASSUME NEW r \in Requests, SyncImport(r)
        PROVE  Promise!Next
    BY <2>0, <2>1, <2>7, ImportAdds DEF SyncImport
  <2>8. CASE MarkRead \/ UNCHANGED vars
    BY <2>2, <2>8 DEF MarkRead, vars
  <2> QED
    BY <1>2, <2>3, <2>4, <2>5, <2>6, <2>7, <2>8, StepCases
<1> QED
  BY <1>1, <1>2, Invariance, PTL DEF Spec, KeepsPromise, Promise!Spec
=============================================================================
