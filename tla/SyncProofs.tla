----------------------------- MODULE SyncProofs -----------------------------
(***************************************************************************)
(* What holds of Sync for any number of runs, dialogs and messages.        *)
(***************************************************************************)
EXTENDS Sync, FiniteSetTheorems, TLAPS

Steps(r) == Begin(r) \/ Syncing(r) \/ Faults(r)

(* What a run's place in its code says of its variables. *)
Place(r) ==
    /\ pc[r] \in {"fetch", "insert"} => platform = "facebook" /\ at[r] \in Dialog
    /\ pc[r] = "messages" => platform = "telegram" /\ \A d \in open[r] \cup dropped[r] : d < at[r]
    /\ open[r] # {} => pc[r] = "messages"
    /\ dropped[r] # {} => pc[r] \in {"messages", "succeed", "tellSuccess", "success"}
    /\ open[r] \cap dropped[r] = {}
    /\ \A d \in open[r] : cursor[r][d] <= listed[r][d]
    /\ platform = "facebook" /\ pc[r] \in {"succeed", "tellSuccess", "success"} => at[r] = Dialogs + 1

LEMMA DialogIs ==
    /\ Dialogs \in Nat /\ Dialog \subseteq Nat /\ MaxMessages \in [Dialog -> Nat]
    /\ PageSize \in Nat \ {0}
    /\ \A n \in 1 .. Dialogs + 1 : n \in Nat /\ (n \notin Dialog <=> n = Dialogs + 1)
    /\ \A d \in Dialog : d + 1 \in 1 .. Dialogs + 1
    /\ 1 \in 1 .. Dialogs + 1
BY SyncAssumption DEF Dialog

LEMMA MessageIs ==
    ASSUME NEW m
    PROVE  m \in Message <=>
             \E d \in Dialog : \E n \in 1 .. MaxMessages[d] : m = <<d, n>>
BY DEF Message

LEMMA MessageHas ==
    ASSUME NEW m \in Message
    PROVE  m[1] \in Dialog /\ m[2] \in Nat \ {0} /\ m = <<m[1], m[2]>>
<1>1. PICK d \in Dialog : \E n \in 1 .. MaxMessages[d] : m = <<d, n>>
  BY MessageIs
<1>2. PICK n \in 1 .. MaxMessages[d] : m = <<d, n>>
  BY <1>1
<1>3. MaxMessages[d] \in Nat
  BY DialogIs
<1> QED
  BY <1>2, <1>3

LEMMA MessageAt ==
    ASSUME NEW d \in Dialog, NEW n \in Nat
    PROVE  <<d, n>> \in Message <=> n # 0 /\ n <= MaxMessages[d]
<1>1. MaxMessages[d] \in Nat
  BY DialogIs
<1>2. ASSUME <<d, n>> \in Message PROVE n # 0 /\ n <= MaxMessages[d]
  <2>1. PICK e \in Dialog : \E k \in 1 .. MaxMessages[e] : <<d, n>> = <<e, k>>
    BY <1>2, MessageIs
  <2> QED
    BY <1>1, <2>1
<1>3. ASSUME n # 0, n <= MaxMessages[d] PROVE <<d, n>> \in Message
  <2>1. n \in 1 .. MaxMessages[d]
    BY <1>1, <1>3
  <2> QED
    BY <2>1, MessageIs
<1> QED
  BY <1>2, <1>3

Zeros == [d \in Dialog |-> 0]

LEMMA ZerosAreLengths == Zeros \in Lengths
BY DialogIs DEF Zeros, Lengths

LEMMA LengthsAre == ASSUME NEW f \in Lengths, NEW d \in Dialog PROVE f[d] \in Nat /\ f[d] <= MaxMessages[d]
BY DEF Lengths

LEMMA LengthsSet ==
    ASSUME NEW F \in [Runs -> Lengths], NEW r \in Runs, NEW d \in Dialog, NEW n \in Nat,
           n <= MaxMessages[d], NEW G, G = [F EXCEPT ![r][d] = n]
    PROVE  /\ G \in [Runs -> Lengths]
           /\ G[r][d] = n
           /\ \A e \in Dialog : e # d => G[r][e] = F[r][e]
           /\ \A s \in Runs \ {r} : G[s] = F[s]
<1> DEFINE f == [F[r] EXCEPT ![d] = n]
<1>1. f \in Lengths
  BY DEF Lengths
<1>2. G = [F EXCEPT ![r] = f]
  OBVIOUS
<1>3. f[d] = n /\ \A e \in Dialog : e # d => f[e] = F[r][e]
  BY DEF Lengths
<1> HIDE DEF f
<1> QED
  BY <1>1, <1>2, <1>3

-----------------------------------------------------------------------------
(* Types *)

(* What a step that touches nothing of a run's work keeps. *)
LEMMA OnlyMarks ==
    ASSUME TypeOK, UNCHANGED <<platform, received, rows, work>>,
           status' \in SyncStatus, shown' \in SyncStatus, disturbed' \in BOOLEAN,
           pc' \in [Runs -> Active \cup {"new", "success", "failed", "lost"}]
    PROVE  TypeOK'
BY DEF TypeOK, rows, work

LEMMA ForgetTyped ==
    ASSUME TypeOK, NEW S, Forget(S)
    PROVE  /\ at' \in [Runs -> 1 .. Dialogs + 1]
           /\ listed' \in [Runs -> Lengths] /\ cursor' \in [Runs -> Lengths]
           /\ open' \in [Runs -> SUBSET Dialog] /\ dropped' \in [Runs -> SUBSET Dialog]
BY DialogIs, ZerosAreLengths DEF Forget, TypeOK, Zeros

LEMMA ListingMessages == ASSUME NEW r, NEW d PROVE Listing(r, d) \subseteq Message
BY DEF Listing

LEMMA InitTyped == Init => TypeOK
BY DialogIs, ZerosAreLengths DEF Init, TypeOK, Zeros, SyncStatus

LEMMA StepsTyped == ASSUME TypeOK, NEW r \in Runs, Place(r), Steps(r) PROVE TypeOK'
<1> DEFINE Label == Active \cup {"new", "success", "failed", "lost"}
<1>1. pc \in [Runs -> Label] /\ \A l \in Label : [pc EXCEPT ![r] = l] \in [Runs -> Label]
  BY DEF TypeOK
<1>2. {"tellSyncing", "list", "conversation", "fetch", "insert", "messages", "succeed", "tellSuccess",
       "catch", "tellFailed", "success", "failed", "lost"} \subseteq Label
  BY DEF Active, Trying
<1> HIDE DEF Label
<1>3. CASE Begin(r) \/ Succeed(r) \/ Catch(r) \/ BeginFails(r) \/ CatchFails(r)
  <2>1. UNCHANGED <<platform, received, rows, work, shown>>
    BY <1>3 DEF Begin, Succeed, Catch, BeginFails, CatchFails
  <2>2. pc' \in [Runs -> Label]
    BY <1>1, <1>2, <1>3 DEF Begin, Succeed, Catch, BeginFails, CatchFails, Step, Goto
  <2>3. status' \in SyncStatus /\ disturbed' \in BOOLEAN
    BY <1>3 DEF Begin, Succeed, Catch, BeginFails, CatchFails, SyncStatus, TypeOK
  <2> QED
    BY <2>1, <2>2, <2>3, OnlyMarks DEF TypeOK, Label
<1>4. CASE TellSyncing(r) \/ TellSuccess(r) \/ TellFailed(r)
  <2>1. UNCHANGED <<platform, received, rows, work, status>>
    BY <1>4 DEF TellSyncing, TellSuccess, TellFailed, Tell
  <2>2. pc' \in [Runs -> Label]
    BY <1>1, <1>2, <1>4 DEF TellSyncing, TellSuccess, TellFailed, Step, Goto
  <2>3. shown' \in SyncStatus /\ disturbed' \in BOOLEAN
    BY <1>4 DEF TellSyncing, TellSuccess, TellFailed, Tell, SyncStatus, TypeOK
  <2> QED
    BY <2>1, <2>2, <2>3, OnlyMarks DEF TypeOK, Label
<1>5. CASE List(r) \/ AllImported(r)
  <2>1. pc' \in [Runs -> Label] /\ UNCHANGED <<platform, received, rows, marks, work>>
    BY <1>1, <1>2, <1>5 DEF List, AllImported, Step, Goto
  <2> QED
    BY <2>1, OnlyMarks DEF TypeOK, marks, Label
<1>6. CASE Conversation(r) \/ Conversations(r) \/ Fetch(r) \/ Insert(r)
  <2>1. pc' \in [Runs -> Label]
    BY <1>1, <1>2, <1>6 DEF Conversation, Conversations, Fetch, Insert, Step, Goto
  <2>2. UNCHANGED <<platform, received, marks, cursor, open, dropped>>
    BY <1>6 DEF Conversation, Conversations, Fetch, Insert, rows
  <2>3. known' \subseteq Dialog /\ stored' \subseteq Message
    BY <1>6, ListingMessages DEF Conversation, Conversations, Fetch, Insert, rows, TypeOK
  <2>4. at' \in [Runs -> 1 .. Dialogs + 1] /\ listed' \in [Runs -> Lengths]
    <3>1. CASE Conversation(r) \/ Conversations(r)
      BY <3>1, DialogIs DEF Conversation, Conversations, TypeOK
    <3>2. CASE Fetch(r)
      <4>1. at[r] \in Dialog
        BY <3>2 DEF Fetch, Step, Place
      <4>2. received[at[r]] \in Nat /\ received[at[r]] <= MaxMessages[at[r]]
        BY <4>1, LengthsAre DEF TypeOK
      <4> QED
        BY <3>2, <4>1, <4>2, LengthsSet DEF Fetch, TypeOK
    <3>3. CASE Insert(r)
      <4>1. at[r] \in Dialog
        BY <3>3 DEF Insert, Step, Place
      <4> QED
        BY <3>3, <4>1, DialogIs DEF Insert, TypeOK
    <3> QED
      BY <1>6, <3>1, <3>2, <3>3
  <2> QED
    BY <2>1, <2>2, <2>3, <2>4 DEF TypeOK, marks, Label
<1>7. CASE OpenDialog(r)
  <2>1. at[r] \in Dialog /\ UNCHANGED <<platform, received, rows, marks, pc, dropped>>
    BY <1>7 DEF OpenDialog
  <2>2. received[at[r]] \in Nat /\ received[at[r]] <= MaxMessages[at[r]]
    BY <2>1, LengthsAre DEF TypeOK
  <2>3. listed' \in [Runs -> Lengths] /\ cursor' \in [Runs -> Lengths]
    <3> PICK d \in Dialog, n \in Nat : d = at[r] /\ n = received[at[r]]
      BY <2>1, <2>2
    <3>1. /\ listed' = [listed EXCEPT ![r][d] = n]
          /\ cursor' = [cursor EXCEPT ![r][d] = n]
          /\ listed \in [Runs -> Lengths] /\ cursor \in [Runs -> Lengths]
          /\ n <= MaxMessages[d]
      BY <1>7, <2>2 DEF OpenDialog, TypeOK
    <3>2. listed' \in [Runs -> Lengths]
      BY <3>1, LengthsSet
    <3>3. cursor' \in [Runs -> Lengths]
      BY <3>1, LengthsSet
    <3> QED
      BY <3>2, <3>3
  <2>4. open' \in [Runs -> SUBSET Dialog] /\ at' \in [Runs -> 1 .. Dialogs + 1]
    BY <1>7, <2>1, DialogIs DEF OpenDialog, TypeOK
  <2> QED
    BY <2>1, <2>3, <2>4 DEF TypeOK, rows, marks
<1>8. ASSUME NEW d \in Dialog, DropDialog(r, d) \/ Imported(r, d) PROVE TypeOK'
  <2>1. CloseDialog(r, d) /\ UNCHANGED <<platform, received, rows, marks, pc, at, listed>>
    BY <1>8 DEF DropDialog, Imported
  <2>2. 0 \in Nat /\ 0 <= MaxMessages[d]
    BY DialogIs
  <2>3. cursor' \in [Runs -> Lengths] /\ open' \in [Runs -> SUBSET Dialog]
    BY <2>1, <2>2, LengthsSet DEF CloseDialog, TypeOK
  <2>4. dropped' \in [Runs -> SUBSET Dialog]
    BY <1>8 DEF DropDialog, Imported, TypeOK
  <2> QED
    BY <2>1, <2>3, <2>4 DEF TypeOK, rows, marks
<1>9. ASSUME NEW d \in Dialog, StoreMessage(r, d) PROVE TypeOK'
  <2>1. CASE DropDialog(r, d)
    BY <1>8, <2>1
  <2> DEFINE m == <<d, cursor[r][d]>>
  <2>2. CASE /\ stored' = IF m \in Bare THEN stored ELSE stored \cup {m}
             /\ cursor' = [cursor EXCEPT ![r][d] = @ - 1]
             /\ UNCHANGED <<platform, received, known, marks, pc, at, listed, open, dropped>>
    <3>1. m \in Message
      BY <1>9, ListingMessages DEF StoreMessage
    <3>2. cursor[r][d] \in Nat /\ cursor[r][d] <= MaxMessages[d] /\ MaxMessages[d] \in Nat
      BY LengthsAre, DialogIs DEF TypeOK
    <3>3. cursor[r][d] - 1 \in Nat /\ cursor[r][d] - 1 <= MaxMessages[d]
      BY <3>1, <3>2, MessageAt
    <3>4. cursor' = [cursor EXCEPT ![r][d] = cursor[r][d] - 1]
      BY <2>2
    <3>5. cursor' \in [Runs -> Lengths]
      BY <3>3, <3>4, LengthsSet DEF TypeOK
    <3>6. stored' \subseteq Message
      BY <2>2, <3>1 DEF TypeOK
    <3> QED
      BY <2>2, <3>5, <3>6 DEF TypeOK, marks
  <2> QED
    BY <1>9, <2>1, <2>2 DEF StoreMessage
<1>10. CASE TryFails(r)
  <2>1. pc' \in [Runs -> Label] /\ status' \in SyncStatus
    BY <1>1, <1>2, <1>10 DEF TryFails, Goto, SyncStatus, TypeOK
  <2>2. Forget({r}) /\ UNCHANGED <<platform, received, rows, shown, disturbed>>
    BY <1>10 DEF TryFails
  <2> QED
    BY <2>1, <2>2, ForgetTyped DEF TypeOK, rows, Label
<1>11. CASE DialogFails(r)
  <2>1. PICK d \in open[r] : DropDialog(r, d)
    BY <1>11 DEF DialogFails
  <2>2. d \in Dialog
    BY DEF TypeOK
  <2> QED
    BY <1>8, <2>1, <2>2
<1> QED
  BY <1>3, <1>4, <1>5, <1>6, <1>7, <1>8, <1>9, <1>10, <1>11 DEF Steps, Syncing, Faults
-----------------------------------------------------------------------------
(* What is stored *)

(* All that a run was given of a dialog it is through with is stored, and   *)
(* of a Telegram dialog it is working on, all that is newer than the next.  *)
Imports(r) ==
    /\ platform = "facebook" => \A d \in Dialog : d < at[r] => Listing(r, d) \subseteq stored
    /\ platform = "telegram" =>
         \A d \in Dialog : d \notin dropped[r] =>
             \A m \in Listing(r, d) \ Bare : m \in stored \/ (d \in open[r] /\ m[2] <= cursor[r][d])

Inv ==
    /\ TypeOK
    /\ \A r \in Runs : Place(r) /\ Imports(r)

(* What a step of r leaves alone: the other runs, and the rows there are. *)
Aside(r) ==
    /\ platform' = platform /\ stored \subseteq stored'
    /\ \A s \in Runs \ {r} :
         /\ pc'[s] = pc[s] /\ at'[s] = at[s] /\ listed'[s] = listed[s]
         /\ cursor'[s] = cursor[s] /\ open'[s] = open[s] /\ dropped'[s] = dropped[s]

LEMMA ListingKept ==
    ASSUME NEW s, NEW d, listed'[s][d] = listed[s][d] PROVE Listing(s, d)' = Listing(s, d)
BY DEF Listing

LEMMA AsideKeeps ==
    ASSUME Inv, NEW r \in Runs, Aside(r), NEW s \in Runs \ {r} PROVE Place(s)' /\ Imports(s)'
<1>1. \A d : Listing(s, d)' = Listing(s, d)
  BY ListingKept DEF Aside
<1> QED
  BY <1>1 DEF Aside, Inv, Place, Imports

(* A run whose work is left alone by a step keeps what it has imported. *)
LEMMA WorkKept ==
    ASSUME NEW r \in Runs, Imports(r), UNCHANGED <<platform, work>>, stored \subseteq stored'
    PROVE  Imports(r)'
<1>1. \A d : Listing(r, d)' = Listing(r, d)
  BY ListingKept DEF work
<1> QED
  BY <1>1 DEF work, Imports

LEMMA NothingListed ==
    ASSUME NEW f, \A d \in Dialog : f[d] = 0, NEW d \in Dialog
    PROVE  {m \in Message : m[1] = d /\ m[2] <= f[d] /\ m[2] + PageSize > f[d]} = {}
BY MessageHas

LEMMA Forgotten ==
    ASSUME TypeOK, NEW S, Forget(S), NEW r \in Runs, r \in S, platform' = platform
    PROVE  /\ at'[r] = 1 /\ open'[r] = {} /\ dropped'[r] = {}
           /\ Imports(r)'
<1>1. /\ at'[r] = 1 /\ open'[r] = {} /\ dropped'[r] = {}
      /\ \A d \in Dialog : listed'[r][d] = 0
  BY DEF Forget
<1>2. \A d \in Dialog : Listing(r, d)' = {}
  BY <1>1, MessageHas DEF Listing
<1> QED
  BY <1>1, <1>2 DEF Imports

LEMMA ForgetAside ==
    ASSUME TypeOK, NEW S, Forget(S), NEW s \in Runs, s \notin S
    PROVE  /\ at'[s] = at[s] /\ listed'[s] = listed[s]
           /\ cursor'[s] = cursor[s] /\ open'[s] = open[s] /\ dropped'[s] = dropped[s]
BY DEF Forget

LEMMA InitRuns == Init => Inv
<1> SUFFICES ASSUME Init PROVE Inv
  OBVIOUS
<1>1. TypeOK /\ stored = {}
  BY InitTyped DEF Init
<1>2. ASSUME NEW r \in Runs PROVE Place(r) /\ Imports(r)
  <2>1. \A d \in Dialog : Listing(r, d) = {}
    BY MessageHas DEF Listing, Init
  <2> QED
    BY <2>1 DEF Init, Place, Imports
<1> QED
  BY <1>1, <1>2 DEF Inv
-----------------------------------------------------------------------------
(* Every step of a run keeps the invariant *)

LEMMA StepsAside == ASSUME TypeOK, NEW r \in Runs, Steps(r) PROVE Aside(r)
<1>1. CASE TryFails(r)
  <2>1. /\ platform' = platform /\ stored' = stored /\ Forget({r})
        /\ \A s \in Runs \ {r} : pc'[s] = pc[s]
    BY <1>1 DEF TryFails, rows, Goto, TypeOK
  <2> QED
    BY <2>1, ForgetAside DEF Aside
<1>2. ASSUME NEW d, d \in Dialog \/ d \in open[r], StoreMessage(r, d) \/ Imported(r, d) \/ DropDialog(r, d)
      PROVE  Aside(r)
  BY <1>2 DEF StoreMessage, Imported, DropDialog, CloseDialog, Aside, rows, TypeOK
<1>3. CASE OpenDialog(r)
  BY <1>3 DEF OpenDialog, Aside, rows, TypeOK
<1>4. CASE Conversation(r) \/ Conversations(r) \/ Fetch(r) \/ Insert(r)
  BY <1>4 DEF Conversation, Conversations, Fetch, Insert, Aside, rows, Step, Goto, TypeOK
<1>5. CASE Begin(r) \/ Succeed(r) \/ Catch(r) \/ BeginFails(r) \/ CatchFails(r)
           \/ TellSyncing(r) \/ TellSuccess(r) \/ TellFailed(r) \/ List(r) \/ AllImported(r)
  BY <1>5 DEF Begin, Succeed, Catch, BeginFails, CatchFails, TellSyncing, TellSuccess, TellFailed,
     Tell, List, AllImported, Aside, rows, work, Step, Goto, TypeOK
<1> QED
  BY <1>1, <1>2, <1>3, <1>4, <1>5 DEF Steps, Syncing, Faults, DialogFails

LEMMA MarkSteps ==
    ASSUME Inv, NEW r \in Runs,
           Begin(r) \/ Succeed(r) \/ Catch(r) \/ BeginFails(r) \/ CatchFails(r)
           \/ TellSyncing(r) \/ TellSuccess(r) \/ TellFailed(r) \/ List(r) \/ AllImported(r)
    PROVE  Place(r)' /\ Imports(r)' /\ stored' = stored
<1>1. TypeOK /\ Place(r) /\ Imports(r) /\ pc \in [Runs -> Active \cup {"new", "success", "failed", "lost"}]
  BY DEF Inv, TypeOK
<1>2. /\ UNCHANGED <<platform, work>> /\ stored' = stored
  BY DEF Begin, Succeed, Catch, BeginFails, CatchFails, TellSyncing, TellSuccess, TellFailed,
     Tell, List, AllImported, rows
<1>3. Imports(r)'
  BY <1>1, <1>2, WorkKept
<1>4. \/ pc[r] \in {"new", "catch", "tellSyncing", "tellFailed", "list"}
           /\ pc'[r] \in {"tellSyncing", "tellFailed", "list", "conversation", "failed", "lost"}
      \/ pc[r] = "succeed" /\ pc'[r] = "tellSuccess"
      \/ pc[r] = "tellSuccess" /\ pc'[r] = "success"
      \/ pc[r] = "messages" /\ pc'[r] = "succeed" /\ open[r] = {}
  BY <1>1 DEF Begin, Succeed, Catch, BeginFails, CatchFails, TellSyncing, TellSuccess, TellFailed,
     List, AllImported, Step, Goto
<1>5. /\ at' = at /\ listed' = listed /\ cursor' = cursor /\ open' = open /\ dropped' = dropped
      /\ platform' = platform
  BY <1>2 DEF work
<1>6. Place(r)'
  BY <1>1, <1>4, <1>5 DEF Place
<1> QED
  BY <1>2, <1>3, <1>6

LEMMA DialogSteps ==
    ASSUME Inv, NEW r \in Runs, Conversation(r) \/ Conversations(r) \/ Fetch(r)
    PROVE  Place(r)' /\ Imports(r)' /\ stored' = stored
<1>1. /\ TypeOK /\ Place(r) /\ Imports(r) /\ at[r] \in 1 .. Dialogs + 1 /\ at[r] \in Nat
      /\ pc \in [Runs -> Active \cup {"new", "success", "failed", "lost"}]
      /\ at \in [Runs -> 1 .. Dialogs + 1] /\ listed \in [Runs -> Lengths]
      /\ platform \in {"facebook", "telegram"}
  BY DialogIs DEF Inv, TypeOK
<1>2. /\ stored' = stored /\ platform' = platform /\ cursor' = cursor /\ open' = open
      /\ dropped' = dropped
  BY DEF Conversation, Conversations, Fetch, rows
<1>3. CASE Conversation(r)
  <2>1. at[r] \in Dialog /\ listed' = listed /\ pc[r] = "conversation" /\ open[r] = {} /\ dropped[r] = {}
    BY <1>1, <1>3 DEF Conversation, Step, Place
  <2>2. \A d : Listing(r, d)' = Listing(r, d)
    BY <2>1, ListingKept
  <2>3. CASE platform = "facebook"
    <3>1. at' = at /\ pc'[r] = "fetch"
      BY <1>1, <1>3, <2>3 DEF Conversation, Step, Goto
    <3> QED
      BY <1>1, <1>2, <2>1, <2>2, <2>3, <3>1 DEF Place, Imports
  <2>4. CASE platform = "telegram"
    <3>1. pc' = pc
      BY <1>3, <2>4 DEF Conversation
    <3> QED
      BY <1>1, <1>2, <2>1, <2>2, <2>4, <3>1 DEF Place, Imports
  <2> QED
    BY <1>1, <1>2, <2>3, <2>4
<1>4. CASE Conversations(r)
  <2>1. at[r] \notin Dialog /\ listed' = listed /\ pc[r] = "conversation" /\ open[r] = {} /\ dropped[r] = {}
    BY <1>1, <1>4 DEF Conversations, Step, Place
  <2>2. at[r] = Dialogs + 1
    BY <1>1, <2>1, DialogIs
  <2>3. \A d : Listing(r, d)' = Listing(r, d)
    BY <2>1, ListingKept
  <2>4. CASE platform = "facebook"
    <3>1. at'[r] = at[r] /\ pc'[r] = "succeed"
      BY <1>1, <1>4, <2>4 DEF Conversations, Step, Goto
    <3> QED
      BY <1>1, <1>2, <2>1, <2>2, <2>3, <2>4, <3>1 DEF Place, Imports
  <2>5. CASE platform = "telegram"
    <3>1. pc'[r] = "messages"
      BY <1>1, <1>4, <2>5 DEF Conversations, Step, Goto
    <3> QED
      BY <1>1, <1>2, <2>1, <2>3, <2>5, <3>1 DEF Place, Imports
  <2> QED
    BY <1>1, <1>2, <2>4, <2>5
<1>5. CASE Fetch(r)
  <2>1. /\ platform = "facebook" /\ at[r] \in Dialog /\ open[r] = {} /\ dropped[r] = {}
        /\ pc'[r] = "insert" /\ at' = at
    BY <1>1, <1>5 DEF Fetch, Step, Goto, Place
  <2>2. \A d \in Dialog : d < at[r] => listed'[r][d] = listed[r][d]
    <3>1. listed' = [listed EXCEPT ![r][at[r]] = received[at[r]]]
      BY <1>5 DEF Fetch
    <3>2. received[at[r]] \in Nat /\ received[at[r]] <= MaxMessages[at[r]]
      BY <2>1, LengthsAre DEF Inv, TypeOK
    <3>3. PICK d \in Dialog, n \in Nat : d = at[r] /\ n = received[at[r]]
      BY <2>1, <3>2
    <3>4. listed' = [listed EXCEPT ![r][d] = n] /\ n <= MaxMessages[d]
      BY <3>1, <3>2, <3>3
    <3>5. \A e \in Dialog : e # d => listed'[r][e] = listed[r][e]
      BY <1>1, <3>4, LengthsSet
    <3> QED
      BY <3>3, <3>5, DialogIs
  <2>3. \A d \in Dialog : d < at[r] => Listing(r, d)' = Listing(r, d)
    BY <2>2, ListingKept
  <2> QED
    BY <1>1, <1>2, <2>1, <2>3 DEF Place, Imports
<1> QED
  BY <1>2, <1>3, <1>4, <1>5

LEMMA InsertStep ==
    ASSUME Inv, NEW r \in Runs, Insert(r)
    PROVE  Place(r)' /\ Imports(r)' /\ platform' = "facebook"
<1>1. /\ TypeOK /\ Place(r) /\ Imports(r) /\ at[r] \in Dialog /\ platform = "facebook"
      /\ pc \in [Runs -> Active \cup {"new", "success", "failed", "lost"}]
      /\ at \in [Runs -> 1 .. Dialogs + 1]
      /\ open[r] = {} /\ dropped[r] = {}
  BY DEF Inv, TypeOK, Insert, Step, Place
<1>2. /\ stored' = stored \cup Listing(r, at[r]) /\ platform' = platform /\ listed' = listed
      /\ cursor' = cursor /\ open' = open /\ dropped' = dropped
      /\ pc'[r] = "conversation" /\ at'[r] = at[r] + 1
  BY <1>1 DEF Insert, Step, Goto
<1>3. \A d : Listing(r, d)' = Listing(r, d)
  BY <1>2, ListingKept
<1>4. \A d \in Dialog : d < at[r] + 1 => d < at[r] \/ d = at[r]
  BY <1>1, DialogIs
<1>5. \A d \in Dialog : d < at'[r] => Listing(r, d)' \subseteq stored'
  BY <1>1, <1>2, <1>3, <1>4 DEF Imports
<1> QED
  BY <1>1, <1>2, <1>5 DEF Place, Imports

LEMMA TryFailsStep ==
    ASSUME Inv, NEW r \in Runs, TryFails(r)
    PROVE  Place(r)' /\ Imports(r)' /\ stored' = stored
<1>1. TypeOK /\ pc'[r] = "catch" /\ Forget({r}) /\ platform' = platform /\ stored' = stored
  BY DEF Inv, TypeOK, TryFails, Goto, rows
<1>2. at'[r] = 1 /\ open'[r] = {} /\ dropped'[r] = {} /\ Imports(r)'
  BY <1>1, Forgotten
<1> QED
  BY <1>1, <1>2 DEF Place
(* The messages of a dialog, as the Telegram steps see them. *)
LEMMA Typed ==
    ASSUME TypeOK, NEW r \in Runs
    PROVE  /\ at[r] \in Nat /\ at \in [Runs -> 1 .. Dialogs + 1]
           /\ listed \in [Runs -> Lengths] /\ cursor \in [Runs -> Lengths]
           /\ open \in [Runs -> SUBSET Dialog] /\ dropped \in [Runs -> SUBSET Dialog]
           /\ pc \in [Runs -> Active \cup {"new", "success", "failed", "lost"}]
           /\ \A d \in Dialog : /\ listed[r][d] \in Nat /\ cursor[r][d] \in Nat /\ received[d] \in Nat
                                /\ cursor[r][d] <= MaxMessages[d] /\ received[d] <= MaxMessages[d]
                                /\ listed[r][d] <= MaxMessages[d]
                                /\ d \in Nat
BY DialogIs, LengthsAre DEF TypeOK

LEMMA OpenDialogStep ==
    ASSUME Inv, NEW r \in Runs, OpenDialog(r)
    PROVE  Place(r)' /\ Imports(r)' /\ stored' = stored
<1>1. TypeOK /\ Place(r) /\ Imports(r)
  BY DEF Inv
<1>2. PICK d \in Dialog, n \in Nat : d = at[r] /\ n = received[d] /\ n <= MaxMessages[d]
  BY <1>1, Typed DEF OpenDialog
<1>3. /\ stored' = stored /\ platform' = platform /\ pc' = pc /\ dropped' = dropped
      /\ open' = [open EXCEPT ![r] = open[r] \cup {d}]
      /\ listed' = [listed EXCEPT ![r][d] = n]
      /\ cursor' = [cursor EXCEPT ![r][d] = n]
      /\ at' = [at EXCEPT ![r] = at[r] + 1]
      /\ pc[r] = "messages"
  BY <1>2 DEF OpenDialog, rows
<1>4. listed'[r][d] = n /\ \A e \in Dialog : e # d => listed'[r][e] = listed[r][e]
  <2>1. listed' = [listed EXCEPT ![r][d] = n] /\ listed \in [Runs -> Lengths] /\ n <= MaxMessages[d]
    BY <1>1, <1>2, <1>3, Typed
  <2>2. listed'[r][d] = n
    BY <2>1 DEF Lengths
  <2>3. \A e \in Dialog : e # d => listed'[r][e] = listed[r][e]
    BY <2>1, LengthsSet
  <2> QED
    BY <2>2, <2>3
<1>5. cursor'[r][d] = n /\ \A e \in Dialog : e # d => cursor'[r][e] = cursor[r][e]
  <2>1. cursor' = [cursor EXCEPT ![r][d] = n] /\ cursor \in [Runs -> Lengths] /\ n <= MaxMessages[d]
    BY <1>1, <1>2, <1>3, Typed
  <2>2. cursor'[r][d] = n
    BY <2>1 DEF Lengths
  <2>3. \A e \in Dialog : e # d => cursor'[r][e] = cursor[r][e]
    BY <2>1, LengthsSet
  <2> QED
    BY <2>2, <2>3
<1>6. open'[r] = open[r] \cup {d} /\ at'[r] = d + 1 /\ open[r] \subseteq Dialog /\ dropped[r] \subseteq Dialog
  BY <1>1, <1>2, <1>3, Typed
<1>7. platform = "telegram" /\ \A e \in open[r] \cup dropped[r] : e < d
  BY <1>1, <1>2, <1>3 DEF Place
<1>8. d \notin open[r] /\ d \notin dropped[r] /\ d \in Nat
  BY <1>2, <1>7, DialogIs
<1>9. Place(r)'
  <2>1. \A e \in open'[r] \cup dropped'[r] : e < d + 1
    BY <1>3, <1>6, <1>7, <1>8, DialogIs
  <2>2. \A e \in open'[r] : cursor'[r][e] <= listed'[r][e]
    BY <1>1, <1>2, <1>4, <1>5, <1>6, <1>8 DEF Place
  <2> QED
    BY <1>1, <1>3, <1>6, <1>7, <1>8, <2>1, <2>2 DEF Place
<1>10. Imports(r)'
  <2> SUFFICES ASSUME NEW e \in Dialog, e \notin dropped[r], NEW m \in Listing(r, e)' \ Bare
      PROVE  m \in stored \/ (e \in open'[r] /\ m[2] <= cursor'[r][e])
    BY <1>3, <1>7 DEF Imports
  <2>1. CASE e = d
    BY <1>4, <1>5, <1>6, <2>1 DEF Listing
  <2>2. CASE e # d
    <3>1. Listing(r, e)' = Listing(r, e)
      BY <1>4, <2>2, ListingKept
    <3> QED
      BY <1>1, <1>5, <1>6, <1>7, <2>2, <3>1 DEF Imports
  <2> QED
    BY <2>1, <2>2
<1> QED
  BY <1>3, <1>9, <1>10

LEMMA Closes ==
    ASSUME TypeOK, NEW r \in Runs, NEW d \in Dialog, CloseDialog(r, d)
    PROVE  /\ open'[r] = open[r] \ {d}
           /\ \A e \in Dialog : e # d => cursor'[r][e] = cursor[r][e]
<1>1. 0 \in Nat /\ 0 <= MaxMessages[d]
  BY DialogIs
<1>2. cursor' = [cursor EXCEPT ![r][d] = 0] /\ cursor \in [Runs -> Lengths]
  BY DEF CloseDialog, TypeOK
<1>3. \A e \in Dialog : e # d => cursor'[r][e] = cursor[r][e]
  BY <1>1, <1>2, LengthsSet
<1> QED
  BY <1>3, Typed DEF CloseDialog

LEMMA DropDialogStep ==
    ASSUME Inv, NEW r \in Runs, NEW d \in open[r], DropDialog(r, d)
    PROVE  Place(r)' /\ Imports(r)' /\ stored' = stored
<1>1. TypeOK /\ Place(r) /\ Imports(r) /\ d \in Dialog /\ open[r] \subseteq Dialog
  BY DEF Inv, TypeOK
<1>2. /\ stored' = stored /\ platform' = platform /\ pc' = pc /\ at' = at /\ listed' = listed
      /\ dropped'[r] = dropped[r] \cup {d}
      /\ open'[r] = open[r] \ {d}
      /\ \A e \in Dialog : e # d => cursor'[r][e] = cursor[r][e]
  BY <1>1, Closes, Typed DEF DropDialog, rows
<1>3. pc[r] = "messages" /\ platform = "telegram"
  BY <1>1 DEF Place
<1>4. Place(r)'
  BY <1>1, <1>2, <1>3 DEF Place
<1>5. \A e : Listing(r, e)' = Listing(r, e)
  BY <1>2, ListingKept
<1>6. Imports(r)'
  BY <1>1, <1>2, <1>3, <1>5 DEF Imports
<1> QED
  BY <1>2, <1>4, <1>6

(* A dialog is closed when its listing has been gone through. *)
LEMMA ImportedStep ==
    ASSUME Inv, NEW r \in Runs, NEW d \in Dialog, Imported(r, d)
    PROVE  Place(r)' /\ Imports(r)' /\ stored' = stored
<1>1. TypeOK /\ Place(r) /\ Imports(r) /\ d \in open[r] /\ open[r] \subseteq Dialog
  BY DEF Inv, TypeOK, Imported
<1>2. /\ stored' = stored /\ platform' = platform /\ pc' = pc /\ at' = at /\ listed' = listed
      /\ dropped' = dropped
      /\ open'[r] = open[r] \ {d}
      /\ \A e \in Dialog : e # d => cursor'[r][e] = cursor[r][e]
  BY <1>1, Closes DEF Imported, rows
<1>3. pc[r] = "messages" /\ platform = "telegram"
  BY <1>1 DEF Place
<1>4. Place(r)'
  BY <1>1, <1>2, <1>3 DEF Place
<1>5. \A e : Listing(r, e)' = Listing(r, e)
  BY <1>2, ListingKept
<1>6. ASSUME NEW m \in Listing(r, d) PROVE m[2] > cursor[r][d]
  <2> SUFFICES ASSUME ~ (m[2] > cursor[r][d]) PROVE FALSE
    OBVIOUS
  <2>1. /\ m \in Message /\ m[2] \in Nat \ {0} /\ m[2] + PageSize > listed[r][d]
    BY MessageHas DEF Listing
  <2>2. /\ cursor[r][d] \in Nat /\ cursor[r][d] <= MaxMessages[d] /\ listed[r][d] \in Nat
        /\ cursor[r][d] <= listed[r][d] /\ PageSize \in Nat
    BY <1>1, Typed, DialogIs DEF Place
  <2>3. cursor[r][d] # 0 /\ cursor[r][d] + PageSize > listed[r][d]
    BY <2>1, <2>2
  <2>4. <<d, cursor[r][d]>> \in Message
    BY <2>2, <2>3, MessageAt
  <2>5. <<d, cursor[r][d]>> \in Listing(r, d)
    BY <2>2, <2>3, <2>4 DEF Listing
  <2> QED
    BY <2>5 DEF Imported
<1>7. Imports(r)'
  <2> SUFFICES ASSUME NEW e \in Dialog, e \notin dropped[r], NEW m \in Listing(r, e) \ Bare
      PROVE  m \in stored \/ (e \in open'[r] /\ m[2] <= cursor'[r][e])
    BY <1>2, <1>3, <1>5 DEF Imports
  <2>1. m \in stored \/ (e \in open[r] /\ m[2] <= cursor[r][e])
    BY <1>1, <1>3 DEF Imports
  <2>2. CASE e = d
    <3>1. m[2] \in Nat /\ cursor[r][d] \in Nat /\ m[2] > cursor[r][d]
      BY <1>1, <1>6, <2>2, Typed, MessageHas DEF Listing
    <3> QED
      BY <2>1, <2>2, <3>1
  <2>3. CASE e # d
    BY <1>2, <2>1, <2>3
  <2> QED
    BY <2>2, <2>3
<1> QED
  BY <1>2, <1>4, <1>7

(* The message comes through: it is stored, or there is nothing to store. *)
Stores(r, d, m) ==
    /\ d \in open[r] /\ m \in Listing(r, d) /\ m = <<d, cursor[r][d]>>
    /\ m \in Bare \/ Accepted(m)
    /\ stored' = IF m \in Bare THEN stored ELSE stored \cup {m}
    /\ cursor' = [cursor EXCEPT ![r][d] = cursor[r][d] - 1]
    /\ UNCHANGED <<platform, received, known, marks, pc, at, listed, open, dropped>>

LEMMA StoreMessageIs ==
    ASSUME NEW r, NEW d, StoreMessage(r, d)
    PROVE  \/ d \in open[r] /\ DropDialog(r, d)
           \/ \E m : Stores(r, d, m)
BY DEF StoreMessage, Stores

LEMMA StoresStep ==
    ASSUME Inv, NEW r \in Runs, NEW d \in Dialog, NEW m, Stores(r, d, m)
    PROVE  Place(r)' /\ Imports(r)' /\ platform = "telegram"
<1>1. TypeOK /\ Place(r) /\ Imports(r) /\ d \in open[r] /\ open[r] \subseteq Dialog
  BY DEF Inv, TypeOK, Stores
<1>2. /\ platform' = platform /\ pc' = pc /\ at' = at /\ listed' = listed
      /\ dropped' = dropped /\ open' = open
  BY DEF Stores
<1>3. pc[r] = "messages" /\ platform = "telegram"
  BY <1>1 DEF Place
<1>4. /\ m \in Message /\ m[2] = cursor[r][d] /\ cursor[r][d] \in Nat \ {0}
      /\ cursor[r][d] <= MaxMessages[d] /\ MaxMessages[d] \in Nat /\ listed[r][d] \in Nat
  <2>1. m \in Message /\ m[2] = cursor[r][d]
    BY DEF Stores, Listing
  <2> QED
    BY <1>1, <2>1, Typed, MessageHas, DialogIs
<1>5. cursor'[r][d] = cursor[r][d] - 1 /\ \A e \in Dialog : e # d => cursor'[r][e] = cursor[r][e]
  <2>1. PICK n \in Nat : n = cursor[r][d] - 1 /\ n <= MaxMessages[d]
    BY <1>4
  <2>2. cursor' = [cursor EXCEPT ![r][d] = n] /\ cursor \in [Runs -> Lengths]
    BY <1>1, <2>1 DEF Stores, TypeOK
  <2>3. cursor'[r][d] = n
    BY <2>1, <2>2 DEF Lengths
  <2>4. \A e \in Dialog : e # d => cursor'[r][e] = cursor[r][e]
    BY <2>1, <2>2, LengthsSet
  <2> QED
    BY <2>1, <2>3, <2>4
<1>6. Place(r)'
  <2>1. \A e \in open[r] : cursor'[r][e] <= listed'[r][e]
    BY <1>1, <1>2, <1>4, <1>5 DEF Place
  <2> QED
    BY <1>1, <1>2, <1>3, <2>1 DEF Place
<1>7. \A e : Listing(r, e)' = Listing(r, e)
  BY <1>2, ListingKept
<1>8. Imports(r)'
  <2> SUFFICES ASSUME NEW e \in Dialog, e \notin dropped[r], NEW n \in Listing(r, e) \ Bare
      PROVE  n \in stored' \/ (e \in open[r] /\ n[2] <= cursor'[r][e])
    BY <1>2, <1>3, <1>7 DEF Imports
  <2>1. n \in stored \/ (e \in open[r] /\ n[2] <= cursor[r][e])
    BY <1>1, <1>3 DEF Imports
  <2>2. n \in Message /\ n[2] \in Nat /\ n = <<e, n[2]>>
    BY MessageHas DEF Listing
  <2>3. CASE n \in stored
    BY <2>3 DEF Stores
  <2>4. CASE n = m
    BY <2>4 DEF Stores
  <2>5. CASE n \notin stored /\ n # m
    <3>1. e \in open[r] /\ n[2] <= cursor[r][e]
      BY <2>1, <2>5
    <3>2. CASE e = d
      <4>1. n[2] # cursor[r][d]
        BY <2>2, <2>5, <3>2 DEF Stores
      <4> QED
        BY <1>4, <1>5, <2>2, <3>1, <3>2, <4>1
    <3>3. CASE e # d
      BY <1>5, <3>1, <3>3
    <3> QED
      BY <3>2, <3>3
  <2> QED
    BY <2>3, <2>4, <2>5
<1> QED
  BY <1>3, <1>6, <1>8

-----------------------------------------------------------------------------
(* Every step *)

LEMMA StepsKeep == ASSUME Inv, NEW r \in Runs, Steps(r) PROVE Inv'
<1>1. TypeOK /\ Place(r)
  BY DEF Inv
<1>2. TypeOK' /\ Aside(r)
  BY <1>1, StepsTyped, StepsAside
<1>3. ASSUME Place(r)' /\ Imports(r)' /\ stored' = stored PROVE Inv'
  <2>1. \A s \in Runs : Place(s)' /\ Imports(s)'
    BY <1>2, <1>3, AsideKeeps
  <2> QED
    BY <1>2, <2>1 DEF Inv
<1>4. CASE Insert(r)
  <2>1. Place(r)' /\ Imports(r)' /\ platform' = "facebook"
    BY <1>4, InsertStep
  <2>2. \A s \in Runs : Place(s)' /\ Imports(s)'
    BY <1>2, <2>1, AsideKeeps
  <2> QED
    BY <1>2, <2>1, <2>2 DEF Inv
<1>5. ASSUME NEW d \in Dialog, NEW m, Stores(r, d, m) PROVE Inv'
  <2>1. Place(r)' /\ Imports(r)' /\ platform = "telegram"
    BY <1>5, StoresStep
  <2>2. \A s \in Runs : Place(s)' /\ Imports(s)'
    BY <1>2, <2>1, AsideKeeps
  <2> QED
    BY <1>2, <2>2 DEF Inv
<1>6. ASSUME NEW d \in Dialog, StoreMessage(r, d) PROVE Inv'
  BY <1>3, <1>5, <1>6, StoreMessageIs, DropDialogStep
<1>7. ASSUME NEW d \in Dialog, Imported(r, d) PROVE Inv'
  BY <1>3, <1>7, ImportedStep
<1>8. CASE OpenDialog(r)
  BY <1>3, <1>8, OpenDialogStep
<1>9. CASE Conversation(r) \/ Conversations(r) \/ Fetch(r)
  BY <1>3, <1>9, DialogSteps
<1>10. CASE TryFails(r)
  BY <1>3, <1>10, TryFailsStep
<1>11. CASE DialogFails(r)
  <2>1. PICK d \in open[r] : DropDialog(r, d)
    BY <1>11 DEF DialogFails
  <2> QED
    BY <1>3, <2>1, DropDialogStep
<1>12. CASE Begin(r) \/ Succeed(r) \/ Catch(r) \/ BeginFails(r) \/ CatchFails(r)
            \/ TellSyncing(r) \/ TellSuccess(r) \/ TellFailed(r) \/ List(r) \/ AllImported(r)
  BY <1>3, <1>12, MarkSteps
<1> QED
  BY <1>4, <1>6, <1>7, <1>8, <1>9, <1>10, <1>11, <1>12 DEF Steps, Syncing, Faults

LEMMA CrashKeeps == ASSUME Inv, Crash PROVE Inv'
<1>1. /\ TypeOK /\ Forget(Running) /\ UNCHANGED <<platform, received, rows, status, shown>>
      /\ pc' = [r \in Runs |-> IF r \in Running THEN "lost" ELSE pc[r]]
      /\ disturbed' = TRUE
  BY DEF Inv, Crash
<1>2. TypeOK'
  BY <1>1, ForgetTyped DEF TypeOK, rows
<1>3. ASSUME NEW r \in Runs PROVE Place(r)' /\ Imports(r)'
  <2>1. CASE r \in Running
    <3>1. at'[r] = 1 /\ open'[r] = {} /\ dropped'[r] = {} /\ Imports(r)'
      BY <1>1, <2>1, Forgotten
    <3> QED
      BY <1>1, <2>1, <3>1 DEF Place
  <2>2. CASE r \notin Running
    <3>1. /\ at'[r] = at[r] /\ listed'[r] = listed[r]
          /\ cursor'[r] = cursor[r] /\ open'[r] = open[r] /\ dropped'[r] = dropped[r]
          /\ pc'[r] = pc[r] /\ platform' = platform /\ stored' = stored
      BY <1>1, <2>2, ForgetAside DEF rows
    <3>2. \A d : Listing(r, d)' = Listing(r, d)
      BY <3>1, ListingKept
    <3>3. Place(r) /\ Imports(r)
      BY DEF Inv
    <3> QED
      BY <3>1, <3>2, <3>3 DEF Place, Imports
  <2> QED
    BY <2>1, <2>2
<1> QED
  BY <1>2, <1>3 DEF Inv

LEMMA StillKeeps ==
    ASSUME Inv, (\E d \in Dialog : Receive(d)) \/ UNCHANGED vars PROVE Inv'
<1>1. /\ UNCHANGED <<platform, rows, marks, pc, work>>
      /\ received' \in Lengths
  <2>1. CASE UNCHANGED vars
    BY <2>1 DEF vars, rows, marks, work, Inv, TypeOK
  <2>2. ASSUME NEW d \in Dialog, Receive(d)
        PROVE  UNCHANGED <<platform, rows, marks, pc, work>> /\ received' \in Lengths
    <3>1. received \in [Dialog -> Nat] /\ \A e \in Dialog : received[e] <= MaxMessages[e]
      BY DEF Inv, TypeOK, Lengths
    <3>2. received[d] + 1 \in Nat /\ received[d] + 1 <= MaxMessages[d]
      BY <2>2, <3>1, DialogIs DEF Receive
    <3>3. received' = [received EXCEPT ![d] = received[d] + 1]
      BY <2>2 DEF Receive
    <3>4. received' \in Lengths
      BY <3>1, <3>2, <3>3 DEF Lengths
    <3> QED
      BY <2>2, <3>4 DEF Receive
  <2> QED
    BY <2>1, <2>2
<1>2. TypeOK'
  BY <1>1 DEF Inv, TypeOK, rows, marks, work
<1>3. ASSUME NEW r \in Runs PROVE Place(r)' /\ Imports(r)'
  <2>1. Imports(r)'
    BY <1>1, WorkKept DEF Inv, rows
  <2> QED
    BY <1>1, <2>1 DEF Inv, Place, work
<1> QED
  BY <1>2, <1>3 DEF Inv

LEMMA NextInv == Inv /\ [Next]_vars => Inv'
BY StepsKeep, CrashKeeps, StillKeeps DEF Next, Steps

LEMMA InvAlways == Spec => []Inv
BY InitRuns, NextInv, PTL DEF Spec

(* Every variable keeps its type, through overlapping runs, rejected calls  *)
(* and the death of the service.                                            *)
THEOREM SyncTypeCorrect == Spec => []TypeOK
<1>1. Inv => TypeOK
  BY DEF Inv
<1> QED
  BY <1>1, InvAlways, PTL

(* 'success' means that all the run was given is stored, save for Telegram  *)
(* dialogs whose error the import swallowed.                                *)
THEOREM SuccessMeansComplete == Spec => []SuccessIsComplete
<1>1. Inv => SuccessIsComplete
  <2> SUFFICES ASSUME Inv, NEW r \in Runs, pc[r] \in {"tellSuccess", "success"}, NEW d \in Dialog
      PROVE  \/ platform = "facebook" /\ Listing(r, d) \subseteq stored
             \/ platform = "telegram" /\ Listing(r, d) \ Bare \subseteq stored
             \/ platform = "telegram" /\ d \in dropped[r]
    BY DEF SuccessIsComplete
  <2>1. Place(r) /\ Imports(r) /\ platform \in {"facebook", "telegram"}
    BY DEF Inv, TypeOK
  <2>2. CASE platform = "facebook"
    <3>1. d < at[r]
      BY <2>1, <2>2, DialogIs DEF Place, Dialog
    <3> QED
      BY <2>1, <2>2, <3>1 DEF Imports
  <2>3. CASE platform = "telegram"
    <3>1. open[r] = {}
      BY <2>1 DEF Place
    <3> QED
      BY <2>1, <2>3, <3>1 DEF Imports
  <2> QED
    BY <2>1, <2>2, <2>3
<1> QED
  BY <1>1, InvAlways, PTL

-----------------------------------------------------------------------------
(* The status *)

(* A page reads 'syncing' on account of a run that has yet to write the     *)
(* outcome, or was lost before it could.                                    *)
Owed == (Active \ {"tellSuccess", "tellFailed"}) \cup {"lost"}

SyncingInv == status = "syncing" => \E r \in Runs : pc[r] \in Owed

(* Of a page nothing has disturbed, at most one run is under way, and what  *)
(* it is about to push is what it wrote last.                               *)
ShownInv ==
    ~ disturbed =>
        /\ \A r, s \in Running : r = s
        /\ \A r \in Running :
             /\ pc[r] = "tellSyncing" => status = "syncing"
             /\ pc[r] = "tellSuccess" => status = "success"
             /\ pc[r] = "tellFailed" => status = "failed"
        /\ Running = {} => shown = status

(* What a step of r does to the status, and where it leaves the run. *)
Marks(r, t) ==
    \/ /\ pc[r] = "new" /\ t = "tellSyncing"
       /\ status' = "syncing" /\ disturbed' = (disturbed \/ Running # {}) /\ shown' = shown
    \/ /\ pc[r] = "succeed" /\ t = "tellSuccess" /\ status' = "success"
       /\ disturbed' = disturbed /\ shown' = shown
    \/ /\ pc[r] = "catch" /\ t = "tellFailed" /\ status' = "failed"
       /\ disturbed' = disturbed /\ shown' = shown
    \/ /\ status' = status /\ pc[r] = "tellSyncing" /\ t = "list"
       /\ disturbed' = disturbed \/ disturbed' = TRUE
    \/ /\ status' = status /\ pc[r] = "tellSuccess" /\ t = "success"
       /\ (shown' = "success" /\ disturbed' = disturbed) \/ disturbed' = TRUE
    \/ /\ status' = status /\ pc[r] = "tellFailed" /\ t = "failed"
       /\ (shown' = "failed" /\ disturbed' = disturbed) \/ disturbed' = TRUE
    \/ /\ pc[r] \in Trying /\ t \in Owed \cap Active /\ t # "tellSyncing"
       /\ status' \in {status, "success"} /\ disturbed' = disturbed /\ shown' = shown
    \/ t = "lost" /\ disturbed' = TRUE

LEMMA StepsMark == ASSUME Inv, NEW r \in Runs, Steps(r) PROVE Marks(r, pc'[r])
<1>1. /\ pc \in [Runs -> Active \cup {"new", "success", "failed", "lost"}]
      /\ open[r] # {} => pc[r] = "messages"
  BY DEF Inv, TypeOK, Place
<1>2. CASE Begin(r) \/ Succeed(r) \/ Catch(r)
  BY <1>1, <1>2 DEF Begin, Succeed, Catch, Step, Goto, Marks
<1>3. CASE TellSyncing(r) \/ TellSuccess(r) \/ TellFailed(r)
  BY <1>1, <1>3 DEF TellSyncing, TellSuccess, TellFailed, Tell, Step, Goto, Marks
<1>4. CASE BeginFails(r) \/ CatchFails(r)
  BY <1>1, <1>4 DEF BeginFails, CatchFails, Step, Goto, Marks
<1>5. CASE List(r) \/ Conversation(r) \/ Conversations(r) \/ Fetch(r) \/ Insert(r)
           \/ OpenDialog(r) \/ AllImported(r) \/ TryFails(r)
  BY <1>1, <1>5 DEF List, Conversation, Conversations, Fetch, Insert, OpenDialog, AllImported,
     TryFails, Step, Goto, Marks, marks, Owed, Active, Trying
<1>6. CASE DialogFails(r) \/ \E d \in Dialog : StoreMessage(r, d) \/ Imported(r, d)
  <2>1. pc' = pc /\ UNCHANGED marks /\ pc[r] = "messages"
    BY <1>1, <1>6 DEF DialogFails, StoreMessage, DropDialog, Imported
  <2> QED
    BY <2>1 DEF Marks, marks, Owed, Active, Trying
<1> QED
  BY <1>2, <1>3, <1>4, <1>5, <1>6 DEF Steps, Syncing, Faults

LEMMA SyncingKept ==
    ASSUME Inv, SyncingInv, NEW r \in Runs, Steps(r) PROVE SyncingInv'
<1>1. Marks(r, pc'[r]) /\ \A s \in Runs \ {r} : pc'[s] = pc[s]
  BY StepsMark, StepsAside DEF Inv, Aside
<1>2. CASE pc'[r] \in Owed
  BY <1>2 DEF SyncingInv
<1>3. CASE pc'[r] \notin Owed
  <2>1. status' # "syncing" \/ (status' = status /\ pc[r] \notin Owed)
    BY <1>1, <1>3 DEF Marks, Owed, Active, Trying
  <2> QED
    BY <1>1, <2>1 DEF SyncingInv
<1> QED
  BY <1>2, <1>3

LEMMA ShownKept ==
    ASSUME Inv, ShownInv, NEW r \in Runs, Steps(r) PROVE ShownInv'
<1> SUFFICES ASSUME ~ disturbed' PROVE ShownInv'
  BY DEF ShownInv
<1>1. Marks(r, pc'[r]) /\ \A s \in Runs \ {r} : pc'[s] = pc[s]
  BY StepsMark, StepsAside DEF Inv, Aside
<1>2. ~ disturbed
  BY <1>1, Zenon DEF Marks
<1>3. \A s \in Running : s = r
  <2>1. CASE pc[r] \in Active
    BY <1>2, <2>1 DEF ShownInv, Running
  <2>2. CASE pc[r] \notin Active
    <3>1. Running = {}
      BY <1>1, <2>2 DEF Marks, Active, Trying
    <3> QED
      BY <3>1
  <2> QED
    BY <2>1, <2>2
<1>4. Running' \subseteq {r}
  BY <1>1, <1>3 DEF Running
<1>5. /\ pc'[r] = "tellSyncing" => status' = "syncing"
      /\ pc'[r] = "tellSuccess" => status' = "success"
      /\ pc'[r] = "tellFailed" => status' = "failed"
  BY <1>1 DEF Marks, Owed, Active, Trying
<1>6. ASSUME Running' = {} PROVE shown' = status'
  <2>1. pc'[r] \notin Active
    BY <1>6 DEF Running
  <2>2. /\ status' = status
        /\ \/ pc[r] = "tellSuccess" /\ shown' = "success"
           \/ pc[r] = "tellFailed" /\ shown' = "failed"
    BY <1>1, <2>1 DEF Marks, Owed, Active, Trying
  <2>3. r \in Running
    BY <2>2 DEF Running, Active, Trying
  <2> QED
    BY <1>2, <2>2, <2>3 DEF ShownInv
<1> QED
  BY <1>4, <1>5, <1>6 DEF ShownInv

LEMMA StatusAlways == Spec => [](Inv /\ SyncingInv /\ ShownInv)
<1>1. Init => SyncingInv /\ ShownInv
  BY DEF Init, SyncingInv, ShownInv, Running, Active, Trying
<1>2. Inv /\ SyncingInv /\ ShownInv /\ [Next]_vars => SyncingInv' /\ ShownInv'
  <2> SUFFICES ASSUME Inv, SyncingInv, ShownInv, [Next]_vars PROVE SyncingInv' /\ ShownInv'
    OBVIOUS
  <2>1. ASSUME NEW r \in Runs, Steps(r) PROVE SyncingInv' /\ ShownInv'
    BY <2>1, SyncingKept, ShownKept
  <2>2. CASE Crash
    BY <2>2 DEF Crash, SyncingInv, ShownInv, Owed, Running
  <2>3. CASE (\E d \in Dialog : Receive(d)) \/ UNCHANGED vars
    BY <2>3 DEF Receive, vars, marks, SyncingInv, ShownInv, Running
  <2> QED
    BY <2>1, <2>2, <2>3 DEF Next, Steps
<1> QED
  BY <1>1, <1>2, InitRuns, NextInv, PTL DEF Spec

(* A page reads 'syncing' only while a run is under way or after one was    *)
(* lost, however many runs overlap.                                         *)
THEOREM SyncingMeansRun == Spec => []SyncingHasRun
<1>1. SyncingInv => SyncingHasRun
  BY DEF SyncingInv, SyncingHasRun, Owed, Running
<1> QED
  BY <1>1, StatusAlways, PTL

(* With no overlap and no lost push the screens end on the row's status. *)
THEOREM ScreensShowStatus == Spec => []ShownIsStatus
<1>1. ShownInv => ShownIsStatus
  BY DEF ShownInv, ShownIsStatus
<1> QED
  BY <1>1, StatusAlways, PTL

-----------------------------------------------------------------------------
(* The import, as Import has it *)

(* Of a dialog a run has not come to it has been given nothing. *)
Fresh(r) ==
    \A d \in Dialog : listed[r][d] # 0 =>
        \/ pc[r] \in {"succeed", "tellSuccess", "success"}
        \/ pc[r] = "insert" /\ d <= at[r]
        \/ pc[r] \in {"conversation", "fetch"} /\ platform = "facebook" /\ d < at[r]
        \/ pc[r] = "messages" /\ d < at[r]

(* A listing of one more dialog: the other listings stay. *)
LEMMA Lists ==
    ASSUME TypeOK, NEW r \in Runs, at[r] \in Dialog,
           listed' = [listed EXCEPT ![r][at[r]] = received[at[r]]]
    PROVE  /\ listed'[r][at[r]] = received[at[r]]
           /\ \A e \in Dialog : e # at[r] => listed'[r][e] = listed[r][e]
<1>1. PICK d \in Dialog, n \in Nat : d = at[r] /\ n = received[d] /\ n <= MaxMessages[d]
  BY Typed
<1>2. listed' = [listed EXCEPT ![r][d] = n] /\ listed \in [Runs -> Lengths]
  BY <1>1, Typed
<1>3. listed'[r][d] = n
  BY <1>1, <1>2 DEF Lengths
<1>4. \A e \in Dialog : e # d => listed'[r][e] = listed[r][e]
  BY <1>1, <1>2, LengthsSet
<1> QED
  BY <1>1, <1>3, <1>4

LEMMA FreshForgotten ==
    ASSUME TypeOK, NEW S, Forget(S), NEW r \in Runs, r \in S
    PROVE  Fresh(r)' /\ \A d \in Dialog : listed'[r][d] = 0
BY DEF Forget, Fresh

LEMMA FreshKept ==
    ASSUME NEW r, Fresh(r), platform' = platform, listed'[r] = listed[r], at'[r] = at[r],
           pc'[r] = pc[r]
    PROVE  Fresh(r)'
BY DEF Fresh

LEMMA FreshStep ==
    ASSUME Inv, NEW r \in Runs, Fresh(r), Steps(r)
    PROVE  Fresh(r)'
<1>1. /\ TypeOK /\ Place(r) /\ at[r] \in Nat /\ at \in [Runs -> 1 .. Dialogs + 1]
      /\ pc \in [Runs -> Active \cup {"new", "success", "failed", "lost"}]
      /\ platform \in {"facebook", "telegram"} /\ Dialog \subseteq Nat
  BY Typed, DialogIs DEF Inv, TypeOK
<1>2. CASE TryFails(r)
  BY <1>1, <1>2, FreshForgotten DEF TryFails
<1>3. ASSUME NEW d, StoreMessage(r, d) \/ Imported(r, d) \/ DropDialog(r, d)
      PROVE  Fresh(r)'
  <2>1. UNCHANGED <<platform, listed, at, pc>>
    BY <1>3 DEF StoreMessage, Imported, DropDialog
  <2> QED
    BY <2>1, FreshKept
<1>4. CASE OpenDialog(r)
  <2>1. /\ pc' = pc /\ pc[r] = "messages" /\ at[r] \in Dialog /\ at'[r] = at[r] + 1
        /\ listed' = [listed EXCEPT ![r][at[r]] = received[at[r]]]
    BY <1>1, <1>4 DEF OpenDialog
  <2>2. \A e \in Dialog : e # at[r] => listed'[r][e] = listed[r][e]
    BY <1>1, <2>1, Lists
  <2> QED
    BY <1>1, <2>1, <2>2 DEF Fresh
<1>5. CASE Fetch(r)
  <2>1. /\ pc'[r] = "insert" /\ pc[r] = "fetch" /\ at' = at /\ platform' = platform
        /\ listed' = [listed EXCEPT ![r][at[r]] = received[at[r]]] /\ at[r] \in Dialog
    BY <1>1, <1>5 DEF Fetch, Step, Goto, Place
  <2>2. \A e \in Dialog : e # at[r] => listed'[r][e] = listed[r][e]
    BY <1>1, <2>1, Lists
  <2> QED
    BY <1>1, <2>1, <2>2 DEF Fresh
<1>6. CASE Insert(r)
  <2>1. /\ pc'[r] = "conversation" /\ pc[r] = "insert" /\ at'[r] = at[r] + 1
        /\ platform' = platform /\ listed' = listed /\ platform = "facebook"
    BY <1>1, <1>6 DEF Insert, Step, Goto, Place
  <2> QED
    BY <1>1, <2>1 DEF Fresh
<1>7. CASE Conversation(r)
  <2>1. /\ pc[r] = "conversation" /\ platform' = platform /\ listed' = listed
        /\ \/ platform = "facebook" /\ pc'[r] = "fetch" /\ at' = at
           \/ platform = "telegram" /\ pc' = pc
    BY <1>1, <1>7 DEF Conversation, Step, Goto
  <2> QED
    BY <1>1, <2>1 DEF Fresh
<1>8. CASE Conversations(r)
  <2>1. /\ pc[r] = "conversation" /\ platform' = platform /\ listed' = listed
        /\ \/ platform = "facebook" /\ pc'[r] = "succeed"
           \/ platform = "telegram" /\ pc'[r] = "messages"
    BY <1>1, <1>8 DEF Conversations, Step, Goto
  <2> QED
    BY <1>1, <2>1 DEF Fresh
<1>9. CASE Begin(r) \/ Succeed(r) \/ Catch(r) \/ BeginFails(r) \/ CatchFails(r)
           \/ TellSyncing(r) \/ TellSuccess(r) \/ TellFailed(r) \/ List(r) \/ AllImported(r)
  <2>1. /\ UNCHANGED <<platform, listed, at>>
        /\ \/ pc[r] \in {"new", "tellSyncing", "list", "catch", "tellFailed"}
           \/ pc'[r] \in {"succeed", "tellSuccess", "success"}
    BY <1>1, <1>9 DEF Begin, Succeed, Catch, BeginFails, CatchFails, TellSyncing, TellSuccess,
       TellFailed, Tell, List, AllImported, work, Step, Goto
  <2> QED
    BY <2>1 DEF Fresh
<1> QED
  BY <1>2, <1>3, <1>4, <1>5, <1>6, <1>7, <1>8, <1>9 DEF Steps, Syncing, Faults, DialogFails

HistoryInv == Inv /\ \A r \in Runs : Fresh(r)

LEMMA HistoryInvStep == HistoryInv /\ [Next]_vars => HistoryInv'
<1> SUFFICES ASSUME HistoryInv, [Next]_vars, NEW s \in Runs PROVE Fresh(s)'
  BY NextInv DEF HistoryInv
<1>1. Inv /\ TypeOK /\ Fresh(s)
  BY DEF HistoryInv, Inv
<1>2. ASSUME NEW r \in Runs, Steps(r) PROVE Fresh(s)'
  <2>1. CASE s = r
    BY <1>1, <1>2, <2>1, FreshStep
  <2>2. CASE s # r
    BY <1>1, <1>2, <2>2, StepsAside, FreshKept DEF Aside
  <2> QED
    BY <2>1, <2>2
<1>3. CASE Crash
  <2>1. Forget(Running) /\ platform' = platform
    BY <1>3 DEF Crash
  <2>2. CASE s \in Running
    BY <1>1, <2>1, <2>2, FreshForgotten
  <2>3. CASE s \notin Running
    BY <1>1, <1>3, <2>1, <2>3, ForgetAside, FreshKept DEF Crash
  <2> QED
    BY <2>2, <2>3
<1>4. CASE (\E d \in Dialog : Receive(d)) \/ UNCHANGED vars
  BY <1>1, <1>4, FreshKept DEF Receive, vars, work
<1> QED
  BY <1>2, <1>3, <1>4 DEF Next, Steps

LEMMA HistoryInvAlways == Spec => []HistoryInv
<1>1. Init => HistoryInv
  BY InitRuns DEF Init, HistoryInv, Fresh
<1> QED
  BY <1>1, HistoryInvStep, PTL DEF Spec

(* The phase of a run, by its place in the code. *)
LEMMA PhaseIs ==
    ASSUME NEW r
    PROVE  /\ pc[r] = "new" => Phase(r) = "new"
           /\ pc[r] \in {"tellSyncing", "list", "conversation", "fetch", "insert", "messages",
                         "succeed"} => Phase(r) = "working"
           /\ pc[r] = "tellSuccess" => Phase(r) = "declared"
           /\ pc[r] = "catch" => Phase(r) = "failing"
           /\ pc[r] \in {"tellFailed", "success", "failed", "lost"} => Phase(r) = "ended"
BY DEF Phase, Trying

LEMMA PhaseNext ==
    ASSUME NEW r
    PROVE  /\ pc'[r] \in {"tellSyncing", "list", "conversation", "fetch", "insert", "messages",
                          "succeed"} => Phase(r)' = "working"
           /\ pc'[r] = "tellSuccess" => Phase(r)' = "declared"
           /\ pc'[r] = "catch" => Phase(r)' = "failing"
           /\ pc'[r] \in {"tellFailed", "success", "failed", "lost"} => Phase(r)' = "ended"
           /\ pc'[r] = pc[r] => Phase(r)' = Phase(r)
BY DEF Phase, Trying

LEMMA DueKept ==
    ASSUME NEW r, platform' = platform, listed'[r] = listed[r], dropped'[r] = dropped[r]
    PROVE  Due(r)' = Due(r)
BY DEF Due, Listing

LEMMA DueIsNone ==
    ASSUME NEW r, \A d \in Dialog : listed[r][d] = 0 PROVE Due(r) = {}
BY MessageHas DEF Due, Listing

LEMMA DueBecomesNone ==
    ASSUME NEW r, \A d \in Dialog : listed'[r][d] = 0 PROVE Due(r)' = {}
BY MessageHas DEF Due, Listing

(* What a step of r leaves alone, as Import sees it. *)
Others(r) == \A s \in Runs \ {r} : Due(s)' = Due(s) /\ Phase(s)' = Phase(s)

LEMMA AsideOthers == ASSUME NEW r, Aside(r) PROVE Others(r)
BY DueKept, PhaseNext DEF Aside, Others

LEMMA PostedKept ==
    ASSUME received' = received
    PROVE  {m \in Message : m[2] <= received[m[1]]}' = {m \in Message : m[2] <= received[m[1]]}
OBVIOUS


LEMMA Functions ==
    ASSUME NEW r \in Runs, Others(r)
    PROVE  /\ [s \in Runs |-> Due(s)]' = [[s \in Runs |-> Due(s)] EXCEPT ![r] = Due(r)']
           /\ [s \in Runs |-> Phase(s)]' = [[s \in Runs |-> Phase(s)] EXCEPT ![r] = Phase(r)']
           /\ Due(r)' = Due(r) => [s \in Runs |-> Due(s)]' = [s \in Runs |-> Due(s)]
           /\ Phase(r)' = Phase(r) => [s \in Runs |-> Phase(s)]' = [s \in Runs |-> Phase(s)]
BY DEF Others

LEMMA Starts ==
    ASSUME NEW r \in Runs, Others(r), Due(r)' = Due(r), Phase(r) = "new",
           Phase(r)' \in {"working", "ended"}, status' = "syncing",
           UNCHANGED <<platform, received, stored>>
    PROVE  History!Start(r)
BY Functions, PostedKept DEF History!Start, History!Goto

LEMMA Takes ==
    ASSUME NEW r \in Runs, Others(r), Phase(r) = "working", Phase(r)' = Phase(r),
           UNCHANGED <<platform, received, stored, status>>,
           Due(r) \subseteq Due(r)',
           Due(r)' \subseteq Due(r) \cup {m \in Message : m[2] <= received[m[1]]}
    PROVE  History!Take(r)
BY Functions, PostedKept DEF History!Take

LEMMA Keeps ==
    ASSUME NEW r \in Runs, Others(r), Due(r)' = Due(r), Phase(r) = "working", Phase(r)' = Phase(r),
           UNCHANGED <<platform, received, status>>,
           stored \subseteq stored', stored' \subseteq stored \cup Due(r)
    PROVE  History!Keep(r)
BY Functions, PostedKept DEF History!Keep

LEMMA GivesUp ==
    ASSUME NEW r \in Runs, Others(r), Phase(r) = "working", Phase(r)' = Phase(r),
           platform = "telegram", UNCHANGED <<platform, received, stored, status>>,
           NEW d \in Dialog, Due(r)' = Due(r) \ {m \in Message : m[1] = d}
    PROVE  History!GiveUp(r, {m \in Message : m[1] = d})
BY Functions, PostedKept DEF History!GiveUp

LEMMA Declares ==
    ASSUME NEW r \in Runs, Others(r), Phase(r) = "working", Due(r) \subseteq stored,
           \/ Phase(r)' = "declared" /\ Due(r)' = Due(r)
           \/ Phase(r)' = "failing" /\ Due(r)' = {},
           status' = "success", UNCHANGED <<platform, received, stored>>
    PROVE  History!Declare(r)
BY Functions, PostedKept DEF History!Declare, History!Goto

LEMMA Finishes ==
    ASSUME NEW r \in Runs, Others(r), Due(r)' = Due(r), Phase(r) = "declared", Phase(r)' = "ended",
           UNCHANGED <<platform, received, stored, status>>
    PROVE  History!Finish(r)
BY Functions, PostedKept DEF History!Finish, History!Goto

LEMMA Breaks ==
    ASSUME NEW r \in Runs, Others(r), Phase(r) \in {"working", "declared"}, Phase(r)' = "failing",
           Due(r)' = {}, UNCHANGED <<platform, received, stored, status>>
    PROVE  History!Break(r)
BY Functions, PostedKept DEF History!Break, History!Goto

LEMMA Fails ==
    ASSUME NEW r \in Runs, Others(r), Due(r)' = Due(r), Phase(r) = "failing", Phase(r)' = "ended",
           status' \in {status, "failed"}, UNCHANGED <<platform, received, stored>>
    PROVE  History!Fail(r)
BY Functions, PostedKept DEF History!Fail, History!Goto

LEMMA Dies ==
    ASSUME NEW R \in SUBSET Runs, \A s \in R : Phase(s) \in {"working", "declared", "failing"},
           \A s \in R : Phase(s)' = "ended" /\ Due(s)' = {},
           \A s \in Runs \ R : Phase(s)' = Phase(s) /\ Due(s)' = Due(s),
           UNCHANGED <<platform, received, stored, status>>
    PROVE  History!Die(R)
BY PostedKept DEF History!Die, History!UnderWay

LEMMA Stutters ==
    ASSUME \A s \in Runs : Phase(s)' = Phase(s) /\ Due(s)' = Due(s),
           UNCHANGED <<platform, received, stored, status>>
    PROVE  UNCHANGED History!import
BY PostedKept DEF History!import


LEMMA DueTaken ==
    ASSUME TypeOK, NEW r \in Runs, at[r] \in Dialog, listed[r][at[r]] = 0,
           listed' = [listed EXCEPT ![r][at[r]] = received[at[r]]],
           platform' = platform, dropped' = dropped
    PROVE  /\ Due(r) \subseteq Due(r)'
           /\ Due(r)' \subseteq Due(r) \cup {m \in Message : m[2] <= received[m[1]]}
<1>1. /\ listed'[r][at[r]] = received[at[r]]
      /\ \A e \in Dialog : e # at[r] => listed'[r][e] = listed[r][e]
  BY Lists
<1>2. ASSUME NEW m \in Due(r) PROVE m \in Due(r)'
  <2>1. m \in Message /\ m[1] \in Dialog /\ m[2] \in Nat \ {0} /\ m[2] <= listed[r][m[1]]
    BY <1>2, MessageHas DEF Due, Listing
  <2>2. m[1] # at[r]
    BY <2>1
  <2> QED
    BY <1>1, <1>2, <2>1, <2>2 DEF Due, Listing
<1>3. ASSUME NEW m \in Due(r)', m \notin Due(r) PROVE m \in Message /\ m[2] <= received[m[1]]
  <2>1. m \in Message /\ m[1] \in Dialog
    BY <1>3, MessageHas DEF Due
  <2>2. CASE m[1] = at[r]
    BY <1>1, <1>3, <2>1, <2>2 DEF Due, Listing
  <2>3. CASE m[1] # at[r]
    BY <1>1, <1>3, <2>1, <2>3 DEF Due, Listing
  <2> QED
    BY <2>2, <2>3
<1> QED
  BY <1>2, <1>3

(* A run that has come to its end has stored what it was given. *)
LEMMA DueIsStored ==
    ASSUME Inv, NEW r \in Runs, pc[r] = "succeed" PROVE Due(r) \subseteq stored
<1>1. TypeOK /\ Place(r) /\ Imports(r) /\ platform \in {"facebook", "telegram"}
  BY DEF Inv, TypeOK
<1> SUFFICES ASSUME NEW m \in Due(r) PROVE m \in stored
  OBVIOUS
<1>2. m[1] \in Dialog /\ m \in Listing(r, m[1])
  BY MessageHas DEF Due
<1>3. CASE platform = "facebook"
  <2>1. m[1] < at[r]
    BY <1>1, <1>2, <1>3, DialogIs DEF Place, Dialog
  <2> QED
    BY <1>1, <1>2, <1>3, <2>1 DEF Imports
<1>4. CASE platform = "telegram"
  <2>1. m[1] \notin dropped[r] /\ m \notin Bare
    BY <1>4 DEF Due
  <2>2. open[r] = {}
    BY <1>1 DEF Place
  <2> QED
    BY <1>1, <1>2, <1>4, <2>1, <2>2 DEF Imports
<1> QED
  BY <1>1, <1>3, <1>4

(* Every step of a run is a step of Import, or none. *)
Mapped == History!Next \/ UNCHANGED History!import

LEMMA MarksMapped ==
    ASSUME HistoryInv, NEW r \in Runs,
           Begin(r) \/ Succeed(r) \/ Catch(r) \/ BeginFails(r) \/ CatchFails(r)
           \/ TellSyncing(r) \/ TellSuccess(r) \/ TellFailed(r) \/ List(r) \/ AllImported(r)
    PROVE  Mapped
<1>1. /\ Inv /\ TypeOK /\ Fresh(r)
      /\ pc \in [Runs -> Active \cup {"new", "success", "failed", "lost"}]
  BY DEF HistoryInv, Inv, TypeOK
<1>2. UNCHANGED <<platform, received, stored, work>>
  BY DEF Begin, Succeed, Catch, BeginFails, CatchFails, TellSyncing, TellSuccess, TellFailed,
     Tell, List, AllImported, rows
<1>3. Others(r)
  BY <1>1, StepsAside, AsideOthers DEF Steps, Syncing, Faults
<1>4. Due(r)' = Due(r)
  BY <1>2, DueKept DEF work
<1>5. CASE Begin(r) \/ (BeginFails(r) /\ pc[r] = "new")
  <2>1. pc[r] = "new" /\ pc'[r] \in {"tellSyncing", "lost"} /\ status' = "syncing"
    BY <1>1, <1>5 DEF Begin, BeginFails, Step, Goto
  <2>2. Phase(r) = "new" /\ Phase(r)' \in {"working", "ended"}
    BY <2>1, PhaseIs, PhaseNext
  <2> QED
    BY <1>2, <1>3, <1>4, <2>1, <2>2, Starts DEF Mapped, History!Next
<1>6. CASE BeginFails(r) /\ pc[r] = "tellSyncing"
  <2>1. pc'[r] = "lost" /\ status' = status /\ \A s \in Runs \ {r} : pc'[s] = pc[s]
    BY <1>1, <1>6 DEF BeginFails, Step, Goto
  <2>2. Phase(r) = "working" /\ Phase(r)' = "ended"
    BY <1>6, <2>1, PhaseIs, PhaseNext
  <2>3. Due(r)' = {}
    BY <1>1, <1>2, <1>4, <1>6, DueIsNone DEF Fresh
  <2>4. History!Die({r})
    BY <1>2, <1>3, <2>1, <2>2, <2>3, Dies DEF Others
  <2> QED
    BY <2>4 DEF Mapped, History!Next
<1>7. CASE Succeed(r)
  <2>1. pc[r] = "succeed" /\ pc'[r] = "tellSuccess" /\ status' = "success"
    BY <1>1, <1>7 DEF Succeed, Step, Goto
  <2>2. Phase(r) = "working" /\ Phase(r)' = "declared" /\ Due(r) \subseteq stored
    BY <1>1, <2>1, PhaseIs, PhaseNext, DueIsStored
  <2> QED
    BY <1>2, <1>3, <1>4, <2>1, <2>2, Declares DEF Mapped, History!Next
<1>8. CASE TellSuccess(r)
  <2>1. pc[r] = "tellSuccess" /\ pc'[r] = "success" /\ status' = status
    BY <1>1, <1>8 DEF TellSuccess, Tell, Step, Goto
  <2>2. Phase(r) = "declared" /\ Phase(r)' = "ended"
    BY <2>1, PhaseIs, PhaseNext
  <2> QED
    BY <1>2, <1>3, <1>4, <2>1, <2>2, Finishes DEF Mapped, History!Next
<1>9. CASE Catch(r) \/ (CatchFails(r) /\ pc[r] = "catch")
  <2>1. pc[r] = "catch" /\ pc'[r] \in {"tellFailed", "lost"} /\ status' \in {status, "failed"}
    BY <1>1, <1>9 DEF Catch, CatchFails, Step, Goto
  <2>2. Phase(r) = "failing" /\ Phase(r)' = "ended"
    BY <2>1, PhaseIs, PhaseNext
  <2> QED
    BY <1>2, <1>3, <1>4, <2>1, <2>2, Fails DEF Mapped, History!Next
<1>10. CASE TellSyncing(r) \/ TellFailed(r) \/ List(r) \/ AllImported(r)
            \/ (CatchFails(r) /\ pc[r] = "tellFailed")
  <2>1. /\ status' = status
        /\ \/ /\ pc[r] \in {"tellSyncing", "list", "messages"}
              /\ pc'[r] \in {"list", "conversation", "succeed"}
           \/ pc[r] = "tellFailed" /\ pc'[r] = "failed"
    BY <1>1, <1>10 DEF TellSyncing, TellFailed, Tell, List, AllImported, CatchFails, marks, Step, Goto
  <2>2. Phase(r)' = Phase(r)
    BY <2>1, PhaseIs, PhaseNext
  <2> QED
    BY <1>2, <1>3, <1>4, <2>1, <2>2, Stutters DEF Mapped, Others
<1> QED
  BY <1>5, <1>6, <1>7, <1>8, <1>9, <1>10 DEF BeginFails, CatchFails, Step

LEMMA TryFailsMapped == ASSUME HistoryInv, NEW r \in Runs, TryFails(r) PROVE Mapped
<1>1. /\ Inv /\ TypeOK
      /\ pc \in [Runs -> Active \cup {"new", "success", "failed", "lost"}]
  BY DEF HistoryInv, Inv, TypeOK
<1>2. /\ pc[r] \in Trying \ {"messages"} /\ pc'[r] = "catch" /\ Forget({r})
      /\ UNCHANGED <<platform, received, stored>>
      /\ status' = status \/ (pc[r] = "succeed" /\ status' = "success")
  BY <1>1 DEF TryFails, Goto, rows
<1>3. Others(r)
  BY <1>1, StepsAside, AsideOthers DEF Steps, Faults
<1>4. Due(r)' = {}
  BY <1>1, <1>2, FreshForgotten, DueBecomesNone
<1>5. Phase(r) \in {"working", "declared"} /\ Phase(r)' = "failing"
  BY <1>2, PhaseIs, PhaseNext DEF Trying
<1>6. CASE status' = status
  BY <1>2, <1>3, <1>4, <1>5, <1>6, Breaks DEF Mapped, History!Next
<1>7. CASE pc[r] = "succeed" /\ status' = "success"
  <2>1. Phase(r) = "working" /\ Due(r) \subseteq stored
    BY <1>1, <1>7, PhaseIs, DueIsStored
  <2> QED
    BY <1>2, <1>3, <1>4, <1>5, <1>7, <2>1, Declares DEF Mapped, History!Next
<1> QED
  BY <1>2, <1>6, <1>7


LEMMA DialogsMapped ==
    ASSUME HistoryInv, NEW r \in Runs,
           Conversation(r) \/ Conversations(r) \/ Fetch(r) \/ Insert(r) \/ OpenDialog(r)
    PROVE  Mapped
<1>1. /\ Inv /\ TypeOK /\ Fresh(r) /\ Place(r) /\ at[r] \in Nat
      /\ pc \in [Runs -> Active \cup {"new", "success", "failed", "lost"}]
      /\ platform \in {"facebook", "telegram"}
  BY Typed DEF HistoryInv, Inv, TypeOK
<1>2. Others(r)
  BY <1>1, StepsAside, AsideOthers DEF Steps, Syncing
<1>3. /\ UNCHANGED <<platform, received, status, dropped>>
  BY DEF Conversation, Conversations, Fetch, Insert, OpenDialog, marks, rows
<1>4. /\ pc[r] \in {"conversation", "fetch", "insert", "messages"}
      /\ pc'[r] \in {"conversation", "fetch", "insert", "messages", "succeed"}
  BY <1>1 DEF Conversation, Conversations, Fetch, Insert, OpenDialog, Step, Goto
<1>5. Phase(r) = "working" /\ Phase(r)' = Phase(r)
  BY <1>4, PhaseIs, PhaseNext
<1>6. CASE Conversation(r) \/ Conversations(r)
  <2>1. listed' = listed /\ stored' = stored
    BY <1>6 DEF Conversation, Conversations, rows
  <2>2. Due(r)' = Due(r)
    BY <1>3, <2>1, DueKept
  <2> QED
    BY <1>2, <1>3, <1>5, <2>1, <2>2, Stutters DEF Mapped, Others
<1>7. CASE Fetch(r) \/ OpenDialog(r)
  <2>1. /\ at[r] \in Dialog /\ stored' = stored
        /\ listed' = [listed EXCEPT ![r][at[r]] = received[at[r]]]
        /\ \/ pc[r] = "fetch" /\ platform = "facebook"
           \/ pc[r] = "messages"
    BY <1>1, <1>7 DEF Fetch, OpenDialog, Step, Place, rows
  <2>2. listed[r][at[r]] = 0
    BY <1>1, <2>1 DEF Fresh
  <2>3. /\ Due(r) \subseteq Due(r)'
        /\ Due(r)' \subseteq Due(r) \cup {m \in Message : m[2] <= received[m[1]]}
    BY <1>1, <1>3, <2>1, <2>2, DueTaken
  <2> QED
    BY <1>2, <1>3, <1>5, <2>1, <2>3, Takes DEF Mapped, History!Next
<1>8. CASE Insert(r)
  <2>1. /\ platform = "facebook" /\ listed' = listed
        /\ stored' = stored \cup Listing(r, at[r])
    BY <1>1, <1>8 DEF Insert, Step, Place
  <2>2. Due(r)' = Due(r)
    BY <1>3, <2>1, DueKept
  <2>3. Listing(r, at[r]) \subseteq Due(r)
    BY <2>1 DEF Due, Listing
  <2> QED
    BY <1>2, <1>3, <1>5, <2>1, <2>2, <2>3, Keeps DEF Mapped, History!Next
<1> QED
  BY <1>6, <1>7, <1>8

LEMMA MessagesMapped ==
    ASSUME HistoryInv, NEW r \in Runs, NEW d \in Dialog,
           StoreMessage(r, d) \/ Imported(r, d) \/ (d \in open[r] /\ DropDialog(r, d))
    PROVE  Mapped
<1>1. Inv /\ TypeOK /\ Place(r)
  BY DEF HistoryInv, Inv
<1>2. d \in open[r] /\ pc[r] = "messages" /\ platform = "telegram" /\ d \notin dropped[r]
  BY <1>1 DEF StoreMessage, Imported, Place
<1>3. Others(r)
  BY <1>1, <1>2, StepsAside, AsideOthers DEF Steps, Syncing, Faults, DialogFails
<1>4. /\ UNCHANGED <<platform, received, status, pc, listed>>
  BY DEF StoreMessage, Imported, DropDialog, marks
<1>5. Phase(r) = "working" /\ Phase(r)' = Phase(r)
  BY <1>2, <1>4, PhaseIs, PhaseNext
<1>6. CASE DropDialog(r, d)
  <2>1. stored' = stored /\ dropped'[r] = dropped[r] \cup {d}
    BY <1>1, <1>6, Typed DEF DropDialog, rows
  <2>2. Due(r)' = Due(r) \ {m \in Message : m[1] = d}
    BY <1>2, <1>4, <2>1 DEF Due, Listing
  <2>3. History!GiveUp(r, {m \in Message : m[1] = d})
    BY <1>2, <1>3, <1>4, <1>5, <2>1, <2>2, GivesUp
  <2> QED
    BY <2>3 DEF Mapped, History!Next
<1>7. CASE Imported(r, d)
  <2>1. stored' = stored /\ Due(r)' = Due(r)
    BY <1>4, <1>7, DueKept DEF Imported, rows
  <2> QED
    BY <1>3, <1>4, <1>5, <2>1, Stutters DEF Mapped, Others
<1>8. ASSUME NEW m, Stores(r, d, m) PROVE Mapped
  <2>1. m \in Listing(r, d) /\ dropped' = dropped
        /\ stored' = IF m \in Bare THEN stored ELSE stored \cup {m}
    BY <1>8 DEF Stores
  <2>2. Due(r)' = Due(r)
    BY <1>4, <2>1, DueKept
  <2>3. m \notin Bare => m \in Due(r)
    BY <1>2, <2>1 DEF Due, Listing
  <2> QED
    BY <1>3, <1>4, <1>5, <2>1, <2>2, <2>3, Keeps DEF Mapped, History!Next
<1> QED
  BY <1>6, <1>7, <1>8, StoreMessageIs

LEMMA CrashMapped == ASSUME HistoryInv, Crash PROVE Mapped
<1> DEFINE R == {r \in Running : pc[r] # "tellFailed"}
<1>1. /\ TypeOK /\ Forget(Running) /\ UNCHANGED <<platform, received, stored, status>>
      /\ pc' = [r \in Runs |-> IF r \in Running THEN "lost" ELSE pc[r]]
      /\ \A s \in Runs : Fresh(s)
  BY DEF HistoryInv, Inv, Crash, rows
<1>2. ASSUME NEW s \in R
      PROVE  /\ Phase(s) \in {"working", "declared", "failing"}
             /\ Phase(s)' = "ended" /\ Due(s)' = {}
  <2>1. s \in Runs /\ s \in Running /\ pc'[s] = "lost"
    BY <1>1 DEF Running
  <2>2. Due(s)' = {}
    BY <1>1, <2>1, FreshForgotten, DueBecomesNone
  <2> QED
    BY <2>1, <2>2, PhaseIs, PhaseNext DEF Running, Active, Trying
<1>3. ASSUME NEW s \in Runs \ R PROVE Phase(s)' = Phase(s) /\ Due(s)' = Due(s)
  <2>1. CASE s \in Running
    <3>1. pc[s] = "tellFailed" /\ pc'[s] = "lost"
      BY <1>1, <2>1
    <3>2. Due(s)' = {}
      BY <1>1, <2>1, FreshForgotten, DueBecomesNone
    <3>3. Due(s) = {}
      BY <1>1, <3>1, DueIsNone DEF Fresh
    <3> QED
      BY <3>1, <3>2, <3>3, PhaseIs, PhaseNext
  <2>2. CASE s \notin Running
    <3>1. pc'[s] = pc[s] /\ listed'[s] = listed[s] /\ dropped'[s] = dropped[s]
      BY <1>1, <2>2, ForgetAside
    <3> QED
      BY <1>1, <3>1, DueKept, PhaseNext
  <2> QED
    BY <2>1, <2>2
<1>4. R \in SUBSET Runs
  BY DEF Running
<1> HIDE DEF R
<1>5. History!Die(R)
  BY <1>1, <1>2, <1>3, <1>4, Dies
<1> QED
  BY <1>4, <1>5 DEF Mapped, History!Next

LEMMA NextMapped == HistoryInv /\ [Next]_vars => [History!Next]_(History!import)
<1> SUFFICES ASSUME HistoryInv, [Next]_vars PROVE Mapped
  BY DEF Mapped
<1>1. ASSUME NEW r \in Runs, Steps(r) PROVE Mapped
  <2>1. ASSUME NEW d \in open[r], DropDialog(r, d) PROVE Mapped
    <3>1. d \in Dialog
      BY <2>1 DEF HistoryInv, Inv, TypeOK
    <3> QED
      BY <2>1, <3>1, MessagesMapped
  <2> QED
    BY <1>1, <2>1, MarksMapped, TryFailsMapped, DialogsMapped, MessagesMapped
       DEF Steps, Syncing, Faults, DialogFails
<1>2. ASSUME NEW d \in Dialog, Receive(d) PROVE Mapped
  <2>1. /\ UNCHANGED <<platform, stored, status, pc, listed, dropped>>
        /\ received' = [received EXCEPT ![d] = received[d] + 1]
    BY <1>2 DEF Receive, rows, marks, work
  <2>2. \A s \in Runs : Phase(s)' = Phase(s) /\ Due(s)' = Due(s)
    BY <2>1, DueKept, PhaseNext
  <2>3. ASSUME NEW m \in Message, m[2] <= received[m[1]] PROVE m[2] <= received'[m[1]]
    <3>1. /\ m[1] \in Dialog /\ m[2] \in Nat /\ received \in [Dialog -> Nat]
      BY MessageHas DEF HistoryInv, Inv, TypeOK, Lengths
    <3> QED
      BY <2>1, <2>3, <3>1
  <2>4. History!Post
    BY <2>1, <2>2, <2>3 DEF History!Post
  <2> QED
    BY <2>4 DEF Mapped, History!Next
<1>3. CASE UNCHANGED vars
  <2>1. UNCHANGED <<platform, received, stored, status, pc, listed, dropped>>
    BY <1>3 DEF vars, rows, marks, work
  <2> QED
    BY <2>1, DueKept, PhaseNext, Stutters DEF Mapped
<1> QED
  BY <1>1, <1>2, <1>3, CrashMapped DEF Next, Steps

(* The import of a page, with its loops, its workers, its rejected replies, *)
(* failing calls, overlapping runs and the death of the service, does what  *)
(* Import promises: it stores only what it was given, gives up only whole   *)
(* dialogs and only of Telegram, and says 'success' only with nothing owed. *)
THEOREM SyncKeepsHistory == Spec => KeepsHistory
<1>1. Init => History!Init
  <2> SUFFICES ASSUME Init PROVE History!Init
    OBVIOUS
  <2>1. \A r \in Runs : Due(r) = {} /\ Phase(r) = "new"
    BY DueIsNone, PhaseIs DEF Init
  <2>2. {m \in Message : m[2] <= received[m[1]]} = {}
    BY MessageHas DEF Init
  <2> QED
    BY <2>1, <2>2 DEF Init, History!Init
<1> QED
  BY <1>1, NextMapped, HistoryInvAlways, PTL DEF Spec, KeepsHistory, History!Spec

-----------------------------------------------------------------------------
(* What a run has yet to do *)

(* The stages of a run, the last one first. *)
Stage(l) ==
    CASE l = "tellSyncing" -> 8
      [] l = "list"        -> 7
      [] l \in {"conversation", "fetch", "insert"} -> 6
      [] l = "messages"    -> 5
      [] l = "succeed"     -> 4
      [] l = "tellSuccess" -> 3
      [] l = "catch"       -> 2
      [] l = "tellFailed"  -> 1
      [] OTHER             -> 0

Stages(r) == {n \in 1 .. 8 : n <= Stage(pc[r])}

(* The steps of the loop over the dialogs: 3 is the upsert of a conversation, *)
(* 2 the listing of a Facebook one, 1 the INSERT of that listing.             *)
Turns(r) ==
    {t \in Dialog \X (1 .. 3) :
        \/ pc[r] \in {"tellSyncing", "list"}
        \/ pc[r] \in {"conversation", "fetch", "insert"} /\ t[1] > at[r]
        \/ pc[r] = "conversation" /\ t[1] = at[r]
        \/ pc[r] = "fetch" /\ t[1] = at[r] /\ t[2] <= 2
        \/ pc[r] = "insert" /\ t[1] = at[r] /\ t[2] = 1}

(* The steps of the workers: a dialog is opened, its messages are stored or *)
(* passed over, and it is closed, which is the step 0.                      *)
Mails(r) ==
    {t \in Dialog \X Nat :
        \/ /\ pc[r] \in {"tellSyncing", "list", "conversation", "fetch", "insert"}
           /\ t[2] <= MaxMessages[t[1]] + 1
        \/ pc[r] = "messages" /\ t[1] >= at[r] /\ t[2] <= MaxMessages[t[1]] + 1
        \/ pc[r] = "messages" /\ t[1] \in open[r] /\ t[2] <= cursor[r][t[1]]}

Todo(r) == <<Stages(r), Turns(r), Mails(r)>>

Less(r) ==
    /\ Stages(r)' \subseteq Stages(r) /\ Turns(r)' \subseteq Turns(r) /\ Mails(r)' \subseteq Mails(r)
    /\ Todo(r)' # Todo(r)

LEMMA TodoKept ==
    ASSUME NEW r, pc'[r] = pc[r], at'[r] = at[r], open'[r] = open[r], cursor'[r] = cursor[r]
    PROVE  Todo(r)' = Todo(r)
BY DEF Todo, Stages, Turns, Mails

(* A run that leaves its loops for a later stage, or ends. *)
LEMMA LaterStage ==
    ASSUME NEW r, Stage(pc'[r]) < Stage(pc[r]), Stage(pc'[r]) \in 0 .. 8, Stage(pc[r]) \in 0 .. 8,
           Turns(r)' \subseteq Turns(r), Mails(r)' \subseteq Mails(r)
    PROVE  Less(r)
<1>1. Stage(pc[r]) \in Stages(r) /\ Stage(pc[r]) \notin Stages(r)' /\ Stages(r)' \subseteq Stages(r)
  BY DEF Stages
<1> QED
  BY <1>1 DEF Less, Todo

LEMMA NoTurns ==
    ASSUME NEW r, pc'[r] \notin {"tellSyncing", "list", "conversation", "fetch", "insert"}
    PROVE  Turns(r)' = {}
BY DEF Turns

LEMMA NoMails ==
    ASSUME NEW r, pc'[r] \notin {"tellSyncing", "list", "conversation", "fetch", "insert", "messages"}
    PROVE  Mails(r)' = {}
BY DEF Mails

LEMMA Ends ==
    ASSUME NEW r, pc[r] \in Active, pc'[r] \in {"catch", "tellFailed", "success", "failed", "lost"},
           pc'[r] = "catch" => pc[r] \in Trying, pc'[r] = "tellFailed" => pc[r] = "catch"
    PROVE  Less(r)
<1>1. Stage(pc'[r]) < Stage(pc[r]) /\ Stage(pc'[r]) \in 0 .. 8 /\ Stage(pc[r]) \in 0 .. 8
  BY DEF Stage, Active, Trying
<1>2. Turns(r)' = {} /\ Mails(r)' = {}
  BY NoTurns, NoMails
<1> QED
  BY <1>1, <1>2, LaterStage

LEMMA MarksLess ==
    ASSUME Inv, NEW r \in Running,
           Begin(r) \/ Succeed(r) \/ Catch(r) \/ BeginFails(r) \/ CatchFails(r)
           \/ TellSyncing(r) \/ TellSuccess(r) \/ TellFailed(r) \/ List(r) \/ AllImported(r)
           \/ TryFails(r)
    PROVE  Less(r)
<1>1. /\ TypeOK /\ r \in Runs /\ pc[r] \in Active
      /\ pc \in [Runs -> Active \cup {"new", "success", "failed", "lost"}]
  BY DEF Inv, TypeOK, Running
<1>2. CASE Catch(r) \/ BeginFails(r) \/ CatchFails(r) \/ TellSuccess(r) \/ TellFailed(r) \/ TryFails(r)
  <2>1. /\ pc'[r] \in {"catch", "tellFailed", "success", "failed", "lost"}
        /\ pc'[r] = "catch" => pc[r] \in Trying
        /\ pc'[r] = "tellFailed" => pc[r] = "catch"
    BY <1>1, <1>2 DEF Catch, BeginFails, CatchFails, TellSuccess, TellFailed, TryFails, Step, Goto
  <2> QED
    BY <1>1, <2>1, Ends
<1>3. CASE Succeed(r) \/ AllImported(r)
  <2>1. \/ pc[r] = "succeed" /\ pc'[r] = "tellSuccess"
        \/ pc[r] = "messages" /\ pc'[r] = "succeed"
    BY <1>1, <1>3 DEF Succeed, AllImported, Step, Goto
  <2>2. Stage(pc'[r]) < Stage(pc[r]) /\ Stage(pc'[r]) \in 0 .. 8 /\ Stage(pc[r]) \in 0 .. 8
    BY <2>1 DEF Stage
  <2>3. Turns(r)' = {} /\ Mails(r)' = {}
    BY <2>1, NoTurns, NoMails
  <2> QED
    BY <2>2, <2>3, LaterStage
<1>4. CASE TellSyncing(r) \/ List(r)
  <2>1. \/ pc[r] = "tellSyncing" /\ pc'[r] = "list"
        \/ pc[r] = "list" /\ pc'[r] = "conversation"
    BY <1>1, <1>4 DEF TellSyncing, List, Step, Goto
  <2>2. Stage(pc'[r]) < Stage(pc[r]) /\ Stage(pc'[r]) \in 0 .. 8 /\ Stage(pc[r]) \in 0 .. 8
    BY <2>1 DEF Stage
  <2>3. Turns(r)' \subseteq Turns(r) /\ Mails(r)' \subseteq Mails(r)
    BY <2>1 DEF Turns, Mails
  <2> QED
    BY <2>2, <2>3, LaterStage
<1>5. ~ Begin(r)
  BY <1>1 DEF Begin, Step, Active, Trying
<1> QED
  BY <1>2, <1>3, <1>4, <1>5

LEMMA TurnsLess ==
    ASSUME Inv, NEW r \in Runs, Conversation(r) \/ Conversations(r) \/ Fetch(r) \/ Insert(r)
    PROVE  Less(r)
<1>1. /\ TypeOK /\ at[r] \in Nat /\ Dialog \subseteq Nat /\ Place(r)
      /\ platform \in {"facebook", "telegram"}
      /\ pc \in [Runs -> Active \cup {"new", "success", "failed", "lost"}]
      /\ at \in [Runs -> 1 .. Dialogs + 1]
  BY Typed, DialogIs DEF Inv, TypeOK
<1>2. CASE Conversations(r)
  <2>1. pc[r] = "conversation" /\ pc'[r] \in {"succeed", "messages"} /\ open' = open /\ cursor' = cursor
    BY <1>1, <1>2 DEF Conversations, Step, Goto
  <2>2. Stage(pc'[r]) < Stage(pc[r]) /\ Stage(pc'[r]) \in 0 .. 8 /\ Stage(pc[r]) \in 0 .. 8
    BY <2>1 DEF Stage
  <2>3. Turns(r)' = {}
    BY <2>1, NoTurns
  <2>4. Mails(r)' \subseteq Mails(r)
    <3> SUFFICES ASSUME NEW t \in Mails(r)' PROVE t \in Mails(r)
      OBVIOUS
    <3>1. t[1] \in Dialog /\ t[2] \in Nat /\ t \in Dialog \X Nat
      BY DEF Mails
    <3>2. MaxMessages[t[1]] \in Nat /\ cursor[r][t[1]] \in Nat /\ cursor[r][t[1]] <= MaxMessages[t[1]]
      BY <1>1, <3>1, Typed, DialogIs
    <3>3. t[2] <= MaxMessages[t[1]] + 1
      BY <2>1, <3>1, <3>2 DEF Mails
    <3> QED
      BY <2>1, <3>1, <3>3 DEF Mails
  <2> QED
    BY <2>2, <2>3, <2>4, LaterStage
<1>3. CASE Conversation(r) \/ Fetch(r) \/ Insert(r)
  <2>1. /\ at[r] \in Dialog
        /\ \/ pc[r] = "conversation" /\ pc'[r] = "fetch" /\ at'[r] = at[r]
           \/ pc[r] = "conversation" /\ pc'[r] = "conversation" /\ at'[r] = at[r] + 1
           \/ pc[r] = "fetch" /\ pc'[r] = "insert" /\ at'[r] = at[r]
           \/ pc[r] = "insert" /\ pc'[r] = "conversation" /\ at'[r] = at[r] + 1
    BY <1>1, <1>3 DEF Conversation, Fetch, Insert, Step, Goto, Place
  <2>2. Stages(r)' = Stages(r)
    BY <2>1 DEF Stages, Stage
  <2>3. Mails(r)' = Mails(r)
    BY <2>1 DEF Mails
  <2>4. Turns(r)' \subseteq Turns(r)
    <3> SUFFICES ASSUME NEW t \in Turns(r)' PROVE t \in Turns(r)
      OBVIOUS
    <3>1. t[1] \in Nat /\ t[2] \in 1 .. 3 /\ t \in Dialog \X (1 .. 3)
      BY <1>1 DEF Turns
    <3> QED
      BY <1>1, <2>1, <3>1 DEF Turns
  <2>5. \E k \in 1 .. 3 : <<at[r], k>> \in Turns(r) /\ <<at[r], k>> \notin Turns(r)'
    <3>1. CASE pc[r] = "conversation"
      BY <1>1, <2>1, <3>1 DEF Turns
    <3>2. CASE pc[r] = "fetch"
      BY <1>1, <2>1, <3>2 DEF Turns
    <3>3. CASE pc[r] = "insert"
      BY <1>1, <2>1, <3>3 DEF Turns
    <3> QED
      BY <2>1, <3>1, <3>2, <3>3
  <2> QED
    BY <2>2, <2>3, <2>4, <2>5 DEF Less, Todo
<1> QED
  BY <1>2, <1>3


LEMMA OpenDialogLess == ASSUME Inv, NEW r \in Runs, OpenDialog(r) PROVE Less(r)
<1>1. /\ TypeOK /\ Place(r) /\ Dialog \subseteq Nat
  BY DialogIs DEF Inv
<1>2. PICK d \in Dialog, n \in Nat : d = at[r] /\ n = received[d] /\ n <= MaxMessages[d]
  BY <1>1, Typed DEF OpenDialog
<1>3. /\ pc[r] = "messages" /\ pc' = pc /\ at'[r] = d + 1 /\ d \in Nat
      /\ open'[r] = open[r] \cup {d} /\ MaxMessages[d] \in Nat
      /\ cursor' = [cursor EXCEPT ![r][d] = n] /\ cursor \in [Runs -> Lengths]
  BY <1>1, <1>2, Typed, DialogIs DEF OpenDialog
<1>4. cursor'[r][d] = n
  BY <1>2, <1>3 DEF Lengths
<1>5. \A e \in Dialog : e # d => cursor'[r][e] = cursor[r][e]
  BY <1>2, <1>3, LengthsSet
<1>6. Stages(r)' = Stages(r) /\ Turns(r)' = {}
  BY <1>3, NoTurns DEF Stages
<1>7. Mails(r)' \subseteq Mails(r)
  <2> SUFFICES ASSUME NEW t \in Mails(r)' PROVE t \in Mails(r)
    OBVIOUS
  <2>1. t[1] \in Dialog /\ t[1] \in Nat /\ t[2] \in Nat /\ t \in Dialog \X Nat
    BY <1>1 DEF Mails
  <2>2. CASE t[1] = d
    BY <1>2, <1>3, <1>4, <2>1, <2>2 DEF Mails
  <2>3. CASE t[1] # d
    BY <1>2, <1>3, <1>5, <2>1, <2>3 DEF Mails
  <2> QED
    BY <2>2, <2>3
<1>8. <<d, MaxMessages[d] + 1>> \in Mails(r) /\ <<d, MaxMessages[d] + 1>> \notin Mails(r)'
  BY <1>2, <1>3, <1>4 DEF Mails
<1> QED
  BY <1>6, <1>7, <1>8 DEF Less, Todo

(* A step of a worker on an open dialog, by what it does to its cursor. *)
LEMMA WorkerLess ==
    ASSUME Inv, NEW r \in Runs, NEW d \in open[r], NEW n \in Nat, n <= cursor[r][d],
           pc'[r] = pc[r], at'[r] = at[r],
           \A e \in Dialog : e # d => cursor'[r][e] = cursor[r][e],
           \A k \in Nat : d \in open'[r] /\ k <= cursor'[r][d] => k < n,
           open'[r] \subseteq open[r]
    PROVE  Less(r)
<1>1. /\ TypeOK /\ Place(r) /\ Dialog \subseteq Nat /\ d \in Dialog /\ cursor[r][d] \in Nat
      /\ pc[r] = "messages" /\ d < at[r] /\ at[r] \in Nat
  BY Typed, DialogIs DEF Inv, TypeOK, Place
<1>2. Stages(r)' = Stages(r) /\ Turns(r)' = {}
  BY <1>1, NoTurns DEF Stages
<1>3. Mails(r)' \subseteq Mails(r)
  <2> SUFFICES ASSUME NEW t \in Mails(r)' PROVE t \in Mails(r)
    OBVIOUS
  <2>1. t[1] \in Dialog /\ t[1] \in Nat /\ t[2] \in Nat /\ t \in Dialog \X Nat
    BY <1>1 DEF Mails
  <2>2. CASE t[1] = d
    <3>1. d \in open'[r] /\ t[2] <= cursor'[r][d]
      BY <1>1, <2>1, <2>2 DEF Mails
    <3>2. t[2] <= cursor[r][d]
      BY <1>1, <2>1, <3>1
    <3> QED
      BY <1>1, <2>1, <2>2, <3>2 DEF Mails
  <2>3. CASE t[1] # d
    BY <1>1, <2>1, <2>3 DEF Mails
  <2> QED
    BY <2>2, <2>3
<1>4. <<d, n>> \in Mails(r)
  BY <1>1 DEF Mails
<1>5. <<d, n>> \notin Mails(r)'
  <2>1. ~ (d \in open'[r] /\ n <= cursor'[r][d])
    OBVIOUS
  <2> QED
    BY <1>1, <2>1 DEF Mails
<1> QED
  BY <1>2, <1>3, <1>4, <1>5 DEF Less, Todo

LEMMA MailsLess ==
    ASSUME Inv, NEW r \in Runs, NEW d \in Dialog,
           StoreMessage(r, d) \/ Imported(r, d) \/ (d \in open[r] /\ DropDialog(r, d))
    PROVE  Less(r)
<1>1. TypeOK /\ Place(r) /\ d \in open[r] /\ cursor[r][d] \in Nat
  BY Typed DEF Inv, StoreMessage, Imported
<1>2. CASE Imported(r, d) \/ DropDialog(r, d)
  <2>1. /\ pc' = pc /\ at' = at /\ open'[r] = open[r] \ {d}
        /\ \A e \in Dialog : e # d => cursor'[r][e] = cursor[r][e]
    BY <1>1, <1>2, Closes DEF Imported, DropDialog
  <2> QED
    BY <1>1, <2>1, WorkerLess
<1>3. ASSUME NEW m, Stores(r, d, m) PROVE Less(r)
  <2>1. /\ pc' = pc /\ at' = at /\ open' = open
        /\ cursor' = [cursor EXCEPT ![r][d] = cursor[r][d] - 1] /\ cursor \in [Runs -> Lengths]
        /\ m[2] = cursor[r][d] /\ m \in Message
    BY <1>1, <1>3, Typed DEF Stores, Listing
  <2>2. cursor[r][d] - 1 \in Nat /\ cursor[r][d] - 1 <= MaxMessages[d]
    BY <1>1, <2>1, MessageHas, Typed, DialogIs
  <2>3. cursor'[r][d] = cursor[r][d] - 1
    BY <2>1, <2>2 DEF Lengths
  <2>4. \A e \in Dialog : e # d => cursor'[r][e] = cursor[r][e]
    BY <2>1, <2>2, LengthsSet
  <2> QED
    BY <1>1, <2>1, <2>2, <2>3, <2>4, WorkerLess
<1> QED
  BY <1>2, <1>3, StoreMessageIs

Bounded(r) == IsFiniteSet(Stages(r)) /\ IsFiniteSet(Turns(r)) /\ IsFiniteSet(Mails(r))

LEMMA TodoIsBounded == ASSUME TypeOK, NEW r \in Runs PROVE Bounded(r)
<1> DEFINE Of(d)  == {d} \X (0 .. MaxMessages[d] + 1)
           of     == [d \in Dialog |-> Of(d)]
           All    == {of[d] : d \in Dialog}
<1>1. IsFiniteSet(Dialog) /\ Dialogs \in Nat
  BY DialogIs, FS_Interval DEF Dialog
<1>2. IsFiniteSet(All)
  <2>1. of \in Surjection(Dialog, All)
    BY DEF Surjection
  <2> QED
    BY <1>1, <2>1, FS_Surjection
<1>3. ASSUME NEW T \in All PROVE IsFiniteSet(T)
  <2>1. PICK d \in Dialog : T = Of(d)
    BY <1>3
  <2>2. IsFiniteSet({d}) /\ 0 \in Int /\ MaxMessages[d] + 1 \in Int
    <3>1. IsFiniteSet({d})
      BY FS_Singleton, Zenon
    <3>2. 0 \in Int /\ MaxMessages[d] + 1 \in Int
      BY DialogIs
    <3> QED
      BY <3>1, <3>2
  <2>3. IsFiniteSet(0 .. MaxMessages[d] + 1)
    BY <2>2, FS_Interval
  <2> QED
    BY <2>1, <2>2, <2>3, FS_Product
<1>4. IsFiniteSet(UNION All)
  BY <1>2, <1>3, FS_UNION
<1>5. ASSUME NEW t \in Mails(r) PROVE t \in UNION All
  <2>1. /\ t \in Dialog \X Nat /\ t[1] \in Dialog /\ t[2] \in Nat
        /\ MaxMessages[t[1]] \in Nat /\ cursor[r][t[1]] \in Nat
        /\ cursor[r][t[1]] <= MaxMessages[t[1]]
    BY Typed, DialogIs DEF Mails
  <2>2. t[2] <= MaxMessages[t[1]] + 1
    BY <2>1 DEF Mails
  <2>3. t \in Of(t[1])
    BY <2>1, <2>2
  <2> QED
    BY <2>1, <2>3
<1> HIDE DEF All
<1>6. IsFiniteSet(Mails(r))
  BY <1>4, <1>5, FS_Subset
<1>7. IsFiniteSet(Turns(r))
  <2>1. \A S \in SUBSET Nat : (\A n \in S : n <= 3) => IsFiniteSet(S)
    BY FS_BoundedSetOfNaturals
  <2>2. IsFiniteSet(1 .. 3)
    BY <2>1
  <2>3. IsFiniteSet(Dialog \X (1 .. 3))
    BY <1>1, <2>2, FS_Product
  <2>4. Turns(r) \in SUBSET (Dialog \X (1 .. 3))
    BY DEF Turns
  <2> QED
    BY <2>3, <2>4, FS_Subset
<1>8. IsFiniteSet(Stages(r))
  <2>1. Stages(r) \in SUBSET Nat /\ \A n \in Stages(r) : n <= 8
    BY DEF Stages
  <2> QED
    BY <2>1, FS_BoundedSetOfNaturals
<1> QED
  BY <1>6, <1>7, <1>8 DEF Bounded

(* Each step of a run, a fault of its own included, leaves it less of the   *)
(* finitely much it has to do, and no step of another run and no message    *)
(* that arrives gives it more: every run ends after finitely many steps.    *)
THEOREM RunsWindUp ==
    Spec => /\ [](\A r \in Runs : Bounded(r))
            /\ [][\A r \in Running : Less(r) \/ (Todo(r)' = Todo(r) /\ ~ Steps(r))]_vars
<1>1. ASSUME Inv, [Next]_vars
      PROVE  [\A r \in Running : Less(r) \/ (Todo(r)' = Todo(r) /\ ~ Steps(r))]_vars
  <2> SUFFICES ASSUME NEW r \in Running, Next PROVE Less(r) \/ (Todo(r)' = Todo(r) /\ ~ Steps(r))
    BY <1>1
  <2>1. r \in Runs /\ pc[r] \in Active /\ TypeOK
    BY <1>1 DEF Running, Inv
  <2>2. CASE Steps(r)
    <3>1. ASSUME NEW d \in open[r], DropDialog(r, d) PROVE Less(r)
      <4>1. d \in Dialog
        BY <2>1, <3>1 DEF TypeOK
      <4> QED
        BY <1>1, <2>1, <3>1, <4>1, MailsLess
    <3> QED
      BY <1>1, <2>1, <2>2, <3>1, MarksLess, TurnsLess, OpenDialogLess, MailsLess
         DEF Steps, Syncing, Faults, DialogFails
  <2>3. ASSUME NEW s \in Runs, s # r, Steps(s) PROVE Todo(r)' = Todo(r)
    <3>1. Aside(s)
      BY <2>1, <2>3, StepsAside
    <3> QED
      BY <2>1, <2>3, <3>1, TodoKept DEF Aside
  <2>4. CASE Crash
    <3>1. pc'[r] = "lost"
      BY <2>1, <2>4 DEF Crash
    <3> QED
      BY <2>1, <3>1, Ends
  <2>5. ASSUME NEW d \in Dialog, Receive(d) PROVE Todo(r)' = Todo(r)
    BY <2>5, TodoKept DEF Receive, work
  <2> QED
    BY <2>2, <2>3, <2>4, <2>5 DEF Next, Steps
<1>2. Inv => \A r \in Runs : Bounded(r)
  BY TodoIsBounded DEF Inv
<1> QED
  BY <1>1, <1>2, InvAlways, PTL DEF Spec
=============================================================================
