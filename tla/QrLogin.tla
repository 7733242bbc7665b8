------------------------------ MODULE QrLogin ------------------------------
(***************************************************************************)
(* Connecting a Telegram account by QR code (gateway telegram.service.ts). *)
(*                                                                         *)
(* createQrLogin makes a client of its own, files it under the sessionId   *)
(* the browser chose, exports a login token and returns; what follows runs *)
(* in the background: a timer for the token's expiry races the update that *)
(* tells of the scan, and the handler of the update exports the token      *)
(* again, follows a migration to another data centre and connects the page *)
(* through gRPC.  The browser polls the map of sessions.  An attempt is a  *)
(* call of createQrLogin and names the client it makes; two attempts may   *)
(* have the same sessionId.                                                *)
(***************************************************************************)
EXTENDS Naturals

CONSTANTS
    Attempts,  \* calls of createQrLogin
    Keys,      \* sessionIds
    Key,       \* the sessionId of each attempt
    Nobody     \* no client

ASSUME QrAssumption == Key \in [Attempts -> Keys] /\ Nobody \notin Attempts

VARIABLES
    entry,     \* sessions: the client and the status filed under a key
    pc,        \* where each attempt is suspended
    watched,   \* the client whose updates an attempt watches
    connected  \* <<client, attempt>>: the page of the client's account was
               \* connected for the user of the attempt

vars == <<entry, pc, watched, connected>>

Final     == {"success", "expired", "need_password", "error"}
NoEntry   == [client |-> Nobody, status |-> "not_found"]
Entry     == [client : Attempts, status : Final \cup {"waiting"}] \cup {NoEntry}
Creating  == {"connect", "export", "disconnect"}
Handling  == {"reexport", "switch", "import", "me", "grpc", "store"}
Suspended == Creating \cup Handling \cup {"watch"}

TypeOK ==
    /\ entry \in [Keys -> Entry]
    /\ pc \in [Attempts -> Suspended \cup {"idle", "done", "dead"}]
    /\ watched \in [Attempts -> Attempts \cup {Nobody}]
    /\ connected \subseteq Attempts \X Attempts

Init ==
    /\ entry = [k \in Keys |-> NoEntry]
    /\ pc = [a \in Attempts |-> "idle"]
    /\ watched = [a \in Attempts |-> Nobody]
    /\ connected = {}

Goto(a, from, to) == pc[a] \in from /\ pc' = [pc EXCEPT ![a] = to]

(* sessions.set under the attempt's key. *)
File(a, client, status) ==
    entry' = [entry EXCEPT ![Key[a]] = [client |-> client, status |-> status]]

(* What the watcher of an attempt files names the client it watches. *)
Settle(a, status) == File(a, watched[a], status)

-----------------------------------------------------------------------------
(* createQrLogin *)

Begin(a) ==
    /\ Goto(a, {"idle"}, "connect")
    /\ UNCHANGED <<entry, watched, connected>>

Connect(a) ==
    /\ Goto(a, {"connect"}, "export")
    /\ File(a, a, "waiting")
    /\ UNCHANGED <<watched, connected>>

(* The token is exported, and the watcher takes whatever client the map     *)
(* then holds; without an entry there is nothing to watch.                  *)
Export(a) ==
    /\ LET found == entry[Key[a]]
       IN  /\ Goto(a, {"export"}, IF found = NoEntry THEN "done" ELSE "watch")
           /\ watched' = [watched EXCEPT ![a] = found.client]
    /\ UNCHANGED <<entry, connected>>

ExportRefused(a) ==
    /\ Goto(a, {"export"}, "disconnect")
    /\ UNCHANGED <<entry, watched, connected>>

Disconnect(a) ==
    /\ Goto(a, {"disconnect"}, "done")
    /\ entry' = [entry EXCEPT ![Key[a]] = NoEntry]
    /\ UNCHANGED <<watched, connected>>

(* Nothing catches a rejection: the request ends in 500, the entry stays.   *)
CreateFails(a) ==
    /\ Goto(a, Creating, "done")
    /\ UNCHANGED <<entry, watched, connected>>

-----------------------------------------------------------------------------
(* watchLoginResult: the timer and the update; each sets "settled" and      *)
(* removes the other, which is the attempt leaving "watch".                 *)

(* Mutant of Expire: the timer is neither cleared nor looks at settled. *)
ExpireUnsettled(a) ==
    /\ Goto(a, {"watch"} \cup Handling \cup {"done"}, "done")
    /\ watched[a] # Nobody
    /\ Settle(a, "expired")
    /\ UNCHANGED <<watched, connected>>

(* Mutant of Expire: the client is not filed again with the new status. *)
ExpireBare(a) ==
    /\ Goto(a, {"watch"}, "done")
    /\ File(a, Nobody, "expired")
    /\ UNCHANGED <<watched, connected>>

Expire(a) ==
    /\ Goto(a, {"watch"}, "done")
    /\ Settle(a, "expired")
    /\ UNCHANGED <<watched, connected>>

Scan(a) ==
    /\ Goto(a, {"watch"}, "reexport")
    /\ UNCHANGED <<entry, watched, connected>>

(* LoginTokenSuccess or LoginTokenMigrateTo. *)
Reexport(a) ==
    /\ \E next \in {"me", "switch"} : Goto(a, {"reexport"}, next)
    /\ UNCHANGED <<entry, watched, connected>>

Switch(a) ==
    /\ Goto(a, {"switch"}, "import")
    /\ UNCHANGED <<entry, watched, connected>>

(* Mutant of SwitchTimeout: _switchDC without Promise.race. *)
SwitchWaits(a) == pc[a] = "switch" /\ FALSE /\ UNCHANGED vars

(* _switchDC may never answer; Promise.race gives it 15 s. *)
SwitchTimeout(a) ==
    /\ Goto(a, {"switch"}, "done")
    /\ Settle(a, "error")
    /\ UNCHANGED <<watched, connected>>

Import(a) ==
    /\ Goto(a, {"import"}, "me")
    /\ UNCHANGED <<entry, watched, connected>>

(* Mutant of Me: the status is filed before the page is connected. *)
MeFilesSuccess(a) ==
    /\ Goto(a, {"me"}, "grpc")
    /\ Settle(a, "success")
    /\ UNCHANGED <<watched, connected>>

Me(a) ==
    /\ Goto(a, {"me"}, "grpc")
    /\ UNCHANGED <<entry, watched, connected>>

(* The fanpage service serves ConnectPageTelegram, *)
ConnectPage(a) ==
    /\ Goto(a, {"grpc"}, "store")
    /\ connected' = connected \cup {<<watched[a], a>>}
    /\ UNCHANGED <<entry, watched>>

(* and its answer reaches the gateway. *)
Store(a) ==
    /\ Goto(a, {"store"}, "done")
    /\ Settle(a, "success")
    /\ UNCHANGED <<watched, connected>>

(* A call rejects or has an unexpected result, also a gRPC call that was    *)
(* served; a rejection may say that the account has a second factor.        *)
HandlerFails(a) ==
    /\ Goto(a, Handling, "done")
    /\ \/ Settle(a, "error")
       \/ pc[a] # "switch" /\ Settle(a, "need_password")
    /\ UNCHANGED <<watched, connected>>

-----------------------------------------------------------------------------
(* The gateway dies: the map, the timers and the handlers are gone.         *)
Crash ==
    /\ \E a \in Attempts : pc[a] # "dead"
    /\ entry' = [k \in Keys |-> NoEntry]
    /\ pc' = [a \in Attempts |-> IF pc[a] = "idle" THEN "idle" ELSE "dead"]
    /\ UNCHANGED <<watched, connected>>

(* The calls that the code awaits without a timeout of its own. *)
Answer(a) ==
    \/ Reexport(a) \/ Import(a) \/ Me(a) \/ ConnectPage(a) \/ Store(a)
    \/ pc[a] # "switch" /\ HandlerFails(a)

Next ==
    \/ \E a \in Attempts :
         \/ Begin(a) \/ Connect(a) \/ Export(a) \/ ExportRefused(a)
         \/ Disconnect(a) \/ CreateFails(a)
         \/ Expire(a) \/ Scan(a) \/ Switch(a) \/ SwitchTimeout(a)
         \/ Answer(a) \/ HandlerFails(a)
    \/ Crash

Spec == Init /\ [][Next]_vars

(* Timers fire, and a call is answered or rejected in the end; a scan, and  *)
(* the answer of _switchDC, may never come.                                 *)
Fairness ==
    \A a \in Attempts :
        WF_vars(Expire(a)) /\ WF_vars(SwitchTimeout(a)) /\ WF_vars(Answer(a))

FairSpec == Spec /\ Fairness

-----------------------------------------------------------------------------
(* Properties *)

(* "success" is filed only after the gRPC call (handleLoginSuccess): the    *)
(* page of the client that is filed was connected for an attempt under this *)
(* key, whatever attempts share the key and whatever calls fail.            *)
SuccessIsConnected ==
    \A k \in Keys : entry[k].status = "success" =>
        \E a \in Attempts : Key[a] = k /\ <<entry[k].client, a>> \in connected

Alone(k) == \A a, b \in Attempts : Key[a] = k /\ Key[b] = k => a = b

FinalStays ==
    \A k \in Keys : Alone(k) /\ entry[k].status \in Final
                        => entry'[k] \in {entry[k], NoEntry}

(* "Only handled once" (the comment on settled): the timer, the handler of  *)
(* the update and its error paths race, and the first final status of a     *)
(* sessionId that is used once stays until the gateway restarts.            *)
FinalIsKept == [][FinalStays]_vars

(* An attempt that watches for the scan does not leave its session in       *)
(* "waiting": the timer, the handler or the 15 s limit on _switchDC settles *)
(* it, if every other awaited call is answered or rejected.                 *)
WatchedSettles ==
    \A a \in Attempts : pc[a] = "watch" ~> entry[Key[a]].status # "waiting"
=============================================================================
