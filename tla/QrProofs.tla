------------------------------ MODULE QrProofs ------------------------------
(***************************************************************************)
(* What holds of the QR login for any number of attempts, sessionIds and   *)
(* clashes between them.                                                   *)
(***************************************************************************)
EXTENDS QrLogin, TLAPS

(* A watcher has a client, and an attempt that waits for the answer of the  *)
(* gRPC call has connected its page.                                        *)
Working ==
    \A a \in Attempts :
        /\ pc[a] \in Handling \cup {"watch"} => watched[a] \in Attempts
        /\ pc[a] = "store" => <<watched[a], a>> \in connected

(* A final status was filed by an attempt that is through. *)
SettledByDone ==
    \A k \in Keys : entry[k].status \in Final =>
        \E a \in Attempts : Key[a] = k /\ pc[a] = "done"

IInv == TypeOK /\ Working /\ SuccessIsConnected /\ SettledByDone

-----------------------------------------------------------------------------
(* The steps, sorted by what they do to the map of sessions. *)

(* The attempt moves on and files nothing. *)
Quiet(a) ==
    \/ Begin(a) \/ Export(a) \/ ExportRefused(a) \/ CreateFails(a) \/ Scan(a)
    \/ Reexport(a) \/ Switch(a) \/ Import(a) \/ Me(a) \/ ConnectPage(a)

(* The attempt ends and files a final status. *)
Ending(a) ==
    /\ Goto(a, Handling \cup {"watch"}, "done")
    /\ \E s \in Final : Settle(a, s) /\ (s = "success" => pc[a] = "store")
    /\ UNCHANGED <<watched, connected>>

(* Every step is one of these. *)
LEMMA Steps ==
    ASSUME [Next]_vars
    PROVE  \/ \E a \in Attempts : Quiet(a) \/ Connect(a) \/ Disconnect(a) \/ Ending(a)
           \/ Crash
           \/ UNCHANGED vars
<1>1. ASSUME NEW a \in Attempts, Expire(a) \/ SwitchTimeout(a) \/ Store(a) \/ HandlerFails(a)
      PROVE  Ending(a)
  BY <1>1 DEF Expire, SwitchTimeout, Store, HandlerFails, Ending, Goto, Handling, Final
<1> QED
  BY <1>1 DEF Next, Answer, Quiet

(* The initial state satisfies the invariant. *)
LEMMA Initially ==
    ASSUME Init
    PROVE  IInv
BY QrAssumption DEF Init, IInv, TypeOK, Working, SuccessIsConnected, SettledByDone,
                    Entry, NoEntry, Final, Suspended, Creating, Handling

(* Every step keeps the invariant. *)
LEMMA Inductive ==
    ASSUME IInv, [Next]_vars
    PROVE  IInv'
<1> USE QrAssumption
<1>0. TypeOK /\ Working /\ SuccessIsConnected /\ SettledByDone
  BY DEF IInv
<1>1. ASSUME NEW a \in Attempts, Quiet(a)
      PROVE  IInv'
  <2>1. entry' = entry /\ connected \subseteq connected'
    BY <1>1 DEF Quiet, Begin, Export, ExportRefused, CreateFails, Scan, Reexport,
                Switch, Import, Me, ConnectPage
  <2>2. /\ pc[a] # "done"
        /\ \E to \in Suspended \cup {"done"} : pc' = [pc EXCEPT ![a] = to]
    BY <1>1 DEF Quiet, Begin, Export, ExportRefused, CreateFails, Scan, Reexport, Goto,
                Switch, Import, Me, ConnectPage, Suspended, Creating, Handling
  <2>3. watched' \in [Attempts -> Attempts \cup {Nobody}] /\ connected' \subseteq Attempts \X Attempts
    BY <1>0, <1>1 DEF Quiet, Begin, Export, ExportRefused, CreateFails, Scan, Reexport, Goto,
                Switch, Import, Me, ConnectPage, TypeOK, Working, Entry, NoEntry, Handling
  <2>4. TypeOK'
    BY <1>0, <2>1, <2>2, <2>3 DEF TypeOK
  <2>5. Working'
    BY <1>0, <1>1, <2>1 DEF Quiet, Begin, Export, ExportRefused, CreateFails, Scan, Reexport, Goto,
                Switch, Import, Me, ConnectPage, TypeOK, Working, Entry, NoEntry, Handling, Creating
  <2>6. SuccessIsConnected'
    BY <1>0, <2>1 DEF SuccessIsConnected
  <2>7. SettledByDone'
    BY <1>0, <2>1, <2>2 DEF SettledByDone, TypeOK
  <2> QED
    BY <2>4, <2>5, <2>6, <2>7 DEF IInv
<1>2. ASSUME NEW a \in Attempts, Connect(a) \/ Disconnect(a)
      PROVE  IInv'
  <2>1. \E new \in {NoEntry, [client |-> a, status |-> "waiting"]} :
          entry' = [entry EXCEPT ![Key[a]] = new]
    BY <1>2 DEF Connect, Disconnect, File
  <2>2. /\ pc[a] # "done"
        /\ \E to \in {"export", "done"} : pc' = [pc EXCEPT ![a] = to]
        /\ UNCHANGED <<watched, connected>>
    BY <1>2 DEF Connect, Disconnect, Goto
  <2>3. TypeOK'
    BY <1>0, <2>1, <2>2 DEF TypeOK, Entry, NoEntry, Suspended, Creating
  <2>4. Working'
    BY <1>0, <2>2 DEF Working, TypeOK, Handling
  <2>5. \A k \in Keys : entry'[k] = entry[k] \/ entry'[k].status \notin Final
    BY <1>0, <2>1 DEF TypeOK, NoEntry, Final
  <2>6. SuccessIsConnected'
    BY <1>0, <2>2, <2>5 DEF SuccessIsConnected, Final
  <2>7. SettledByDone'
    BY <1>0, <2>2, <2>5 DEF SettledByDone, TypeOK
  <2> QED
    BY <2>3, <2>4, <2>6, <2>7 DEF IInv
<1>3. ASSUME NEW a \in Attempts, Ending(a)
      PROVE  IInv'
  <2>1. PICK s \in Final : Settle(a, s) /\ (s = "success" => pc[a] = "store")
    BY <1>3 DEF Ending
  <2>2. /\ pc' = [pc EXCEPT ![a] = "done"]
        /\ UNCHANGED <<watched, connected>>
        /\ watched[a] \in Attempts
    BY <1>0, <1>3 DEF Ending, Goto, Working
  <2>3. entry' = [entry EXCEPT ![Key[a]] = [client |-> watched[a], status |-> s]]
    BY <2>1 DEF Settle, File
  <2>4. TypeOK'
    BY <1>0, <2>2, <2>3 DEF TypeOK, Entry
  <2>5. Working'
    BY <1>0, <2>2 DEF Working, TypeOK, Handling
  <2>6. SuccessIsConnected'
    BY <1>0, <2>1, <2>2, <2>3 DEF SuccessIsConnected, TypeOK, Working
  <2>7. SettledByDone'
    BY <1>0, <2>2, <2>3 DEF SettledByDone, TypeOK
  <2> QED
    BY <2>4, <2>5, <2>6, <2>7 DEF IInv
<1>4. ASSUME Crash
      PROVE  IInv'
  BY <1>0, <1>4 DEF Crash, IInv, TypeOK, Working, SuccessIsConnected, SettledByDone,
                    Entry, NoEntry, Final, Handling
<1>5. ASSUME UNCHANGED vars
      PROVE  IInv'
  BY <1>0, <1>5 DEF vars, IInv, TypeOK, Working, SuccessIsConnected, SettledByDone
<1> QED
  BY <1>1, <1>2, <1>3, <1>4, <1>5, Steps

(* The attempts of a sessionId that is used once are one attempt, and after *)
(* a final status that one is through: no step but a restart files again.   *)
LEMMA NothingAfterFinal ==
    ASSUME IInv, [Next]_vars
    PROVE  FinalStays
<1> USE QrAssumption
<1> SUFFICES ASSUME NEW k \in Keys, Alone(k), entry[k].status \in Final
             PROVE  entry'[k] \in {entry[k], NoEntry}
  BY DEF FinalStays
<1>0. TypeOK
  BY DEF IInv
<1>1. PICK a \in Attempts : Key[a] = k /\ pc[a] = "done"
  BY DEF IInv, SettledByDone
<1>2. ASSUME NEW b \in Attempts, Quiet(b)
      PROVE  entry' = entry
  BY <1>2 DEF Quiet, Begin, Export, ExportRefused, CreateFails, Scan, Reexport,
              Switch, Import, Me, ConnectPage
<1>3. ASSUME NEW b \in Attempts, Connect(b) \/ Disconnect(b) \/ Ending(b)
      PROVE  entry'[k] = entry[k]
  <2>1. pc[b] # "done" /\ \E new : entry' = [entry EXCEPT ![Key[b]] = new]
    BY <1>3 DEF Connect, Disconnect, Ending, Goto, File, Settle, Handling
  <2>2. Key[b] # k
    BY <1>1, <2>1 DEF Alone
  <2> QED
    BY <1>0, <2>1, <2>2 DEF TypeOK
<1>4. CASE Crash
  BY <1>4 DEF Crash
<1>5. CASE UNCHANGED vars
  BY <1>5 DEF vars
<1> QED
  BY <1>2, <1>3, <1>4, <1>5, Steps

-----------------------------------------------------------------------------
(* The invariant holds of every execution. *)
THEOREM Invariant == Spec => []IInv
<1> QED
  BY Initially, Inductive, PTL DEF Spec

(* Every reachable state of the QR login is well typed. *)
THEOREM TypeCorrect == Spec => []TypeOK
<1>1. IInv => TypeOK
  BY DEF IInv
<1> QED
  BY <1>1, Invariant, PTL

(* A session that reads "success" holds the client of a page that the       *)
(* fanpage service has connected (handleLoginSuccess).                      *)
THEOREM SuccessAlwaysConnected == Spec => []SuccessIsConnected
<1>1. IInv => SuccessIsConnected
  BY DEF IInv
<1> QED
  BY <1>1, Invariant, PTL

(* The first final status of a sessionId that one attempt uses stays until  *)
(* the gateway restarts (watchLoginResult).                                 *)
THEOREM FinalAlwaysKept == Spec => FinalIsKept
<1>1. IInv /\ [Next]_vars => [FinalStays]_vars
  BY NothingAfterFinal
<1> QED
  BY <1>1, Invariant, PTL DEF Spec, FinalIsKept

-----------------------------------------------------------------------------
(* What a watcher has yet to do: the awaits ahead of it, at most seven.     *)

Ahead(l) ==
    CASE l = "watch" -> 7 [] l = "reexport" -> 6 [] l = "switch" -> 5 [] l = "import" -> 4
      [] l = "me" -> 3 [] l = "grpc" -> 2 [] l = "store" -> 1

WindsUp(a) ==
    pc[a] \in Handling \cup {"watch"} /\ pc'[a] # pc[a] =>
        \/ pc'[a] \in Handling /\ Ahead(pc'[a]) < Ahead(pc[a])
        \/ pc'[a] \in {"done", "dead"} /\ entry'[Key[a]].status # "waiting"

LEMMA StepWindsUp ==
    ASSUME IInv, [Next]_vars, NEW a \in Attempts
    PROVE  WindsUp(a)
<1> USE QrAssumption
<1>1. /\ TypeOK /\ Key[a] \in Keys
      /\ \A b \in Attempts : pc[b] \in Handling \cup {"watch"} => watched[b] \in Attempts
  BY DEF IInv, Working
<1> SUFFICES ASSUME pc[a] \in Handling \cup {"watch"}, pc'[a] # pc[a] PROVE WindsUp(a)
  BY DEF WindsUp
<1>2. ASSUME NEW b \in Attempts, Quiet(b) PROVE WindsUp(a)
  <2>1. a = b
    BY <1>1, <1>2 DEF TypeOK, Quiet, Begin, Export, ExportRefused, CreateFails, Scan, Reexport,
       Switch, Import, Me, ConnectPage, Goto
  <2>2. Scan(a) \/ Reexport(a) \/ Switch(a) \/ Import(a) \/ Me(a) \/ ConnectPage(a)
    BY <1>2, <2>1 DEF Quiet, Begin, Export, ExportRefused, CreateFails, Goto, Creating, Handling
  <2>3. <<pc[a], pc'[a]>> \in {<<"watch", "reexport">>, <<"reexport", "me">>,
           <<"reexport", "switch">>, <<"switch", "import">>, <<"import", "me">>,
           <<"me", "grpc">>, <<"grpc", "store">>}
    BY <1>1, <2>2 DEF TypeOK, Scan, Reexport, Switch, Import, Me, ConnectPage, Goto
  <2> QED
    BY <2>3 DEF WindsUp, Ahead, Handling
<1>3. ASSUME NEW b \in Attempts, Connect(b) \/ Disconnect(b) PROVE FALSE
  BY <1>1, <1>3 DEF TypeOK, Connect, Disconnect, Goto, Handling
<1>4. ASSUME NEW b \in Attempts, Ending(b) PROVE WindsUp(a)
  <2>1. a = b /\ pc'[a] = "done"
    BY <1>1, <1>4 DEF TypeOK, Ending, Goto
  <2>2. PICK s \in Final : entry' = [entry EXCEPT ![Key[a]] = [client |-> watched[a], status |-> s]]
    BY <1>4, <2>1 DEF Ending, Settle, File
  <2>3. entry'[Key[a]].status = s
    BY <1>1, <2>2 DEF TypeOK
  <2> QED
    BY <2>1, <2>3 DEF WindsUp, Final
<1>5. CASE Crash
  <2>1. pc'[a] = "dead" /\ entry'[Key[a]] = NoEntry
    BY <1>1, <1>5 DEF Crash, Handling
  <2> QED
    BY <2>1 DEF WindsUp, NoEntry
<1>6. ~ UNCHANGED vars
  BY DEF vars
<1> QED
  BY <1>2, <1>3, <1>4, <1>5, <1>6, Steps

(* An attempt that watches goes through seven awaits at most, never back to *)
(* one that it has left, and when it stops, by whatever of the timer, the   *)
(* handler, its errors or a restart, no "waiting" stays under its key.      *)
THEOREM WatchersWindUp == Spec => [][\A a \in Attempts : WindsUp(a)]_vars
<1>1. IInv /\ [Next]_vars => [\A a \in Attempts : WindsUp(a)]_vars
  BY StepWindsUp
<1> QED
  BY <1>1, Invariant, PTL DEF Spec
=============================================================================
