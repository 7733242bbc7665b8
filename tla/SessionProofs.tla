--------------------------- MODULE SessionProofs ---------------------------
(***************************************************************************)
(* What holds of Session for every set of requests and every clock bound.  *)
(* The helpers that only name an assignment are always expanded.           *)
(***************************************************************************)
EXTENDS Session, TLAPS

USE DEF At, Begins, Goto, Decide, Answer, Continue

-----------------------------------------------------------------------------
(* Type correctness *)

LEMMA PairOfType ==
    ASSUME NEW c \in BOOLEAN, NEW t \in Nat
    PROVE  /\ Sign(c, t) \in Token
           /\ PairOf(Sign(c, t)) \in Pair
BY DEF Sign, PairOf, Token, Pair

LEMMA DevicesType == FirstDevice \in Pair /\ SecondDevice \in Pair
BY PairOfType DEF FirstDevice, SecondDevice

LEMMA InitTypeOK == Init => TypeOK
<1> SUFFICES ASSUME Init PROVE TypeOK
  OBVIOUS
<1>1. session \in Pair \cup {NoSession} /\ granted \subseteq Pair
  BY DevicesType DEF Init
<1>2. registered \in BOOLEAN /\ deleted \in BOOLEAN /\ online \in BOOLEAN
  BY Zenon DEF Init
<1>3. /\ lock \in Requests \cup {Free}
      /\ now \in Nat
      /\ pc \in [Requests -> Labels]
      /\ claim \in [Requests -> BOOLEAN]
      /\ hand \in [Requests -> Pair]
      /\ status \in [Requests -> Statuses]
  BY DevicesType DEF Init, Labels, Statuses
<1> QED
  BY <1>1, <1>2, <1>3 DEF TypeOK

LEMMA SignPairType ==
    ASSUME TypeOK, NEW r \in Requests, SignPair(r)
    PROVE  now' \in Nat /\ hand' \in [Requests -> Pair]
<1>1. PICK later \in {now, now + 1} :
        /\ now' = later
        /\ hand' = [hand EXCEPT ![r] = [access  |-> Sign(claim[r], now),
                                       refresh |-> Sign(claim[r], later)]]
  BY DEF SignPair
<1>2. /\ Sign(claim[r], now) \in Token
      /\ Sign(claim[r], later) \in Token
      /\ later \in Nat
  BY PairOfType DEF TypeOK
<1> QED
  BY <1>1, <1>2 DEF TypeOK, Pair

LEMMA LoginTypeOK ==
    ASSUME TypeOK, NEW r \in Requests,
           \/ LoginRefused(r) \/ LoginWrongPassword(r) \/ LoginFind(r)
           \/ LoginCheck(r) \/ LoginRevoke(r) \/ LoginStore(r) \/ LoginFlag(r)
           \/ LoginV1Find(r) \/ LoginV1Insert(r) \/ LoginV1Mark(r)
           \/ LoginV1Clear(r)
    PROVE  TypeOK'
<1> USE DEF TypeOK, Labels, Awaiting, Critical, Statuses, account
<1>0. SignPair(r) => now' \in Nat /\ hand' \in [Requests -> Pair]
  BY SignPairType
<1>1. CASE LoginRefused(r) \/ LoginWrongPassword(r) \/ LoginFind(r)
  BY <1>1 DEF LoginRefused, LoginWrongPassword, LoginFind
<1>2. CASE LoginCheck(r)
  BY <1>0, <1>2 DEF LoginCheck
<1>3. CASE LoginRevoke(r)
  BY <1>0, <1>3 DEF LoginRevoke
<1>4. CASE LoginStore(r)
  BY <1>4 DEF LoginStore
<1>5. CASE LoginFlag(r)
  BY <1>5 DEF LoginFlag
<1>6. CASE LoginV1Find(r)
  <2>1. claim' \in [Requests -> BOOLEAN] /\ pc' \in [Requests -> Labels]
    <3>1. CASE registered
      BY <1>6, <3>1 DEF LoginV1Find
    <3>2. CASE ~registered
      <4>1. /\ claim' = [claim EXCEPT ![r] = TRUE]
            /\ pc' = [pc EXCEPT ![r] = "insert"]
        BY <1>6, <3>2 DEF LoginV1Find
      <4>2. claim' \in [Requests -> BOOLEAN]
        BY <4>1, Zenon
      <4> QED
        BY <4>1, <4>2
    <3> QED
      BY <3>1, <3>2
  <2> QED
    BY <1>6, <2>1 DEF LoginV1Find
<1>7. CASE LoginV1Insert(r)
  <2>1. /\ registered' \in BOOLEAN
        /\ deleted' \in BOOLEAN
        /\ online' \in BOOLEAN
    BY <1>7, Zenon DEF LoginV1Insert
  <2>2. pc' \in [Requests -> Labels] /\ status' \in [Requests -> Statuses]
    BY <1>7 DEF LoginV1Insert
  <2> QED
    BY <1>7, <2>1, <2>2 DEF LoginV1Insert
<1>8. CASE LoginV1Mark(r)
  BY <1>8 DEF LoginV1Mark
<1>9. CASE LoginV1Clear(r)
  BY <1>0, <1>9 DEF LoginV1Clear
<1> QED
  BY <1>1, <1>2, <1>3, <1>4, <1>5, <1>6, <1>7, <1>8, <1>9

LEMMA LogoutTypeOK ==
    ASSUME TypeOK, NEW r \in Requests,
           \/ LogoutGuard(r) \/ LogoutOffline(r) \/ LogoutEnd(r)
           \/ SessionExpire(r)
    PROVE  TypeOK'
<1> USE DEF TypeOK, Labels, Awaiting, Critical, Statuses, account
<1>1. CASE LogoutGuard(r)
  BY <1>1 DEF LogoutGuard
<1>2. CASE LogoutOffline(r)
  BY <1>2 DEF LogoutOffline
<1>3. CASE LogoutEnd(r) \/ SessionExpire(r)
  BY <1>3 DEF LogoutEnd, SessionExpire
<1> QED
  BY <1>1, <1>2, <1>3

LEMMA RefreshTypeOK ==
    ASSUME TypeOK, NEW r \in Requests,
           \/ RefreshArrive(r) \/ RefreshLock(r) \/ RefreshWait(r)
           \/ RefreshGet(r) \/ RefreshForget(r) \/ RefreshSave(r)
           \/ RefreshUnlock(r)
    PROVE  TypeOK'
<1> USE DEF TypeOK, Labels, Awaiting, Critical, Statuses, account
<1>1. CASE RefreshArrive(r) \/ RefreshLock(r) \/ RefreshWait(r)
  BY <1>1 DEF RefreshArrive, RefreshLock, RefreshWait
<1>2. CASE RefreshGet(r)
  <2>1. [hand[r] EXCEPT !.access = Sign(hand[r].refresh.claim, now)] \in Pair
    BY DEF Pair, Token, Sign
  <2> QED
    BY <1>2, <2>1 DEF RefreshGet
<1>3. CASE RefreshForget(r) \/ RefreshSave(r) \/ RefreshUnlock(r)
  BY <1>3 DEF RefreshForget, RefreshSave, RefreshUnlock
<1> QED
  BY <1>1, <1>2, <1>3

LEMMA EnvironmentTypeOK ==
    ASSUME TypeOK,
           \/ \E r \in Requests : CallFails(r) \/ Crash(r)
           \/ SessionEvict \/ LockExpire \/ Tick
    PROVE  TypeOK'
BY ConstantsAssumption
   DEF TypeOK, Labels, Awaiting, Critical, Statuses, account, request,
       CallFails, Crash, SessionEvict, LockExpire, Tick

LEMMA NextTypeOK == TypeOK /\ [Next]_vars => TypeOK'
<1> SUFFICES ASSUME TypeOK, [Next]_vars PROVE TypeOK'
  OBVIOUS
<1>1. CASE UNCHANGED vars
  BY <1>1 DEF vars, account, request, TypeOK
<1>2. CASE Next
  BY <1>2, LoginTypeOK, LogoutTypeOK, RefreshTypeOK, EnvironmentTypeOK
     DEF Next, Arrives, Progress
<1> QED
  BY <1>1, <1>2

(* Every variable keeps its type, whatever requests arrive and fail. *)
THEOREM TypeCorrect == Spec => []TypeOK
BY InitTypeOK, NextTypeOK, PTL DEF Spec

-----------------------------------------------------------------------------
(* The refresh lock *)

(* Whoever is in the section holds the lock: what makes exclusion inductive. *)
HolderInv == \A r \in Requests : pc[r] \in Critical => lock = r

(* The steps outside the section neither touch the lock nor enter it. *)
OutsideSection(r) ==
    \/ Arrives(r) \/ SessionExpire(r)
    \/ LoginCheck(r) \/ LoginRevoke(r) \/ LoginStore(r) \/ LoginFlag(r)
    \/ LoginV1Insert(r) \/ LoginV1Mark(r) \/ LoginV1Clear(r)
    \/ LogoutOffline(r) \/ LogoutEnd(r) \/ RefreshWait(r)

LEMMA OutsideSectionKeepsLock ==
    ASSUME TypeOK, NEW r \in Requests, OutsideSection(r)
    PROVE  /\ lock' = lock
           /\ pc[r] \notin Critical \cup {"done", "crashed"}
           /\ \E l \in Labels \ Critical : pc' = [pc EXCEPT ![r] = l]
           /\ \A s \in Requests \ {r} : status'[s] = status[s]
<1> USE DEF TypeOK, Critical, Labels, Awaiting
<1>1. CASE LoginRefused(r) \/ LoginWrongPassword(r) \/ LoginFind(r)
  BY <1>1 DEF LoginRefused, LoginWrongPassword, LoginFind
<1>2. CASE LoginV1Find(r)
  BY <1>2 DEF LoginV1Find
<1>3. CASE LogoutGuard(r) \/ RefreshArrive(r) \/ SessionExpire(r)
  BY <1>3 DEF LogoutGuard, RefreshArrive, SessionExpire
<1>4. CASE LoginCheck(r) \/ LoginRevoke(r) \/ LoginStore(r) \/ LoginFlag(r)
  BY <1>4 DEF LoginCheck, LoginRevoke, LoginStore, LoginFlag
<1>5. CASE LoginV1Insert(r) \/ LoginV1Mark(r) \/ LoginV1Clear(r)
  BY <1>5 DEF LoginV1Insert, LoginV1Mark, LoginV1Clear
<1>6. CASE LogoutOffline(r) \/ LogoutEnd(r) \/ RefreshWait(r)
  BY <1>6 DEF LogoutOffline, LogoutEnd, RefreshWait
<1> QED
  BY <1>1, <1>2, <1>3, <1>4, <1>5, <1>6 DEF OutsideSection, Arrives

LEMMA NextSplits ==
    ASSUME Next
    PROVE  \/ \E r \in Requests :
                \/ OutsideSection(r)
                \/ RefreshLock(r) \/ RefreshGet(r) \/ RefreshForget(r)
                \/ RefreshSave(r) \/ RefreshUnlock(r)
                \/ CallFails(r) \/ Crash(r)
           \/ SessionEvict \/ LockExpire \/ Tick
BY DEF Next, Progress, OutsideSection

LEMMA HolderStep ==
    ASSUME SlowHolder = FALSE, TypeOK, HolderInv, [Next]_vars
    PROVE  HolderInv'
<1> USE DEF TypeOK, HolderInv, Critical
<1>1. ASSUME NEW r \in Requests, OutsideSection(r)
      PROVE  HolderInv'
  BY <1>1, OutsideSectionKeepsLock
<1>2. ASSUME NEW r \in Requests, RefreshLock(r)
      PROVE  HolderInv'
  BY <1>2, ConstantsAssumption DEF RefreshLock
<1>3. ASSUME NEW r \in Requests,
             RefreshGet(r) \/ RefreshForget(r) \/ RefreshSave(r)
      PROVE  HolderInv'
  BY <1>3 DEF RefreshGet, RefreshForget, RefreshSave
<1>4. ASSUME NEW r \in Requests, RefreshUnlock(r)
      PROVE  HolderInv'
  BY <1>4 DEF RefreshUnlock
<1>5. ASSUME NEW r \in Requests, CallFails(r) \/ Crash(r)
      PROVE  HolderInv'
  BY <1>5 DEF CallFails, Crash, Halfway
<1>6. CASE SessionEvict \/ LockExpire \/ Tick \/ UNCHANGED vars
  BY <1>6 DEF SessionEvict, LockExpire, Tick, request, vars
<1> QED
  BY <1>1, <1>2, <1>3, <1>4, <1>5, <1>6, NextSplits

(* Unless a live holder outlasts the TTL, no two refreshes of one account   *)
(* are between setNX and finally, whatever crashes and expiries there are.  *)
THEOREM RefreshIsExclusive ==
    ASSUME SlowHolder = FALSE
    PROVE  Spec => []RefreshExclusion
<1>1. Init => HolderInv
  BY DEF Init, HolderInv, Critical
<1>2. TypeOK /\ HolderInv /\ [Next]_vars => HolderInv'
  BY HolderStep
<1>3. HolderInv => RefreshExclusion
  BY DEF HolderInv, RefreshExclusion
<1> QED
  BY <1>1, <1>2, <1>3, TypeCorrect, PTL DEF Spec

LEMMA LockNotLeakedStep ==
    ASSUME TypeOK, LockNotLeaked, [Next]_vars
    PROVE  LockNotLeaked'
<1> USE DEF TypeOK, LockNotLeaked, Critical
<1>1. ASSUME NEW r \in Requests, OutsideSection(r)
      PROVE  LockNotLeaked'
  BY <1>1, OutsideSectionKeepsLock
<1>2. ASSUME NEW r \in Requests, RefreshLock(r)
      PROVE  LockNotLeaked'
  BY <1>2 DEF RefreshLock
<1>3. ASSUME NEW r \in Requests,
             RefreshGet(r) \/ RefreshForget(r) \/ RefreshSave(r)
      PROVE  LockNotLeaked'
  BY <1>3 DEF RefreshGet, RefreshForget, RefreshSave
<1>4. ASSUME NEW r \in Requests, RefreshUnlock(r)
      PROVE  LockNotLeaked'
  BY <1>4 DEF RefreshUnlock
<1>5. ASSUME NEW r \in Requests, CallFails(r) \/ Crash(r)
      PROVE  LockNotLeaked'
  BY <1>5 DEF CallFails, Crash, Awaiting, Statuses, Halfway
<1>6. CASE SessionEvict \/ LockExpire \/ Tick \/ UNCHANGED vars
  BY <1>6 DEF SessionEvict, LockExpire, Tick, request, vars
<1> QED
  BY <1>1, <1>2, <1>3, <1>4, <1>5, <1>6, NextSplits

(* The lock is never left behind by a request that ended in good order. *)
THEOREM LockIsNotLeaked == Spec => []LockNotLeaked
<1>1. Init => LockNotLeaked
  BY DEF Init, LockNotLeaked
<1> QED
  BY <1>1, LockNotLeakedStep, TypeCorrect, PTL DEF Spec

-----------------------------------------------------------------------------
(* The tokens of a pair *)

Matched(p) ==
    /\ p.access.claim = p.refresh.claim
    /\ p.refresh.iat <= p.access.iat + 1
    /\ p.refresh.iat <= now

(* Pairs under construction match too, and no refresh token is from the    *)
(* future: the access token a refresh signs beside it is never older.      *)
MatchInv ==
    /\ \A r \in Requests : Matched(hand[r])
    /\ \A p \in granted : Matched(p)
    /\ session # NoSession => Matched(session)

(* A login signs a matching pair, and the clock does not run back. *)
LEMMA SignMatches ==
    ASSUME TypeOK, NEW r \in Requests, SignPair(r)
    PROVE  /\ now <= now'
           /\ hand' = [hand EXCEPT ![r] = hand'[r]]
           /\ Matched(hand[r])'
<1>1. PICK later \in {now, now + 1} :
        /\ now' = later
        /\ hand' = [hand EXCEPT ![r] = [access  |-> Sign(claim[r], now),
                                       refresh |-> Sign(claim[r], later)]]
  BY DEF SignPair
<1>2. hand'[r] = [access  |-> Sign(claim[r], now),
                  refresh |-> Sign(claim[r], later)]
  BY <1>1 DEF TypeOK
<1>3. hand' = [hand EXCEPT ![r] = hand'[r]]
  BY <1>1, <1>2
<1>4. /\ hand'[r].access.claim = claim[r] /\ hand'[r].access.iat = now
      /\ hand'[r].refresh.claim = claim[r] /\ hand'[r].refresh.iat = now'
  BY <1>1, <1>2 DEF Sign
<1>5. now \in Nat /\ now' \in {now, now + 1}
  BY <1>1 DEF TypeOK
<1> QED
  BY <1>3, <1>4, <1>5 DEF Matched

(* The requests whose hand, session and answers stay as they are. *)
LEMMA MatchFrame ==
    ASSUME MatchInv, TypeOK, TypeOK',
           now' = now,
           session' \in {session, NoSession} \cup {hand[r] : r \in Requests},
           \A r \in Requests : hand'[r] = hand[r],
           granted' \subseteq granted \cup {hand[r] : r \in Requests}
    PROVE  MatchInv'
<1>1. \A p : Matched(p)' <=> Matched(p)
  BY DEF Matched
<1> QED
  BY <1>1 DEF MatchInv, TypeOK, Matched

LEMMA MatchStep ==
    ASSUME TypeOK, TypeOK', MatchInv, [Next]_vars
    PROVE  MatchInv'
<1>1. ASSUME NEW r \in Requests, Arrives(r) \/ SessionExpire(r)
      PROVE  MatchInv'
  <2>1. CASE RefreshArrive(r)
    BY <1>1, <2>1 DEF MatchInv, Matched, RefreshArrive, TypeOK
  <2>2. CASE LoginV1Find(r)
    BY <2>2, MatchFrame DEF LoginV1Find
  <2>3. CASE LoginRefused(r) \/ LoginWrongPassword(r) \/ LoginFind(r)
    BY <2>3, MatchFrame DEF LoginRefused, LoginWrongPassword, LoginFind
  <2>4. CASE LogoutGuard(r) \/ SessionExpire(r)
    BY <2>4, MatchFrame DEF LogoutGuard, SessionExpire
  <2> QED
    BY <1>1, <2>1, <2>2, <2>3, <2>4 DEF Arrives
<1>2. ASSUME NEW r \in Requests,
             LoginCheck(r) \/ LoginRevoke(r) \/ LoginV1Clear(r)
      PROVE  MatchInv'
  <2>1. /\ granted' = granted
        /\ session' \in {session, NoSession}
        /\ SignPair(r) \/ UNCHANGED <<hand, now>>
    BY <1>2 DEF LoginCheck, LoginRevoke, LoginV1Clear
  <2>2. CASE SignPair(r)
    <3>1. /\ now <= now' /\ now \in Nat /\ now' \in Nat
          /\ hand' = [hand EXCEPT ![r] = hand'[r]]
          /\ Matched(hand[r])'
      BY <2>2, SignMatches DEF TypeOK
    <3>2. \A p \in Pair : Matched(p) => Matched(p)'
      BY <3>1 DEF Matched, Pair, Token
    <3>3. /\ \A s \in Requests : hand'[s] \in Pair /\ hand[s] \in Pair
          /\ \A s \in Requests \ {r} : hand'[s] = hand[s]
          /\ session # NoSession => session \in Pair
          /\ granted \subseteq Pair
      BY <3>1 DEF TypeOK
    <3>4. \A s \in Requests : Matched(hand[s])'
      <4> SUFFICES ASSUME NEW s \in Requests PROVE Matched(hand[s])'
        OBVIOUS
      <4>1. CASE s = r
        BY <3>1, <4>1
      <4>2. CASE s # r
        BY <3>2, <3>3, <4>2 DEF MatchInv, Matched
      <4> QED
        BY <4>1, <4>2
    <3> QED
      BY <2>1, <3>2, <3>3, <3>4 DEF MatchInv, Matched
  <2>3. CASE UNCHANGED <<hand, now>>
    BY <2>1, <2>3 DEF MatchInv, Matched
  <2> QED
    BY <2>1, <2>2, <2>3
<1>3. ASSUME NEW r \in Requests,
             \/ LoginStore(r) \/ LoginFlag(r) \/ LoginV1Insert(r)
             \/ LoginV1Mark(r) \/ LogoutOffline(r) \/ LogoutEnd(r)
      PROVE  MatchInv'
  BY <1>3, MatchFrame
     DEF LoginStore, LoginFlag, LoginV1Insert, LoginV1Mark, LogoutOffline,
         LogoutEnd
<1>4. ASSUME NEW r \in Requests,
             \/ RefreshLock(r) \/ RefreshForget(r) \/ RefreshSave(r)
             \/ RefreshUnlock(r) \/ CallFails(r) \/ Crash(r)
      PROVE  MatchInv'
  BY <1>4, MatchFrame
     DEF RefreshLock, RefreshForget, RefreshSave, RefreshUnlock, CallFails, Crash
<1>5. ASSUME NEW r \in Requests, RefreshWait(r)
      PROVE  MatchInv'
  BY <1>5 DEF MatchInv, Matched, RefreshWait, TypeOK
<1>6. ASSUME NEW r \in Requests, RefreshGet(r)
      PROVE  MatchInv'
  <2>1. CASE session # NoSession /\ session.refresh = hand[r].refresh
    <3> DEFINE h == [hand[r] EXCEPT !.access = Sign(hand[r].refresh.claim, now)]
    <3>1. /\ hand' = [hand EXCEPT ![r] = h] /\ now' = now
          /\ session' = session /\ granted' = granted
      BY <1>6, <2>1 DEF RefreshGet, TypeOK
    <3>2. h.access = Sign(hand[r].refresh.claim, now) /\ h.refresh = hand[r].refresh
      BY DEF TypeOK, Pair
    <3>3. /\ hand[r].refresh.iat <= now
          /\ hand[r].refresh.iat \in Nat /\ now \in Nat
      BY DEF MatchInv, Matched, TypeOK, Pair, Token
    <3>4. h.access.claim = hand[r].refresh.claim /\ h.access.iat = now
      BY <3>2 DEF Sign
    <3>5. Matched(h)
      BY <3>2, <3>3, <3>4 DEF Matched
    <3> HIDE DEF h
    <3> QED
      BY <3>1, <3>5 DEF MatchInv, Matched, TypeOK
  <2>2. CASE ~(session # NoSession /\ session.refresh = hand[r].refresh)
    BY <1>6, <2>2, MatchFrame DEF RefreshGet
  <2> QED
    BY <2>1, <2>2
<1>7. CASE SessionEvict \/ LockExpire \/ UNCHANGED vars
  BY <1>7, MatchFrame DEF SessionEvict, LockExpire, request, vars
<1>8. CASE Tick
  BY <1>8 DEF Tick, request, MatchInv, Matched, TypeOK, Pair, Token
<1> QED
  BY <1>1, <1>2, <1>3, <1>4, <1>5, <1>6, <1>7, <1>8 DEF Next, Progress

(* Every session and every answer pairs tokens of one login. *)
THEOREM TokensAlwaysMatch == Spec => []TokensMatch
<1>1. Init => MatchInv
  <2> SUFFICES ASSUME Init PROVE MatchInv
    OBVIOUS
  <2>1. Matched(FirstDevice) /\ Matched(SecondDevice)
    BY DEF Init, Matched, FirstDevice, SecondDevice, PairOf, Sign
  <2>2. /\ session \in {NoSession, FirstDevice, SecondDevice}
        /\ granted \subseteq {FirstDevice, SecondDevice}
        /\ \A r \in Requests : hand[r] = FirstDevice
    BY DEF Init
  <2> QED
    BY <2>1, <2>2 DEF MatchInv
<1>2. TypeOK /\ TypeOK' /\ MatchInv /\ [Next]_vars => MatchInv'
  BY MatchStep
<1>3. MatchInv => TokensMatch
  BY DEF MatchInv, Matched, TokensMatch
<1> QED
  BY <1>1, <1>2, <1>3, TypeCorrect, PTL DEF Spec

-----------------------------------------------------------------------------
(* Presence *)

(* Between the SET and the save of a login, and between the save and the   *)
(* DEL of a logout, a session may be there while the row says offline; so  *)
(* it may after a request that ended there.                                *)
PresenceInv ==
    /\ \A r \in Requests : pc[r] \notin Critical \cup {"lock", "wait"}
    /\ session # NoSession =>
          online \/ \E r \in Requests : pc[r] \in Halfway \cup {"half"}

LEMMA PresenceStep ==
    ASSUME "refresh" \notin Workload,
           TypeOK, PresenceInv, [Next]_vars
    PROVE  PresenceInv'
<1> USE DEF TypeOK, PresenceInv, Critical, Halfway
<1>1. ASSUME NEW r \in Requests,
             LoginRefused(r) \/ LoginWrongPassword(r) \/ LoginFind(r)
      PROVE  PresenceInv'
  BY <1>1 DEF LoginRefused, LoginWrongPassword, LoginFind, account
<1>2. ASSUME NEW r \in Requests, LoginV1Find(r)
      PROVE  PresenceInv'
  BY <1>2 DEF LoginV1Find, account
<1>3. ASSUME NEW r \in Requests, LogoutGuard(r) \/ SessionExpire(r)
      PROVE  PresenceInv'
  BY <1>3 DEF LogoutGuard, SessionExpire, account
<1>4. \A r \in Requests : ~RefreshArrive(r)
  BY DEF RefreshArrive
<1>5. ASSUME NEW r \in Requests, LoginCheck(r) \/ LoginRevoke(r)
      PROVE  PresenceInv'
  BY <1>5 DEF LoginCheck, LoginRevoke, account
<1>6. ASSUME NEW r \in Requests, LoginStore(r)
      PROVE  PresenceInv'
  BY <1>6 DEF LoginStore, account
<1>7. ASSUME NEW r \in Requests, LoginFlag(r) \/ LoginV1Mark(r)
      PROVE  PresenceInv'
  BY <1>7 DEF LoginFlag, LoginV1Mark
<1>8. ASSUME NEW r \in Requests, LoginV1Insert(r)
      PROVE  PresenceInv'
  BY <1>8 DEF LoginV1Insert, account
<1>9. ASSUME NEW r \in Requests, LoginV1Clear(r) \/ LogoutEnd(r)
      PROVE  PresenceInv'
  BY <1>9 DEF LoginV1Clear, LogoutEnd
<1>10. ASSUME NEW r \in Requests, LogoutOffline(r)
       PROVE  PresenceInv'
  BY <1>10 DEF LogoutOffline
<1>11. \A r \in Requests :
         /\ ~RefreshLock(r) /\ ~RefreshWait(r) /\ ~RefreshGet(r)
         /\ ~RefreshForget(r) /\ ~RefreshSave(r) /\ ~RefreshUnlock(r)
  BY DEF RefreshLock, RefreshWait, RefreshGet, RefreshForget, RefreshSave,
         RefreshUnlock
<1>12. ASSUME NEW r \in Requests, CallFails(r) \/ Crash(r)
       PROVE  PresenceInv'
  <2>1. /\ UNCHANGED <<session, account>>
        /\ \E l \in {"half", "done", "crashed"} :
             /\ pc' = [pc EXCEPT ![r] = l]
             /\ pc[r] \in Halfway => l = "half"
        /\ pc[r] # "half"
    BY <1>12 DEF CallFails, Crash, Awaiting
  <2> QED
    BY <2>1 DEF account
<1>13. CASE SessionEvict \/ LockExpire \/ Tick \/ UNCHANGED vars
  BY <1>13 DEF SessionEvict, LockExpire, Tick, request, account, vars
<1> QED
  BY <1>1, <1>2, <1>3, <1>4, <1>5, <1>6, <1>7, <1>8, <1>9, <1>10, <1>11,
     <1>12, <1>13 DEF Next, Arrives, Progress

(* Without refreshes, whoever has a session when nothing is in flight is   *)
(* shown online, unless a request ended between its two writes.            *)
THEOREM SessionsAreOnline ==
    ASSUME "refresh" \notin Workload
    PROVE  Spec => []PresenceWhenQuiet
<1>1. Init => PresenceInv
  BY DEF Init, PresenceInv, Critical
<1>2. TypeOK /\ PresenceInv /\ [Next]_vars => PresenceInv'
  BY PresenceStep
<1>3. PresenceInv => PresenceWhenQuiet
  BY DEF PresenceInv, PresenceWhenQuiet, Halfway
<1> QED
  BY <1>1, <1>2, <1>3, TypeCorrect, PTL DEF Spec

-----------------------------------------------------------------------------
(* A refresh is a compare-and-set *)

(* What a refresh has read and compared is still there when it saves.      *)
RefreshInv ==
    /\ HolderInv
    /\ \A r \in Requests :
         /\ pc[r] \in {"idle", "done", "crashed", "lock", "wait"} \cup Critical
         /\ pc[r] = "save" =>
               session # NoSession /\ session.refresh = hand[r].refresh

LEMMA RefreshStep ==
    ASSUME Workload = {"refresh"}, SlowHolder = FALSE, SessionEnds = FALSE,
           TypeOK, RefreshInv, [Next]_vars
    PROVE  RefreshInv' /\ KeepsOwner
<1>0. HolderInv'
  BY HolderStep DEF RefreshInv
<1> USE DEF TypeOK, RefreshInv, HolderInv, KeepsOwner, Critical
<1>1. ASSUME NEW r \in Requests, RefreshArrive(r)
      PROVE  RefreshInv' /\ KeepsOwner
  BY <1>0, <1>1 DEF RefreshArrive
<1>2. ASSUME NEW r \in Requests, RefreshLock(r) \/ RefreshUnlock(r)
      PROVE  RefreshInv' /\ KeepsOwner
  BY <1>0, <1>2 DEF RefreshLock, RefreshUnlock
<1>3. ASSUME NEW r \in Requests, RefreshWait(r)
      PROVE  RefreshInv' /\ KeepsOwner
  BY <1>0, <1>3 DEF RefreshWait
<1>4. ASSUME NEW r \in Requests, RefreshGet(r)
      PROVE  RefreshInv' /\ KeepsOwner
  <2>1. CASE session # NoSession /\ session.refresh = hand[r].refresh
    <3> DEFINE h == [hand[r] EXCEPT !.access = Sign(hand[r].refresh.claim, now)]
    <3>1. /\ hand' = [hand EXCEPT ![r] = h]
          /\ pc' = [pc EXCEPT ![r] = "save"]
          /\ session' = session
      BY <1>4, <2>1 DEF RefreshGet
    <3>2. h.refresh = hand[r].refresh
      BY DEF Pair
    <3> HIDE DEF h
    <3> QED
      BY <1>0, <2>1, <3>1, <3>2
  <2>2. CASE ~(session # NoSession /\ session.refresh = hand[r].refresh)
    BY <1>0, <1>4, <2>2 DEF RefreshGet
  <2> QED
    BY <2>1, <2>2
<1>5. ASSUME NEW r \in Requests, RefreshForget(r)
      PROVE  RefreshInv' /\ KeepsOwner
  <2>1. \A s \in Requests : pc'[s] # "save"
    BY <1>5 DEF RefreshForget
  <2> QED
    BY <1>0, <1>5, <2>1 DEF RefreshForget
<1>6. ASSUME NEW r \in Requests, RefreshSave(r)
      PROVE  RefreshInv' /\ KeepsOwner
  <2>1. \A s \in Requests : pc'[s] # "save"
    BY <1>6 DEF RefreshSave
  <2> QED
    BY <1>0, <1>6, <2>1 DEF RefreshSave
<1>7. ASSUME NEW r \in Requests, CallFails(r) \/ Crash(r)
      PROVE  RefreshInv' /\ KeepsOwner
  BY <1>0, <1>7 DEF CallFails, Crash, Halfway
<1>8. CASE LockExpire \/ Tick \/ UNCHANGED vars
  BY <1>0, <1>8 DEF LockExpire, Tick, request, vars
<1>9. ~SessionEvict /\ \A r \in Requests : ~SessionExpire(r)
  BY DEF SessionEvict, SessionExpire
<1>10. \A r \in Requests :
         /\ ~LoginRefused(r) /\ ~LoginWrongPassword(r) /\ ~LoginFind(r)
         /\ ~LoginV1Find(r) /\ ~LogoutGuard(r)
  BY DEF LoginRefused, LoginWrongPassword, LoginFind, LoginV1Find, LogoutGuard
<1>11. \A r \in Requests :
         /\ ~LoginCheck(r) /\ ~LoginRevoke(r) /\ ~LoginStore(r) /\ ~LoginFlag(r)
         /\ ~LoginV1Insert(r) /\ ~LoginV1Mark(r) /\ ~LoginV1Clear(r)
         /\ ~LogoutOffline(r) /\ ~LogoutEnd(r)
  BY DEF LoginCheck, LoginRevoke, LoginStore, LoginFlag, LoginV1Insert,
         LoginV1Mark, LoginV1Clear, LogoutOffline, LogoutEnd
<1> QED
  BY <1>1, <1>2, <1>3, <1>4, <1>5, <1>6, <1>7, <1>8, <1>9, <1>10, <1>11
     DEF Next, Arrives, Progress

(* Among refreshes alone the lock makes each read-compare-save atomic: no  *)
(* session comes back after a refused refresh has ended it.                *)
THEOREM RefreshNeverInstalls ==
    ASSUME Workload = {"refresh"}, SlowHolder = FALSE, SessionEnds = FALSE
    PROVE  Spec => OnlyLoginInstalls
<1>1. Init => RefreshInv
  BY DEF Init, RefreshInv, HolderInv, Critical
<1>2. TypeOK /\ RefreshInv /\ [Next]_vars => RefreshInv' /\ KeepsOwner
  BY RefreshStep
<1> QED
  BY <1>1, <1>2, TypeCorrect, PTL DEF Spec, OnlyLoginInstalls
=============================================================================
