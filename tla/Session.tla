------------------------------ MODULE Session ------------------------------
(***************************************************************************)
(* The login session of one account.                                       *)
(*                                                                         *)
(* auth-service (login, LoginV1, Logout, the key-expiry callback) and the  *)
(* gateway (refresh, JwtAuthGuard) are separate processes that share two   *)
(* Redis keys, user:<id>:session and user:<id>:refresh_lock, and the row   *)
(* of the account in Postgres.  Every await is a step of its own, so the   *)
(* calls of concurrent requests interleave as they do in production.       *)
(* Accounts share no key and no row, hence one account is the whole story. *)
(*                                                                         *)
(* A JWT is a function of its payload and of the second it is signed in:   *)
(* the only part of the payload that moves is the is_online flag read from *)
(* the row, so a token is [claim, iat].  Two signatures of one second can  *)
(* be the same token, as in the code.  The expiry of the tokens themselves *)
(* only adds refusals that change nothing and is left out.                 *)
(***************************************************************************)
EXTENDS Naturals

CONSTANTS
    Requests,    \* slots for HTTP requests and for key-expiry callbacks
    Workload,    \* the operations that arrive, a subset of Operations
    MaxTime,     \* bound: the last second of the clock
    Faults,      \* whether awaited calls reject and processes die
    SlowHolder,  \* whether a live holder may outlive the lock's 5 s TTL
    SessionEnds, \* whether Redis expires or evicts the session key
    NoSession,   \* the session key is absent
    Free         \* the lock key is absent

Operations == {"login", "loginV1", "logout", "refresh"}

Token == [claim : BOOLEAN, iat : Nat]
Pair  == [access : Token, refresh : Token]

ASSUME ConstantsAssumption ==
    /\ Workload \subseteq Operations
    /\ MaxTime \in Nat
    /\ {Faults, SlowHolder, SessionEnds} \subseteq BOOLEAN
    /\ NoSession \notin Pair
    /\ Free \notin Requests

VARIABLES
    session,    \* user:<id>:session: a Pair or NoSession
    lock,       \* user:<id>:refresh_lock: Free or the request that set it
    registered, \* the row of (email, provider) exists
    deleted,    \* users.is_deleted
    online,     \* users.is_online
    now,        \* the clock, in seconds
    pc,         \* where each request is suspended
    claim,      \* the is_online flag a login read from the row
    hand,       \* the pair a request presents, then the one it has signed
    status,     \* HTTP status decided for the request, 0 before that
    granted     \* the pairs clients were answered with (cookies and tokens)

account == <<registered, deleted, online>>
request == <<pc, claim, hand, status>>
vars    == <<session, lock, account, now, request, granted>>

(* Suspended between taking and releasing the refresh lock. *)
Critical == {"get", "forget", "save", "unlock"}

Awaiting == {"check", "revoke", "insert", "mark", "clear", "clearNew",
             "store", "flag", "offline", "end", "lock", "wait"} \cup Critical

(* "half": ended after it had written one of session and row, and failed    *)
(* or died before it wrote the other one.                                   *)
Labels   == {"idle", "done", "crashed", "half"} \cup Awaiting
Statuses == {0, 200, 401, 403, 404, 500}

TypeOK ==
    /\ session \in Pair \cup {NoSession}
    /\ lock \in Requests \cup {Free}
    /\ registered \in BOOLEAN
    /\ deleted \in BOOLEAN
    /\ online \in BOOLEAN
    /\ now \in Nat
    /\ pc \in [Requests -> Labels]
    /\ claim \in [Requests -> BOOLEAN]
    /\ hand \in [Requests -> Pair]
    /\ status \in [Requests -> Statuses]
    /\ granted \subseteq Pair

Sign(c, t) == [claim |-> c, iat |-> t]

PairOf(token) == [access |-> token, refresh |-> token]

(* The first device logged in while the user was offline, a second later   *)
(* the second device did, when the row already said online.                *)
FirstDevice  == PairOf(Sign(FALSE, 0))
SecondDevice == PairOf(Sign(TRUE, 1))

(* Nobody has logged in yet, or one device has, or a second one after it:  *)
(* then the first still holds the cookie of a session that is no more.     *)
Init ==
    /\ \/ /\ session = NoSession
          /\ online = FALSE
          /\ registered \in BOOLEAN
          /\ deleted \in BOOLEAN
          /\ deleted => registered
          /\ granted = {}
       \/ /\ registered = TRUE /\ deleted = FALSE /\ online = TRUE
          /\ \/ session = FirstDevice /\ granted = {FirstDevice}
             \/ session = SecondDevice /\ granted = {FirstDevice, SecondDevice}
    /\ lock = Free
    /\ now = 1
    /\ pc = [r \in Requests |-> "idle"]
    /\ claim = [r \in Requests |-> FALSE]
    /\ hand = [r \in Requests |-> FirstDevice]
    /\ status = [r \in Requests |-> 0]

At(r, label)      == pc[r] = label
Begins(r, op)     == pc[r] = "idle" /\ op \in Workload
Goto(r, label)    == pc' = [pc EXCEPT ![r] = label]
Decide(r, code)   == status' = [status EXCEPT ![r] = code]
Answer(r, code)   == Goto(r, "done") /\ Decide(r, code)
Continue(r, label) == Goto(r, label) /\ UNCHANGED status

-----------------------------------------------------------------------------
(* login: auth-service, users.service.ts *)

LoginRefused(r) ==
    /\ Begins(r, "login")
    /\ \/ ~registered /\ Answer(r, 404)
       \/ registered /\ deleted /\ Answer(r, 403)
    /\ UNCHANGED <<session, lock, account, now, claim, hand, granted>>

LoginWrongPassword(r) ==
    /\ Begins(r, "login")
    /\ registered /\ ~deleted
    /\ Answer(r, 404)
    /\ UNCHANGED <<session, lock, account, now, claim, hand, granted>>

LoginFind(r) ==
    /\ Begins(r, "login")
    /\ registered /\ ~deleted
    /\ claim' = [claim EXCEPT ![r] = online]
    /\ Continue(r, "check")
    /\ UNCHANGED <<session, lock, account, now, hand, granted>>

(* Both tokens are signed in the turn that ends with the Redis SET, each at *)
(* its own reading of the clock: a second may begin between the two.        *)
SignPair(r) ==
    \E later \in {now, now + 1} :
        /\ now < MaxTime \/ later = now
        /\ now' = later
        /\ hand' = [hand EXCEPT ![r] = [access  |-> Sign(claim[r], now),
                                       refresh |-> Sign(claim[r], later)]]

LoginCheck(r) ==
    /\ At(r, "check")
    /\ IF session = NoSession
         THEN SignPair(r) /\ Continue(r, "store")
         ELSE UNCHANGED <<hand, now>> /\ Continue(r, "revoke")
    /\ UNCHANGED <<session, lock, account, claim, granted>>

LoginRevoke(r) ==
    /\ At(r, "revoke")
    /\ session' = NoSession
    /\ SignPair(r)
    /\ Continue(r, "store")
    /\ UNCHANGED <<lock, account, claim, granted>>

(* Mutant of LoginStore: the access token alone is stored. *)
LoginStoreAccessOnly(r) ==
    /\ At(r, "store")
    /\ session' = hand[r].access
    /\ Continue(r, "flag")
    /\ UNCHANGED <<lock, account, now, claim, hand, granted>>

(* login and LoginV1 end alike: SET the session, then save is_online. *)
LoginStore(r) ==
    /\ At(r, "store")
    /\ session' = hand[r]
    /\ Continue(r, "flag")
    /\ UNCHANGED <<lock, account, now, claim, hand, granted>>

LoginFlag(r) ==
    /\ At(r, "flag")
    /\ online' = TRUE
    /\ Answer(r, 200)
    /\ granted' = granted \cup {hand[r]}
    /\ UNCHANGED <<session, lock, registered, deleted, now, claim, hand>>

-----------------------------------------------------------------------------
(* LoginV1, the social login: auth-service, users.service.ts *)

LoginV1Find(r) ==
    /\ Begins(r, "loginV1")
    /\ IF registered
         THEN claim' = [claim EXCEPT ![r] = online] /\ Continue(r, "mark")
         ELSE claim' = [claim EXCEPT ![r] = TRUE] /\ Continue(r, "insert")
    /\ UNCHANGED <<session, lock, account, now, hand, granted>>

(* UNIQUE (email, provider) rejects the second of two concurrent inserts. *)
LoginV1Insert(r) ==
    /\ At(r, "insert")
    /\ \/ /\ registered
          /\ Answer(r, 500)
          /\ UNCHANGED account
       \/ /\ ~registered
          /\ registered' = TRUE /\ online' = TRUE /\ UNCHANGED deleted
          /\ Continue(r, "clearNew")
    /\ UNCHANGED <<session, lock, now, claim, hand, granted>>

LoginV1Mark(r) ==
    /\ At(r, "mark")
    /\ online' = TRUE
    /\ Continue(r, "clear")
    /\ UNCHANGED <<session, lock, registered, deleted, now, claim, hand, granted>>

(* The entity that save() returned has no role: reading role.id throws. *)
LoginV1Clear(r) ==
    /\ session' = NoSession
    /\ \/ At(r, "clear") /\ SignPair(r) /\ Continue(r, "store")
       \/ At(r, "clearNew") /\ UNCHANGED <<hand, now>> /\ Answer(r, 500)
    /\ UNCHANGED <<lock, account, claim, granted>>

-----------------------------------------------------------------------------
(* Logout: JwtAuthGuard in the gateway, then auth-service; and the callback *)
(* of an expired session key, which runs Logout without a guard.            *)

Accepts(token) == session # NoSession /\ session.access = token

LogoutGuard(r) ==
    /\ Begins(r, "logout")
    /\ \E p \in granted :
         IF Accepts(p.access) THEN Continue(r, "offline") ELSE Answer(r, 401)
    /\ UNCHANGED <<session, lock, account, now, claim, hand, granted>>

LogoutOffline(r) ==
    /\ At(r, "offline")
    /\ online' = FALSE
    /\ Continue(r, "end")
    /\ UNCHANGED <<session, lock, registered, deleted, now, claim, hand, granted>>

(* Mutant of LogoutEnd: the session key is left in place. *)
LogoutEndKeepsSession(r) ==
    /\ At(r, "end")
    /\ Answer(r, 200)
    /\ UNCHANGED <<session, lock, account, now, claim, hand, granted>>

LogoutEnd(r) ==
    /\ At(r, "end")
    /\ session' = NoSession
    /\ Answer(r, 200)
    /\ UNCHANGED <<lock, account, now, claim, hand, granted>>

(* The key expires; its event reaches the callback some time later. *)
SessionExpire(r) ==
    /\ SessionEnds
    /\ session # NoSession
    /\ pc[r] = "idle"
    /\ session' = NoSession
    /\ Continue(r, "offline")
    /\ UNCHANGED <<lock, account, now, claim, hand, granted>>

(* allkeys-lru evicts the key, or the expiry message is lost: no event. *)
SessionEvict ==
    /\ SessionEnds
    /\ session # NoSession
    /\ session' = NoSession
    /\ UNCHANGED <<lock, account, now, request, granted>>

-----------------------------------------------------------------------------
(* refresh: gateway, users.service.ts *)

RefreshArrive(r) ==
    /\ Begins(r, "refresh")
    /\ \E p \in granted : hand' = [hand EXCEPT ![r] = p]
    /\ Continue(r, "lock")
    /\ UNCHANGED <<session, lock, account, now, claim, granted>>

(* Mutant of RefreshLock: SET EX 5 without NX. *)
RefreshLockWithoutNX(r) ==
    /\ At(r, "lock")
    /\ lock' = r /\ Continue(r, "get")
    /\ UNCHANGED <<session, account, now, claim, hand, granted>>

(* SET NX EX 5 *)
RefreshLock(r) ==
    /\ At(r, "lock")
    /\ IF lock = Free
         THEN lock' = r /\ Continue(r, "get")
         ELSE UNCHANGED lock /\ Continue(r, "wait")
    /\ UNCHANGED <<session, account, now, claim, hand, granted>>

(* 300 ms later the loser hands out whatever the session then is. *)
RefreshWait(r) ==
    /\ At(r, "wait")
    /\ \/ /\ session = NoSession
          /\ Answer(r, 401)
          /\ UNCHANGED <<hand, granted>>
       \/ /\ session # NoSession
          /\ hand' = [hand EXCEPT ![r] = session]
          /\ granted' = granted \cup {session}
          /\ Answer(r, 200)
    /\ UNCHANGED <<session, lock, account, now, claim>>

(* Mutant of RefreshGet: the new token takes is_online from the row. *)
RefreshGetFreshClaim(r) ==
    /\ At(r, "get")
    /\ session # NoSession
    /\ session.refresh = hand[r].refresh
    /\ hand' = [hand EXCEPT ![r].access = Sign(online, now)]
    /\ Continue(r, "save")
    /\ UNCHANGED <<session, lock, account, now, claim, granted>>

RefreshGet(r) ==
    /\ At(r, "get")
    /\ \/ /\ session = NoSession
          /\ Goto(r, "unlock") /\ Decide(r, 401)
          /\ UNCHANGED hand
       \/ /\ session # NoSession
          /\ session.refresh # hand[r].refresh
          /\ Continue(r, "forget")
          /\ UNCHANGED hand
       \/ /\ session # NoSession
          /\ session.refresh = hand[r].refresh
          /\ hand' = [hand EXCEPT ![r].access = Sign(hand[r].refresh.claim, now)]
          /\ Continue(r, "save")
    /\ UNCHANGED <<session, lock, account, now, claim, granted>>

(* Mutant of RefreshForget: the 401 is thrown outside the try block. *)
RefreshForgetNoFinally(r) ==
    /\ At(r, "forget")
    /\ session' = NoSession
    /\ Answer(r, 401)
    /\ UNCHANGED <<lock, account, now, claim, hand, granted>>

RefreshForget(r) ==
    /\ At(r, "forget")
    /\ session' = NoSession
    /\ Goto(r, "unlock") /\ Decide(r, 401)
    /\ UNCHANGED <<lock, account, now, claim, hand, granted>>

RefreshSave(r) ==
    /\ At(r, "save")
    /\ session' = hand[r]
    /\ Goto(r, "unlock") /\ Decide(r, 200)
    /\ UNCHANGED <<lock, account, now, claim, hand, granted>>

(* finally: the key is deleted whoever set it. *)
RefreshUnlock(r) ==
    /\ At(r, "unlock")
    /\ lock' = Free
    /\ Continue(r, "done")
    /\ granted' = IF status[r] = 200 THEN granted \cup {hand[r]} ELSE granted
    /\ UNCHANGED <<session, account, now, claim, hand>>

(* Mutant of LockExpire: SET NX without EX. *)
LockNeverExpires == lock # Free /\ FALSE /\ UNCHANGED vars

(* The 5 s TTL fires. *)
LockExpire ==
    /\ lock # Free
    /\ SlowHolder \/ pc[lock] \notin Critical
    /\ lock' = Free
    /\ UNCHANGED <<session, account, now, request, granted>>

-----------------------------------------------------------------------------
(* Between the two writes of a login, or of a logout. *)
Halfway == {"flag", "end"}

(* An awaited call rejects: the request ends, through finally if it has one. *)
CallFails(r) ==
    /\ Faults
    /\ pc[r] \in Awaiting
    /\ Decide(r, 500)
    /\ Goto(r, CASE pc[r] \in Critical \ {"unlock"} -> "unlock"
                 [] pc[r] \in Halfway -> "half"
                 [] OTHER -> "done")
    /\ UNCHANGED <<session, lock, account, now, claim, hand, granted>>

(* The process dies with the request suspended: nothing more runs. *)
Crash(r) ==
    /\ Faults
    /\ pc[r] \in Awaiting
    /\ Continue(r, IF pc[r] \in Halfway THEN "half" ELSE "crashed")
    /\ UNCHANGED <<session, lock, account, now, claim, hand, granted>>

Tick ==
    /\ now < MaxTime
    /\ now' = now + 1
    /\ UNCHANGED <<session, lock, account, request, granted>>

Arrives(r) ==
    \/ LoginRefused(r) \/ LoginWrongPassword(r) \/ LoginFind(r)
    \/ LoginV1Find(r) \/ LogoutGuard(r) \/ RefreshArrive(r)

Progress(r) ==
    \/ LoginCheck(r) \/ LoginRevoke(r) \/ LoginStore(r) \/ LoginFlag(r)
    \/ LoginV1Insert(r) \/ LoginV1Mark(r) \/ LoginV1Clear(r)
    \/ LogoutOffline(r) \/ LogoutEnd(r)
    \/ RefreshLock(r) \/ RefreshWait(r) \/ RefreshGet(r)
    \/ RefreshForget(r) \/ RefreshSave(r) \/ RefreshUnlock(r)

Next ==
    \/ \E r \in Requests :
         Arrives(r) \/ Progress(r) \/ SessionExpire(r) \/ CallFails(r) \/ Crash(r)
    \/ SessionEvict \/ LockExpire \/ Tick

Spec == Init /\ [][Next]_vars

(* A suspended request is resumed by the event loop unless its process died, *)
(* and Redis deletes a lock key whose TTL has run out.                       *)
Fairness ==
    /\ \A r \in Requests : WF_vars(Progress(r))
    /\ WF_vars(LockExpire)

FairSpec == Spec /\ Fairness

-----------------------------------------------------------------------------
(* Properties *)

(* "refresh" takes the lock so that a second request waits for the newest   *)
(* session instead of refreshing by itself: at most one request is between  *)
(* setNX and the finally block, even when holders die and leave the lock.   *)
RefreshExclusion ==
    \A r, s \in Requests : pc[r] \in Critical /\ pc[s] \in Critical => r = s

(* Every path out of the section, the two 401s included, goes through the   *)
(* finally block: a lock that is set belongs to a request inside it, or to  *)
(* one whose process died or whose DEL failed, which the TTL takes care of. *)
LockNotLeaked ==
    lock # Free =>
        \/ pc[lock] \in Critical \cup {"crashed"}
        \/ pc[lock] = "done" /\ status[lock] = 500

(* The two tokens of a session, and of every answer, stem from one login:   *)
(* the access token carries the claims of the refresh token stored beside   *)
(* it, whatever logins and refreshes overlap, and is at most the second     *)
(* older that may pass while a login signs first the one, then the other.   *)
TokensMatch ==
    \A p \in granted \cup ({session} \ {NoSession}) :
        p.access.claim = p.refresh.claim /\ p.refresh.iat <= p.access.iat + 1

(* Logout writes is_online before it deletes the session and login does the *)
(* opposite: once no request is under way, whoever has a session is online, *)
(* however logins, logouts and key expiries overlapped, failed or died. Only *)
(* one that ended between its two writes can have left them apart.          *)
PresenceWhenQuiet ==
    (\A r \in Requests : pc[r] \in {"idle", "done", "crashed"})
        /\ session # NoSession => online

(* The session stays, ends, keeps its refresh token, or a login installs it. *)
KeepsOwner ==
    \/ session' \in {session, NoSession}
    \/ session # NoSession /\ session'.refresh = session.refresh
    \/ \E r \in Requests : LoginStore(r)

(* A session comes into being, or changes hands, only by a login: a refresh *)
(* replaces the access token of the session it has read, and neither brings *)
(* back one that ended meanwhile nor overwrites the one of a newer login.   *)
OnlyLoginInstalls == [][KeepsOwner]_vars

(* A lock whose holder died with it is free again in the end. *)
LockRecovered == lock # Free ~> lock = Free
=============================================================================
