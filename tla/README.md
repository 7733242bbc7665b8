# Verification of the AI Agent backend

TLA+ models of the NestJS microservices in `src/`, the TLC runs that check them
on small instances and the TLAPS proofs that hold for every instance.

    tlc -workers 2 -config MCSessionAll.cfg MCSession     # one of the runs of section 4
    tlapm SessionProofs.tla                               # one of the proofs of section 5

`PROJECT.json` names, for every definition that models code, the lines it
stands for, and lists components, runs, mutants, findings, hazards and theorems.

## 1. The system

A gateway (`apps/gateway`) takes HTTP requests, webhooks and sockets and calls
three gRPC services: auth (`apps/auth-service`), chat (`apps/chat-service`) and
fanpage (`apps/fanpage-service`). All of them share one Postgres database
through TypeORM and one Redis. There is no lock in the code except the one
around a token refresh, and no transaction anywhere: every `await` is a point
at which other requests, of this process or another one, run. The hard
behaviours are these interleavings, calls that fail half way, processes that
die, and deliveries that are repeated.

| Component | State | Operations | Talks to | Hard behaviour | What makes it correct |
|---|---|---|---|---|---|
| Session of an account | `user:<id>:session`, `user:<id>:refresh_lock` in Redis; `users.is_online`, `is_deleted` | login, LoginV1 (social), logout, key-expiry callback, refresh, the guard's check | auth, gateway, Redis | refreshes race each other, logins and logouts; the lock's holder dies; the expiry event comes late | one refresh at a time, the lock comes free, the two tokens of a pair carry one login's claims, a session's owner is online, only a login installs a session |
| Cached lists | five keys (labels, quick replies, categories, a user, a page) and the rows they show | three `GetAll`, `GetPageId`, `GetByIdUser`; twenty edits | chat, fanpage, auth, Redis | a fill overtaken by an edit, drop before write, edits that forget a key, lost DELs | what an edit outdates is dropped |
| Inbox | `live_messages`, `conversations`, the agents' sockets | webhook, send, set the unread counter, import of the history | Facebook, gateway, chat, fanpage | redelivery, batches, crash between INSERT and UPDATE, import beside webhook | each message stored, counted and pushed once and in this order; a 200 means done; the counter is exact |
| Telegram QR login | the map of sessions in the gateway, Telegram clients, timers | createQrLogin, watcher, migration, status polling | Telegram, fanpage | timer against update, calls that hang, one sessionId used twice, restart | success means connected; one final status; nothing stays in `waiting` |
| Page connection, token renewal, members | `fanpages`, `page_tokens`, `user_pages` | CreateConnectPageFacebook, ConnectPageTelegram, TokenRenewal, CreateUserPage, Delete | Facebook | check then insert; crash between page and token; a renewal loops over all pages | a page has one row and a member is one once; a token is the page's own; an answered connection is complete |
| History synchronisation | `fanpages.sync_status`, messages | Syncing (Facebook, Telegram) | Facebook, Telegram, Redis channel | overlapping runs, swallowed errors, rejected foreign keys, crash | the status tells how the last run ended; success means imported |
| Copying, and edits of the rows copied | labels, quick replies, categories of several pages | Copy (append, replace), create, update, delete | chat | no transaction, deletions meanwhile, duplicate categories | what was selected up to some key, once; no other page touched, if there is a landing page; categories of the own page |
| Labels of a conversation | `conversation_labels`, the agents' screens | add | gateway, chat | push before write | what is shown was stored |
| Paging, base repository | none | eight `getPaging`, generic CRUD | all services | offsets over rows that move, forward or back, two statements per page | no row lost or repeated but through named writes |
| Roles | `roles` | create, paging | auth | an order without a last key | as paging |
| Sockets | rooms in the gateway | join, leave, emit, Redis channel | gateway, fanpage | pushes of two requests have no order | modelled as far as the inbox pushes |
| Gateway plumbing | none | guards, DTO validation, filters, response encryption | all | - | the guard is part of Session |
| Kafka; ai, analytics, file, notification services | none | commented out; skeletons with one constant answer | - | - | not modelled |

## 2. The modules

| Module | Models | State and code |
|---|---|---|
| `Session` | login session of one account | `session`, `lock`: the two Redis keys; `registered`, `deleted`, `online`: the row; `pc`, `claim`, `hand`, `status`: what each suspended request holds. One action per await: `Login*` and `LoginV1*` (`users.service.ts` of auth), `Logout*`, `SessionExpire`, `Refresh*` (`users.service.ts` of the gateway), `LockExpire` (the 5 s TTL), `CallFails`, `Crash`; the label `half` is a login or logout that ended between its two writes |
| `CacheAside` | the five cached lists | `content`: a version per list; `cache`: the key; an edit is a record of what it writes, which key it drops and when, one per handler. `Lookup`, `Query`, `Fill` are a `GetAll`; `Begin`, `Write`, `Drop` an edit; the label `undropped` is one that ended between the two |
| `Ledger` | abstract: what the inbox promises | the sets of stored, counted and announced messages |
| `Import` | abstract: what an import promises | the archive, what each run still owes it, where each run stands (`new`, `working`, `declared`, `failing`, `ended`) and the status of the page |
| `Register` | abstract: what the pages promise | of each page `unknown`, `awaited`, `held` or `lost`; of each user in each page a role or none |
| `Inbox` | one conversation | `rows`: `live_messages` in the order of their ids; `conv`: the row; `copy`: what a request read. `Deliver`..`Emit`: a webhook through both services; `Send*`: `MessagesService.Send`; `MarkRead`: `UpdateUnreadCount`; `Sync*`: `FanpageService.Syncing`. `counted`, `reset`, `announced`, `shown` record history |
| `QrLogin` | Telegram QR login | `entry`: the map `sessions`; `watched`: the client a watcher holds; `pc`: the await an attempt is suspended at. `Connect`..`Disconnect`: `createQrLogin`; `Expire` and `Scan`: the two callbacks that race on `settled`; the rest: the handler |
| `Pages` | pages, tokens and members | `fanpages`: the rows in the order of their ids, each with its `page_tokens` row or `NoToken`; `members`: `user_pages`; `job`, `pc`, `at`, `row`: what each request was asked, awaits, has come to. `Connect*`..`Connected`: both connections; `Renew*`: `TokenRenewal`; `Invite*`, `Remove`: `UserPageService`; `Fail` |
| `Sync` | the synchronisation of one page | `status`: the column; `shown`: the last one the screens were told; `stored`: `live_messages`; `pc`, `at`, `listed`, `cursor`, `open`, `dropped`: a run's loop, its listings, its workers (`pLimit(3)`) and the dialogs it gave up. `Begin`..`TellFailed`: `updateSyncStatus` and its message; `List`..`AllImported`: the imports of both platforms; `BeginFails`, `TryFails`, `DialogFails`, `CatchFails`, `Crash` |
| `Copy` | labels, categories and quick replies of several pages | `labels`, `categories`, `replies`, `tags`: the tables; `cache`: `categoryCache`; `pushed`: labels on the screens. An edit is one action with its foreign keys and unique constraints; an undefined or NULL page is `NoPage`, and `Scope` what a condition on it selects; a copy goes from statement to statement (`CopyLabels`..`SaveLabel`, `CopyReplies`..`SaveReply`); `TagPush`, `TagStore`: a label put on a conversation |
| `Paging` | a reading of one list, page by page | `key`: where each row stands in the order of the query; `ids`: what the first of two statements returned; `page`, `shown`, `more`: what the reader was given. One action per `getPaging`; `Insert`, `Delete`, `Upsert`, `Edit`: what moves rows meanwhile; `Upsert` is a new `created_at`, of a conversation (`findOrCreateConversation`, an import) or of a `user_pages` row (a page connected again), and takes a row to the front or, when its statement comes late, back |
| `SessionProofs`, `CacheProofs`, `InboxProofs`, `QrProofs`, `PagesProofs`, `SyncProofs`, `CopyProofs`, `PagingProofs` | theorems | section 5 |
| `MCSession`, `MCCacheAside`, `MCInbox`, `MCQrLogin`, `MCPages`, `MCSync`, `MCCopy`, `MCPaging` | instances for TLC | symmetry sets, workloads, batches, keys, jobs |

The modules meet in the rows they share: a page that `Pages` connects is the one
that `QrLogin` reports and `Sync` imports into; the import's clash with a webhook
on one conversation is part of `Inbox` (`Sync*`); the lists that `CacheAside` keeps
and `Paging` reads show the rows of `Copy`. No step of one module waits for a step
of another one; where a write of one matters to another, it is a free action there
(`Sync*` of `Inbox`, `Receive` of `Sync`, the writes of `Paging`).

Accounts and conversations share no key and no row with their likes, nor do the
cached lists of one page with another's, so one of each is modelled; `Pages` and
`Copy`, where pages meet, have several. Definitions
called "Mutant of ..." are plausible bugs of a definition; none takes part in a
specification. `PROJECT.json` says which property each of them must break.

Data is abstracted to what the properties tell apart: a JWT is the `is_online`
claim and the second it was signed in (a login reads the clock once for each of its two
tokens), a list is a version, a message is its
number, a time stamp in the inbox the number of messages stored before it. A page
token is the page it is of and the request that fetched it; a label, category or
reply is its id, page and name or content, without colours and pictures; a row of
a list is the position its sort key gives it.

## 3. Assumptions

* `SlowHolder = FALSE`: a live refresh is done before the lock's TTL of 5 s is
  over. The code relies on it without saying so: the lock is deleted without
  looking whose it is. `SlowHolder = TRUE` is in the module and refutes
  `RefreshExclusion`.
* The unique constraints that the entities declare exist in the database:
  `live_messages.facebook_mid`, `conversations (page_id, customer_id)`,
  `users (email, provider)`. TypeORM does not create them
  (`synchronize: false`), and of the third the dump in the repository has no
  trace.
  `Pages` and `Copy` rely on `fanpages.page_id`, `user_pages (user_id,
  fanpage_id)`, and `(fanpage_id, name)` of labels and categories, and on the
  foreign keys of replies (SET NULL) and of conversation labels (CASCADE).
* `CategoriesOffered` (`Copy`): an agent files a reply under a category of the
  reply's page, as the screens offer them. No statement checks it: the foreign
  key takes a category of any page.
* `SyncAssumption`: a message replies to an older one of its dialog. The messages of
  a dialog only become more; the id of a message is its position.
* `SelectionShown` (`Copy`): an agent selects among replies that are there, in the list
  of a page. A key beyond the counter could come to select a row that the copy itself
  has inserted.
* `CopyAssumption`: the tables at first hold rows with ids of the counter, each once,
  on a page or, where `fanpage_id` is NULL, on none.
* `PagingAssumption`: a limit of at least one, which the DTO demands.
* `Requests` is finite in the inbox and in `Pages`, and every slot serves one request.
* `Resets \subseteq Nat`: a page sets the unread counter to no negative number.
* A webhook's events belong to one conversation, and a delivery may be repeated
  at any time, as Facebook does until it gets a 200, and after it.

**Faults.** With `Faults = TRUE` any awaited call may reject and any process
may die between two awaits. A call that rejects may have taken effect where
that makes a difference (`CommitUnheard`, `SendPost`, `HandlerFails`, `TryFails`).
`Pages`, `Sync` and `Copy` always have these faults: a request may end at any
statement, a run of `Sync` in its catch block, which may fail as well. A statement
of `Pages` or `Copy` that took effect and was not heard is the statement followed
by a failure of the next one.

**Fairness.** Safety needs none. `Session!FairSpec`: a suspended request goes on
(the event loop resumes it when its call is answered) and the lock's TTL fires
(`SET ... EX 5`). `QrLogin!FairSpec`: a timer
that was set fires, and an awaited Telegram or gRPC call is answered or rejected
in the end; not assumed are a scan and an answer of `_switchDC`, of which the
code says that it may hang (line 276). That the other calls are answered is an
assumption about GramJS and gRPC: the code gives them no timeout.
`Sync!FairSpec`: a run goes on, since each awaited call is answered or rejects and
the event loop resumes the run; that is `WF_vars(Syncing(r))` per run, in which
the faults are not counted on. Neither is a run's start nor an arrival.

**Deadlock.** The runs say `CHECK_DEADLOCK FALSE` because a slot that has served
its request is used up, and a specification without free slots stops.

## 4. The runs

| Run | Instance | Shows |
|---|---|---|
| `session_all` | 3 requests of login, LoginV1, logout, refresh; faults; expiry; 2 s | types, `RefreshExclusion`, `LockNotLeaked`, `TokensMatch` |
| `session_refresh` | 3 refreshes; faults | `OnlyLoginInstalls`; `LockRecovered` under fairness |
| `session_presence` | 3 requests of login, LoginV1, logout; faults; expiry | `PresenceWhenQuiet` |
| `session_late_refresh` | login and refresh | **violated**: `OnlyLoginInstalls` |
| `cache_all` | 3 requests; all twenty edits; faults | types, `StaleIsDropped` |
| `inbox_all` | 3 requests; 2 messages, the second a reply to the first; batches, receipts; agents, imports, faults | types, `AckedIsHandled`, `UnreadIsExact`, `KeepsPromise` (implements `Ledger`) |
| `qr_all` | 3 attempts, two under one sessionId; restarts | types, `SuccessIsConnected`, `FinalIsKept`, `WatchedSettles` |
| `pages_all` | 3 requests of any kind; a Facebook account of 2 pages, a Telegram session; 1 user; faults | types, `TokenlessIsLost`, `TokenOrigin`, `AnsweredIsConnected`, `RowsAreUnique`, `LostForever`, `KeepsRegister` (implements `Register`) |
| `sync_all` | 2 runs; 2 dialogs of up to 3 and 1 messages, listings of 2, 2 workers; either platform; faults, crash | types, `SyncingHasRun`, `ShownIsStatus`, `SuccessIsComplete`, `KeepsHistory` (implements `Import`); `SyncingEnds` under fairness |
| `copy_all` | 2 pages and rows of no page; 3 requests, at most two of them copies (into a page or into none), the third an edit, a deletion or a label put on a conversation; faults | types, `CategoryIsOwnPage`, `CopyIsPrefix`, `CopyStaysInTarget`, `PushedIsStored` |
| `paging_all` | any of 8 lists; 4 rows, 2 sort keys, pages of 1 | types, `NothingSkipped`, `NothingTwice` |

**Bounds.** Three requests let a third actor come between any two steps of two
others; the races of this code are of two or three (holder, loser, login;
reader, two edits; webhook, redelivery, import). Two seconds tell an old token
from a new one. Two messages are a reply and what it refers to, and a batch of
more than one. `MaxWrites = 2` lets an entry be outdated twice. Two attempts
under one sessionId and one of its own cover both cases of `FinalIsKept`.
In `pages_all` an account of two pages makes "the last one stays" differ from "its
own stays", and three requests let two race while a third loses its page. In
`sync_all` a listing of 2 of 3 messages leaves one out, one message replies to
another and one is empty, and a second dialog lets a worker fail beside one that
goes on. In `copy_all` the pages share a name of a label and of a category, and the
selection has two replies of one category, so that the cached, the found and the
created category all occur. In `paging_all` four rows are four pages, and two keys
leave rows that only the id tells apart.
Bounds in guards: `MaxTime` (`Tick`, `SignPair`), `MaxWrites` (`Change`), `MaxMessage`,
`MaxMessages` (`Receive`).
Requests are identified up to permutation in safety runs only.

Some runs leave part of the workload out, because the code breaks the property
there:

* `session_refresh` has refreshes alone; `session_late_refresh` adds the login.
* `session_presence` is without refreshes, for the same reason: one that saves its
  pair after a logout brings back a session whose owner is offline.
* `paging_all` exempts a list of roles with two rows of one time (`Unambiguous`).

## 5. The proofs

`tlapm` checks them without assumptions but the named ones of the modules and
those in the statements.

* `SessionProofs`. `TypeCorrect`. `RefreshIsExclusive` (if `SlowHolder` is FALSE):
  exclusion is not inductive, but "whoever is in the section holds the lock"
  (`HolderInv`) is. `LockIsNotLeaked`: inductive over types. `TokensAlwaysMatch`:
  `MatchInv` adds the pairs that requests hold and that no refresh token is from the
  future. The access token is signed first, so that the refresh token of a login may
  carry the second after it; a later access token is never older. `SessionsAreOnline` (no refresh in the workload; failing calls and
  crashes included): `PresenceInv` says which suspended request will yet set the flag
  or delete the session, or which broke off at just that point. `RefreshNeverInstalls` (refreshes alone): `RefreshInv` says
  a pair about to be saved has the refresh token of the session.
* `CacheProofs`. `TypeCorrect`; `EditsDropWhatTheyOutdate`, for any workload and with
  faults: inductive over types, since an edit that has outdated an entry is about to
  drop it, or from then on is one of those left behind (`LeftBehind`).
* `InboxProofs`. `IInv` joins types, `Rows` (a mid has one row; a webhook past its
  INSERT holds the row of its message, and no two hold one), `Progress` (counted
  messages are stored, announced ones counted, and what a webhook has yet to do
  has not been done) and `Carried`. From it follow `AcknowledgedIsHandled`,
  `UnreadAlwaysExact` (a count adds a message that is in no earlier count) and
  `InboxKeepsPromise`, the refinement of `Ledger`: a webhook's `Save` is `Store`,
  `Count` is `Count`, `Emit` is `Announce`, an import is a `Store` of many, all else
  stutters.
* `PagesProofs`. `Shape` joins types and what a suspended request's place in its
  code says of its job, its item and its row; over it `RowsAreUnique` is inductive
  (`PagesAndMembersAreUnique`). `LostInv` adds that a row without a token belongs to a
  request at `insertToken` or is lost, and that no two are there with
  one row, or with a lost one: `TokenlessPagesAreLost`, `LostPagesStayLost`. `OriginInv` says of
  each token which request wrote it and how far that request's loop has come:
  `TokensHaveOrigin`. `ConnectedInv` says that a connection has been through with all
  items before its own: `AnswersMeanConnected`. `PagesKeepRegister` is the refinement of
  `Register`: the INSERT of a page is `Enter`; that of its token `Complete`, a failure
  just before it `Lose` (both need `LostInv`: no other request is about to insert that
  token); an upsert or INSERT of a member is `Join` or `Raise`, a DELETE `Leave`; no
  other statement moves a page (`StatesKept`), for an UPDATE never creates a token.
* `SyncProofs`. `Inv` joins types, `Place` (what a run's place in its code says of its
  listing, its open dialogs and the platform) and `Imports` (all that a Facebook run
  listed of the dialogs behind it is stored; of a Telegram dialog, all that is newer
  than its cursor). From it `SuccessMeansComplete`. `SyncingInv` (some run has yet
  to write the outcome, or was lost) and `ShownInv` (undisturbed, one run at most, and
  it is about to push what it wrote) give `SyncingMeansRun` and `ScreensShowStatus`.
  `SyncKeepsHistory` is the refinement of `Import`, which knows no platform, loop,
  page size or worker: `HistoryInv` adds to `Inv` that of a dialog a run has not come
  to it has been given nothing (`Fresh`), so that a listing only adds to what the run
  owes (`Take`), and a run in its catch block owes nothing. An INSERT or an upsert is
  `Keep`, a rejected reply or a failed listing `GiveUp` of the dialog, `Succeed` is
  `Declare`, which needs `Imports` to show that nothing owed is missing, an error
  `Break`, the catch block `Fail`, a crash `Die`; pushes and loop heads stutter.
  `RunsWindUp` is the part of `SyncingEnds` that is not temporal: four finite sets
  bound what a run has yet to do (`Todo`: stages of its code, turns of its loop,
  dialogs, messages not listed or not behind the cursor), each of its steps makes the
  first one that changes smaller (`Less`), and nobody else's step changes any.
* `CopyProofs`. `Inv` joins types, `Place`, `Keyed` (ids come from the counter, each
  once), `Own` (a row stays on its page), `Cached` (what a copy remembers as a
  category of the landing page is none of another page), `CategoryIsOwnPage` and
  `Pushed`. From it `CategoriesAreOwn`, `PushedLabelsAreStored` and
  `CopiesStayInTarget`; the last needs `CategoryIsOwnPage`, since deleting categories
  changes every reply filed under them, and exempts a replace without a landing page,
  which empties every page where TypeORM drops the condition. `Solo` says that beside an undisturbed copy
  no request is under way, so that every step is its own. `LabelsInv`: the rows
  there are were there before or are copies under later ids, and the name in hand is
  the selected one or stands there already; hence `LabelsCopiedInOrder`.
  `RepliesInv`: what was there remains but for what is replaced or on no page (`Remain`), a
  remembered category has the name of the one it stands for (`Recall`), the reply in
  hand is the selected one (`InHand`), and the replies that look alike are as many as
  the keys behind that select such a reply, plus those there were (`Counted`). Each
  `SaveReply` adds one to both sides, hence `RepliesCopiedOnce`, and from both lemmas
  `CopiesArePrefixes`.
* `PagingProofs`. A page is what the list has between two sets of leading rows; that
  leading sets form a chain is the lemma the rest hangs on. `Front` bounds how far
  the rows shown reach if no row came (`RowsAreShownOnce`), `Behind` how far they
  must reach if none left (`RowsAreNotSkipped`), both for any limit and list. A row that an upsert takes back
  counts as one that left: it may have been shown, and the rows behind it move up.
* `QrProofs`. `IInv` joins types, `Working` (a watcher has a client; who waits for
  the answer of the gRPC call has connected its page) and `SettledByDone` (a final
  status was filed by an attempt that is through). From it `SuccessAlwaysConnected`
  and `FinalAlwaysKept`, for any sharing of sessionIds. `WatchersWindUp`, the part of
  `WatchedSettles` that is not temporal: a watcher's awaits are seven at most, none is
  come to twice, and its last step leaves no `waiting` under its key.

Only model-checked: the liveness properties (`LockRecovered`,
`WatchedSettles`, `SyncingEnds`; fairness and ENABLED are beyond the prover)
and the violation. Of `SyncingEnds`, `RunsWindUp` and `SyncingMeansRun` leave to TLC that
a run under way always has a step, which its fairness then takes; of `WatchedSettles`,
`WatchersWindUp` leaves the same of an attempt. No recursive operator is used.

## 6. Disagreements between the code and what it says

The violated run, quoted in `PROJECT.json`: in `session_late_refresh` a refresh saves
its pair over whatever happened since it read the session, so it undoes a login or
brings back a session that was logged out.

Met on the way and visible in the modules, without a run of their own:

* The loser of the refresh lock waits 300 ms and may answer with the pair the
  winner is about to replace (`RefreshWait`; comment at `users.service.ts:50`).
* The first social login ends in 500 after it has created the account
  (`LoginV1Clear`, `"clearNew"`), and a wrong password in 404, where the README
  says 401 (`LoginWrongPassword`).
* `last_message_id` is written by the webhook that comes last, not by the newest
  message (`Count`; `conversation.entity.ts:52`), and `created_at` by every upsert
  (`Touch`; `conversation.entity.ts:71`).
* A first `ExportLoginToken` that rejects leaves a QR session in `waiting` for good
  (`CreateFails`), and `deleteQrSession` has no caller.
* `LoginV1` never reads `is_deleted`, where the README says 403 (`LoginV1Find`;
  `users.service.ts:150`, `README.md:122`).
* `landing_id` of a copy is optional (`label/index.dto.ts:84`,
  `quickReply/index.dto.ts:26`). Without it an append files the copies under no page;
  the delete of a replace has `{ fanpage_id: undefined }`, and whether that is every
  row of the table or an error is left to the version and the settings of TypeORM.
  Both are modelled (`Scope`, `Boundless`), and `CopyStaysInTarget` exempts just this
  replace.
* `created_at` of an upsert is read before its statement, so that a late one takes a
  conversation or a member back in its list, and a reading that passed it skips a
  row (`Upsert`, `NothingSkipped`).
* Restoring, copying and deleting all labels, logins, page connections and token
  renewals drop no cached list they outdate, a failed DEL is swallowed, and a reader
  overtaken by an edit stores the old rows: such an entry stays until its TTL, a day
  (an hour for a user; `CacheAside`; `StaleIsDropped` names all these cases and shows that
  there are no others).
* Deleting or renaming a category leaves `quickReply:<page>` with its name until the
  TTL (`CacheAside`).
* A crash between the INSERT of a message and the UPDATE of the counter loses the
  increment, since the redelivery fails on the unique mid; and the webhook's
  handler returns from inside its loop, so all but the first message of a delivery
  are acknowledged and not stored (`Inbox`, `Ledger`).
* A renewal of one page leaves the token of the account's last page in it
  (`RenewToken`, `TokenOrigin`).
* A Telegram import stores the newest message first, under a foreign key on what
  a message replies to: a reply is rejected and takes the older messages of its
  dialog with it, and the run ends in `success` (`StoreMessage`).
* `PUT restore/:id` of a label validates its parameters against a DTO that wants a
  `page_id` the route does not have: it answers 400, so `Restore` is no action of
  `Copy`.

## 7. Not modelled, and what could follow

Left out for good: the encoding of responses and tokens, validation of DTOs
beyond what decides between branches, full text search beyond the rank it gives a
row, avatars and attachments, the bot commands of the Telegram service, Kafka
(commented out) and the listener nothing publishes to, and the four skeleton
services. Rooms of the sockets are left out because any client may join any room
and nothing in the code depends on who is in one.

Of modelled parts: creating a role (one check before an INSERT; nothing reads a
role but the login), the lookup of `page_id` that precedes a paging query, the
colours and pictures of labels and replies, an update of a label without
`is_deleted` (a NULL the column refuses), expiry times of page tokens, and
`deleteQrSession`, which nothing calls.

What could follow: a composition of `Pages` and `Sync` that asks which token a run
uses.
