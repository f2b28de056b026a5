# TLA+ models of Semaphore Chat

Semaphore Chat is a self-hosted chat and voice server: a NestJS backend
(`src/backend`), a React client (`src/frontend`), PostgreSQL through Prisma,
Redis, and LiveKit for voice. Several backend instances can run side by side;
what they share is PostgreSQL, Redis and the Socket.IO Redis adapter. Nothing
in the code runs threads, but every `await` lets other requests run, and
requests on different instances run truly at once. This directory models the
parts where that matters.

Paths below are relative to `src/backend/src` unless they say otherwise.

## 1. Inventory

| Part | State | Operations | What is hard | What makes it correct |
|---|---|---|---|---|
| Sessions and refresh tokens (`auth/auth.service.ts`, `auth.controller.ts`, `session-lock.util.ts`) | `RefreshToken` rows (family, consumed, device), row locks on `User` and on tokens, successor keys in Redis | sign-in, refresh (rotation, grace window, reuse detection), logout, revoke one / all others, clean-up | transactions at READ COMMITTED interleave; an answer is lost and the refresh repeated; a revocation overtakes a refresh | a session is one chain of tokens; a revoked session has no row again; a retry gets the current token |
| Access token revocation (`auth/token-blacklist.service.ts`, `session-revocation.service.ts`, `jwt.strategy.ts`) | Redis: markers of sessions, blacklisted tokens, a cutoff per user, each with a TTL | mark, blacklist, cut off, check | state is written after the database commit, in separate calls; TTLs against token lifetimes | no access token of a revoked session is accepted while it lives |
| Account administration (`user/user.service.ts`, `auth/password-reset.service.ts`) | `User.banned`, `hashedPassword` | ban, delete, reset | a ban or reset in the middle of a sign-in or refresh | nobody banned is renewed, old passwords open nothing |
| Socket sessions (`rooms/socket-session.service.ts`, `rooms.gateway.ts`, `auth/ws-auth.service.ts`, `rooms/session-revocation.handler.ts`) | per socket: bound token, rooms, expiry timer | handshake, re-check, REAUTHENTICATE, expiry, disconnect by room across instances | every read is an await; the adapter skips sockets still connecting; Redis messages get lost | a socket of an ended session is closed; nobody else's is |
| WebSocket service (`websocket/websocket.service.ts`) | a promise chain per room | emit, emit after redaction | later emits overtaking a redacted one | order per room |
| Voice presence (`voice-presence/`) | Redis: record per user and channel with a TTL, member sets | REST join/leave, LiveKit webhooks, heartbeats, reads that repair | multi-step Redis updates, late and duplicate webhooks | the set and the records agree; a stale leave removes nothing |
| Roles and permission cache (`roles/permissions*.ts`) | Redis: actions per user under epochs | resolve, bump | fill against change, bump inside a transaction, bump fails | no action set older than the last completed bump |
| Channel access (`roles/channel-access.service.ts`) | rows | the visibility rule, room plans | precedence of overwrites | agrees with a reference definition |
| Room subscriptions (`rooms/rooms.service.ts`, `room-subscription.handler.ts`) | socket rooms | join all, follow membership and visibility changes | reads against changes, handlers out of order | a socket is in no room its user may not see |
| Device login (`auth/device-login-grant.service.ts`) | grants in Redis | request, approve, redeem | redeem against a revocation of the approving session | no session from a grant whose approver was revoked |
| Files and storage (`file-upload/`, `file/`, `storage-quota/`) | rows, bytes on a disk or in a bucket, the usage of each user | upload, remove, clean-up and nightly jobs | one of several steps fails; two systems, no common transaction | a file that is served has its bytes; the usage comes right |
| Client message cache (`src/frontend/src/utils/messageCacheUpdaters.ts`, `optimisticSend.ts`, `socket-hub/`, `hooks/useSendMessage.ts`, `useOptimisticSendMessage.ts`) | the rows of a channel in the query cache, placeholders of sends | fetch, handle an event, send, retry, reconnect | three writers: events, fetches read earlier, acknowledgements; any order, lost connections | a message is shown once; no fetch takes back what an event wrote; a failed send can be retried |
| Invites, read receipts | counters and watermarks in rows | check, then write | two requests check the same value | limits and monotonicity |
| LiveKit, replay capture (`livekit/`) | egress sessions in rows and at LiveKit | start, stop, reconcile | two systems, no common transaction | no orphan egress |
| Messages, notifications, friends, moderation, files and the rest | rows | one transaction and one emit each | emit order | permissions |
| Client session handling (`src/frontend/src/utils/tokenService.ts`) | the access token in each tab, a Web Lock | refresh ladder, cross-tab lock | retries against the grace window | a user is signed out only when the server says so |

How they interact. `AuthController` runs the session services inside one
Prisma transaction per request; what follows a commit (Redis markers, then
an event) is in `SessionRevocationService`. That event reaches
`SessionRevocationHandler`, which disconnects rooms through the
`WebsocketService`; the adapter carries it to every instance. Sockets join the
rooms of their session and token in `SocketSessionService`. Access tokens are
checked by `JwtStrategy` (HTTP), `WsAuthService` (handshake, re-check) and
`WsJwtAuthGuard` (messages), all against `TokenBlacklistService` and the `User`
row.

`PROJECT.json` lists each part with its files, and every hazard at its line.

## 2. Modules

| Module | What it is |
|---|---|
| `SessionTokens` | the sessions of one user: rows, locks, transactions, Redis state, access tokens |
| `SessionContract` | what a session promises: opens once, one current token, ends for good |
| `SessionTokens_proofs` | the inductive invariant and the theorems about `SessionTokens` |
| `MCSessionTokens` | instances of `SessionTokens` for TLC |
| `SocketSessions` | the WebSocket connections of one user and the revocations that end them |
| `MCSocketSessions` | instances of `SocketSessions` for TLC |
| `PermissionCache` | the cached actions of one user in one scope, and the role changes that invalidate them |
| `PermissionCache_proofs` | the inductive invariants and the theorems about `PermissionCache` and `EmitOrder` |
| `ChannelPermissions` | the rule for what a user may do in a channel and who sees it, as operators |
| `ChannelPermissions_proofs` | theorems about that rule |
| `RoomSubscriptions` | the rooms of one user's socket, against changes of membership, channel list and visibility; extends `ChannelPermissions` |
| `SocketRooms_proofs` | the inductive invariants and the theorems about `RoomSubscriptions` and `SocketSessions` |
| `MCSocketRooms` | instances of `RoomSubscriptions`, `SocketSessions` and `MessageCache` for TLC |
| `VoicePresence` | one user in one voice channel: LiveKit, Redis, webhooks, revocations |
| `VoicePresence_proofs` | the theorems about `VoicePresence` |
| `MCVoicePresence` | instances of `VoicePresence` for TLC |
| `ReplayBuffer` | one user's screen share recordings: LiveKit, rows, directories, jobs |
| `ReplayBuffer_proofs` | the inductive invariant and the theorems about `ReplayBuffer` |
| `MCReplayBuffer` | an instance of `ReplayBuffer` for TLC |
| `TokenRefreshClient` | the tabs of one browser refreshing the session they share |
| `FileStorage` | the files of one user: rows, bytes, usage, and the jobs that clean up |
| `EmitOrder` | the emits to one room, in the order they reach it |
| `DeviceLogin` | one "sign in with browser" grant and the devices that redeem it |
| `MessageCache` | the messages of one channel as one client shows them |
| `MessageCache_proofs` | the inductive invariant and the theorems about `MessageCache` |
| `MCCaches` | instances of `PermissionCache` and `EmitOrder` for TLC |
| `MCAccounts` | instances of `TokenRefreshClient`, `DeviceLogin` and `FileStorage` for TLC |
| `Accounts_proofs` | the inductive invariants and the theorems about these three |

### SessionTokens

A request is a thread that runs one handler at a time, and an action is the
code between two points where another request can run: a statement inside a
transaction, a Redis call, the commit. `step` is where a request is, and
`tok, nxt, origin, pw, signed, hops, dels, ends` are its local variables.

* `row` holds committed rows only. What a transaction writes stays in its
  request until the commit action, which is what READ COMMITTED gives.
* `held` are locked token rows. The lock on the user row needs no variable:
  the requests in `InTransaction` hold it FOR SHARE, and a revocation, which
  needs it FOR NO KEY UPDATE, is one action from lock to commit, enabled when
  `UserUnlocked`: nothing that takes the lock could run in between.
* `deleteMany` in a sign-in and in the purge of a revoked session sees the
  rows committed when it starts and waits for those it must lock, so it is two
  actions (`LoginDelete`/`LoginStore`, `Purge`/`PurgeFinish`).
* The grace window and the 30-day expiry are events of the environment.
  `clock` advances only when a reset reads it for its cutoff, and then perhaps
  not, since the next token may be signed in the same millisecond.
* `access` are access tokens handed out; one leaves when its expiry is certain,
  and `late` tells those signed while their session's marker was already set
  from those that marker will outlive.
* `Fail` is a crash, or a failed call, at any step: the transaction rolls back, and
  what should have followed a commit never happens.
* `opened, ended, cleared, resetDone, replaced` are history, used by properties.

Left out: registration and device-login redemption (further callers of
`issueLoginTokens`), refresh tokens from before families existed, single
blacklisted tokens (they are in `SocketSessions`), differences between the
clocks of instances, rate limits, cookies, bcrypt (a hash matches or it does
not). A successor key lives 35 s and the window 30 s, so it is never missing
while it is asked for; Redis losing a key by itself is not modelled. Deadlocks
that PostgreSQL breaks are `Fail`. One user: no operation of this part touches
two.

### SessionContract

Each session is `new`, `open` or `ended` and has one current token. `Open`,
`Renew` and `End` are all it does. `SessionTokens!Contract` maps a session to
its live row; `ImplementsContract` says every step of the detailed model is one
of these or changes nothing. It says what the invariants do not: that a
session which ended never comes back, and that a renewal replaces the token
in one step.

### SocketSessions

A call is one handshake or one REAUTHENTICATE. `authenticate` reads the
revocation state and then the user, `attach` or `reauthenticate` binds the
socket, and `confirmBinding` reads both again, in any order, because they are
one `Promise.all`. `owner` is the identity of `socket.data.auth`: the code compares
objects to notice that a later call has rebound the socket.

A revocation is its stored state (`Revoke`, `RevokeAllUserTokens`,
`SetAccount`), then the event and the emit (`Announce`), then one message per
instance (`Deliver`). The adapter acts on connected sockets only, so a
disconnect that arrives during the handshake is missed, and this is what
`confirmBinding` is for. `AnnouncementLost` and `MessageLost` are a failing
request and Redis pub/sub's at-most-once delivery.

Left out: calls end with their socket (everything later is behind
`socket.disconnected`); equal disconnects in flight are one; a REAUTHENTICATE
with another user's token (refused before any effect); the clamp of timers to
2^31 ms; the connection rate limit.

### PermissionCache

A list of actions is the `version` of the roles it was read at: that is all
the property tells apart. A reader is one `resolveActions` (epochs, GET, query,
SET), a writer one role change (its write, collected bumps, commit, one INCR
for each epoch). An action is one Redis or database call.

* `cache` holds the values that have not expired, by the epochs in their key.
* `sets` and `late` are calls `withTimeout` gave up on, or that are simply on their
  way: a SET arrives once or never, at any time after the check answered; so
  does the INCR of a bump that failed.
* `floor` is what a check must at least see: the newest change that had
  returned, all its bumps made, when the check began. A change one of whose
  bumps failed promises nothing, which is what the code's comment says
  (`permissions-cache.service.ts:99-106`); only the TTL ends its stale values.
* A rollback and a process that stops are `WriterStops`: before the commit
  nothing has changed, after it bumps may be missing.

Left out: Redis losing or evicting an epoch key, which would bring old epochs
back; the fallback of `bumpNowOrDefer` for a transaction without a collector,
which no caller uses; `CACHE_VALUE_VERSION`, which only changes between
releases; corrupt values, which are misses. The query reads the roles at one
instant.

### ChannelPermissions

The rule of `roles/channel-permissions.util.ts`, function by function, on an
input record as `ChannelAccessService` builds it: `ComputeOverwrites` applies
the overwrites of everyone, of the user's roles together and of the user;
`CanViewChannel` is the view gate and the overwrites' say on it;
`ComputeChannelActions` puts overwrites, view gate and timeout in the code's
order; `ChannelActionsGranted` is the guard's question, `HasCapability` what the
client shows. `FastViewers` and `SlowViewers` are the two branches of
`viewerUserIds`. Nothing here changes state: the module has theorems and no run,
and `RoomSubscriptions` uses `CanViewChannel` and `IsVisibleToWholeCommunity`.

### RoomSubscriptions

A handler is a request with the domain event it emits (the emitter calls its
listeners in the same process), and an action is the code up to the next
await. `rooms` are the rooms of one socket, among the user's own, the
community's and the channel's. `step` and `seen` are where a handler is and what
it has read.

* SUBSCRIBE_ALL reads memberships and visible channels and joins one room per
  await (`JoinUserRoom` to `JoinChannelRoom`).
* A membership is created, the general channel may list the user
  (`AddMemberToGeneralChannel`, whose failure the code ignores), then
  `onMembershipCreated` reads what is visible and joins. Removal, kick and ban
  are one transaction (`RemoveMembership`) and one leave.
* Channel list: checks, the row, the event. Visibility: `ReadBefore` and
  `UpdateChannel` are `channels.service.ts:204-262`, which syncs the room only if
  the value it read differs from what it writes.
* `SyncChannelRoom` is the plan (`PlanChannel`, `PlanMembers`, `PlanViewers`)
  and its application; a channel the whole community sees joins whoever is in the
  community's room.
* `outdated` and `overtaken` are history. A handler is outdated when another
  commits a change after its last read; a room is overtaken when an outdated
  handler left it wrong. The code makes no promise against this (see below),
  and everything else must be right.

Left out: several communities and channels, and several instances (each
handler acts on all sockets through the adapter, at one moment); rooms of
threads, direct messages and alias groups; channels created and deleted; voice
ejection; the instance owner; crashes. A `Promise.all` reads at one moment.

Known divergences, which the properties excuse and no run counts as a
violation, because the code says nothing that TLC could refute in one property
without the others:

* SUBSCRIBE_ALL reads the visible channels, the user is removed and taken out of
  the room, then the stale join puts the socket back, against
  "whose sockets are exactly its viewers" (`channel-access.service.ts:207-211`).
* `onMembershipCreated` joins the community's room without asking again, so a
  join whose handler is late survives a kick.
* A `ChannelMembership` row created after its check outlives a membership removed
  meanwhile.
* Of two concurrent changes of `isPrivate` the second may see no difference to
  the value it read, and not sync; two plans may be applied in the other order.
* An instance owner taken off a private channel's list leaves the room though
  still a viewer.

### VoicePresence

`here` is the participant LiveKit has in the room for the user, `hooks` the
webhooks on their way, `record`, `member` and `channels` the Redis keys. A handler is
a webhook, a REST call, a heartbeat or a read, one Redis or LiveKit call per
action; a pipeline is one action. Records keep only the sid: names, flags and
join times tell no property apart, so updates of flags and of metadata
(`FlagGet`, `FlagSet`, a repeated webhook with other metadata) matter for writing
an old record back.

`todo` is what revocations have still to do. A session's revocation has its
marker, looks for the rooms its token joined, removes and leaves; the user's reads the
clock, writes the cutoff, then lists rooms from LiveKit and from the presence index,
removes, leaves.

Every call of this may fail, which the code logs and gives up on: a check lets the
participant in (`CheckJoin`), a removal leaves it there (`Deny`, `RemoveFails`), a cutoff is
not written and the removal goes on (`CutoffFails`), rooms that cannot be listed count as none
(`ListFails`, `livekit.service.ts:210-258`), and a marker written without an answer has no event
(`RevokeSessionFails`). A process may die with any of its handlers and revocations (`Dies`). `missed`
is the history of the participants let off by one of these or by a lost join webhook, each
by its own failure: a removal that fails excuses who was in the room then, not who comes
later. What this means for the code:

* LiveKit that does not answer within its timeout hides a participant from a revocation. The user's
  (`session-revocation.handler.ts:178`) then has the presence index, a session's (`:97`) has
  nothing; the index may have lost its entry (a stale leave), or not be readable either.
* Nothing resumes a revocation whose process dies, or whose answer from Redis is lost, between marker
  or cutoff and the removals: the participant's join was checked before, so it stays until it leaves.
* A cutoff that could not be written revokes nothing: participants in the room are removed, but
  a rejoin with an old token is let in. `RevokedParticipantIsReached` speaks of
  what Redis says is revoked, and so not of that rejoin; nor of a reset or ban whose
  `revokeAllUserTokens` throws, after which the voice part never starts.

`Scenarios` are the sets of events a behaviour may have, chosen in `Init`; an instance
with all of them at once is out of reach, and each set has what one question needs.

Left out: DM calls, the ban check of `checkJoin`, `clampPublishPermissions`, more than one
channel (`user_channels` is a Boolean).

A rejoin between the read of `getChannelPresence` and its SREM leaves a record without
a member entry (`voice-presence.service.ts:201-209`): heartbeats then extend the record
and never put the user back into the set. The code promises nothing of it, and no property here
speaks of `member`.

### ReplayBuffer

`egress` is LiveKit's state of each recording, `row` the `EgressSession` status, `dirs`
the segment directories. Requests, webhooks and hourly jobs are handlers; the reconcile pass
runs in every pod (`pass`, `strikes`), guarded by `reconcileInProgress`. A call of `listEgress`
and the strike that follows are one action, the row update the next. Compare-and-swap is
`Heal`: `updateMany` with the status read before.

`blips` counts how often in a row a pod's pass missed a recording that runs; it is reset
when the pod sees it, ends its row, or restarts. `unsafe`: the orphan clean-up met an error of
`stopEgress` for a recording that runs.

Left out: clean-up of old segments of a running recording, clips, the check that segments
are ready, the client's hook. Seen while modelling, and excused or outside
the properties: two concurrent starts leave two active rows; a start that races a
stop fails with 404; a heal may revive a row whose recording has ended until the next pass ends it
(the comment at `livekit-replay.service.ts:835` names it); the orphan clean-up deletes the directory
of a recording it could not stop; an error between two misses does not clear the
first one's strike.

### TokenRefreshClient

A tab runs one ladder at a time (`retryLadderPromise`), for a REST call (`round` 0) or a page load. `phase`
is where it waits: for the lock, an answer, the back-off, the pause. A `Tick` is a
unit of time; what a timer must do comes before the next one, so a timeout fires
neither early nor late. `requests` are with the network, the server or the
client's timeout; the server gets to one within `Grace - Budget` units or never, which is
what `sessionRefreshPolicy.ts:24-25` counts on. The server's part is that of `SessionTokens`, reduced to one chain of tokens.

`excused` marks a ladder whose first attempt sent a token already rotated (an earlier ladder lost
the answer), or whose retry waited for another tab's lock: then the budget no longer bounds the age of the token.
Both really end a session: after the pause of 10 s a new ladder presents the lost token again, 30 s or more after
its rotation; and a retry is scheduled within the budget but sent when the lock is granted, up to 10 s
later for each tab in front of it. The comment of the policy speaks of one sequence of attempts, which is
what `RetriesKeepTheSession` checks.

Left out: Electron, browsers without Web Locks, a page load that is aborted, `SocketProvider`'s ladder
(same policy, same lock), other callers whose refresh ends a back-off early, 403 and 429 (a refusal and "unavailable").

### FileStorage

An upload is one job with a file: multer has written it (`local`), the quota is
read, the bytes go to the bucket or stay where they are (`storage`), the row is
created, the usage incremented, the staging copy removed: one await each. A
removal marks the row, reads the usage and writes it; `MarkForDeletion`
(attachments of a deleted message) only marks. `ListDeleted`, `ReapBytes` and
`ReapRow` are the ten-minute job, `Recalculate` and `WriteSum` the nightly one.
`Refuse`, `CheckFails`, `StoreFails`, `CreateFails` and `CountFails` are the error
paths, which differ in what they clean up: `cleanupFile` takes the staged copy (`CleanUpFile`),
with `cleanupRemoteObject` also the object (`CleanUp`). Each deletion may fail,
which is logged and never thrown, and leaves its copy; `writeStream` may fail after the
object was stored, an insert or an increment after it was committed. `Crash` is a process that
dies; `faults` counts deaths and clean-ups that left something.

`abandoned` and `uncounted` are history. `abandoned` are the uploads whose clean-up was skipped,
failed or died, which `NoBytesLeft` excuses; `uncounted` the rows whose upload failed
after their insert, which `LiveFilesHaveBytes` excuses: see the divergences in
section 3. Left out: thumbnails, checksums and kinds of files (a check passes or
refuses), sizes (every file counts one), the migration between storage types.

### EmitOrder

The i-th call of `sendToRoom` is emit i. One that carries channel mentions
is redacted for the room's audience, which takes queries; `before` is the
promise a later one waits for, `pending` the last promise of the room
(`pendingByRoom`). The callbacks `then` and `finally` are `Run` and `Finally`:
microtasks, some time after the promise settled. A redaction that fails sends
the payload with every mention removed (`RedactionFails`). Left out: the other
rooms, each with its own chain, and what the adapter does with a message.

### DeviceLogin

One grant, from `Authorize` (the approval, checked, then stored in Redis) to
`Redeem` (one script takes it) and the four reads of a redeem request:
the user, the approving session's refresh tokens, whether its access token is
revoked, and the sign-in's own check of the password. Resets, bans, deletion,
the end of the session and the revocation of its access token come between
any two. `stood` is history: the requests that saw the approval stand at some
moment. The sign-in that follows is that of `SessionTokens`; rate limits, codes
and challenges are left out (a verifier is right or wrong).

### MessageCache

One channel's query in one client, at the live edge. `stored` are the server's
rows, `incoming` what the socket will receive, in order. `shown` are the cached rows
of the server's messages, `row` the placeholders of the user's own sends; each try
of a send that reaches the server makes a message of its own, `<<s, a>>`.

* Three writers: events (`HandleNew`, `HandleDelete`), which cancel the fetch under way and
  write; fetches (`FetchRead`, `FetchLands`), which replace the cache by rows read
  earlier; and the promise of a send (`HandleAck`, `GiveUp`), which looks for its placeholder.
  A handler is one action: what it awaits (`cancelQueries`) is settled at once.
* `Emitted` is `useSendMessage`: it emits, or waits up to 5 s for a connection, and gives up 10 s
  after it emitted. An acknowledgement after that is ignored, a late event is not.
* `Drop` loses what is on its way to the client; `strays` are sends the server still
  handles. `Reconnect` is `handleConnect`: it refetches at once, while `Join`, the end of
  SUBSCRIBE_ALL, comes later.
* With mentions, the event is redacted first and follows the acknowledgement (`Create`).
* TanStack Query is external: `cancelQueries` returns a query to what it was before the
  fetch, an invalidated query that is fetching starts again if it has data.

`placed` and `heard` are history. A row and the event about it are stored and sent in one step.

Left out: windows detached from the live edge and older pages (the cache is one
page), updates, reactions and pins (which cancel and write in the same way), attachments,
threads, two sends with the same text ("known v1 gap", `messageCacheUpdaters.ts:200-204`), several clients
of the user.

## 3. Runs

Each passing run has a deadlock check unless the system may really stop: an
account is deleted, or all the tokens of the instance are used up.

| Run | Instance | Question |
|---|---|---|
| `SessionRefresh` | 3 requests, 3 tokens, 1 session, 2 clients, 2 hops, bans | forks, revocation against rotation, retries in the grace window, bans |
| `SessionRevoke` | 2 requests, 3 tokens, 2 sessions, 1 reset, deletion | access tokens and rows after revocations and a reset; refinement of `SessionContract` |
| `SessionReplaced` | violation | a sign-in that replaces the install's session, against a rotation |
| `SessionTwoResets` | violation | two resets whose cutoff writes cross |
| `SocketRooms` | 1 socket; either 2 calls and tokens of 2 sessions, or 3 handlers, 4 requests or connections, 2 sets of overwrites; or 1 message of others, 1 send of 2 tries, 1 lost connection | no ended socket is overlooked, no wrong one hit; nobody is in a wrong room, or misses one, but for the excused races; what a client shows |
| `SocketLiveness` | 1 socket, 1 instance, 1 call, 2 tokens, all incidents | sockets of ended sessions and of expired tokens close |
| `Caches` | 2 checks, 1 role change, losses and late calls; 4 emits | checks see returned changes, stale values end; a room's order |
| `UnsentVanishes` | violation, the same instance of `MessageCache` | a failed send after a reconnect |
| `VoicePresence` | 2 handlers, 2 participants, 7 scenarios, 1 death | revoked participants are removed unless missed; presence comes back, ghosts end |
| `VoiceStaleLeave` | violation, same instance | a stale leave against a rejoin |
| `ReplayBuffer` | 2 recordings, 2 handlers, 1 pod, 6 scenarios | segments kept, two misses needed, rows end |
| `Accounts` | 2 tabs, 3 tokens, 3 ladders; 2 devices, 1 reset, 2 bans; 2 files, 2 jobs, 1 death or failed clean-up, both storage types | a ladder never ends the session, the cookie never goes back, a page load ends; a device is signed in only by an approval that stood; bytes, rows and usage agree in the end |

`SocketRooms`, `Caches` and `Accounts` check several models in one run. These share no
variable: a behaviour is one of one of them, the others stay in an initial state,
and each property speaks of its own model only. Fairness of an action that one
model may take in any state is asked in that model's behaviours only.

Why the bounds are enough to be interesting: three requests let a rotation, its retry and a
revocation overlap; three tokens give a chain of two rotations, so a retry has
to follow more than one successor, and `MaxHops` 2 is reached; two clients
let a retry come from the wrong one; two sessions tell "this session" from
"the others". `MaxResets` and `AdminOps` bound how often an administrator or
the user acts, and `Incidents` and `Revocable` choose which revocations and
failures an instance of `SocketSessions` has, so that each run stays small. Two calls suffice for
`SocketRooms`: a binding is only compared with the one that replaced it.
In `PermissionCache` one change suffices for both races the code's comments
name (a fill against a change, a bump before the commit), since the second
check sees what the first one cached; two changes at once exceed five minutes, and
the theorem covers any number. No state constraint is used; tokens are never reused, so the
token set bounds the runs.

In `RoomSubscriptions` three handlers let a change, a second change and a
SUBSCRIBE_ALL or a sync overlap, and `MaxOps` 4 bounds requests and connections.
In `VoicePresence` two participants are a rejoin or a takeover, `MaxRepeats` is
one webhook sent again, and `MaxClock` 1 gives tokens before, at and after the
cutoff where the clock ticks ("tick"). One process dies (`MaxDeaths`), with any of what runs, in the
scenario of a session's revocation; the user's, which dies the same way, is left to the theorem, as are
failures and deaths together. In `ReplayBuffer` two recordings are one that replaces another, `MaxBlips` 2
reaches the second miss, `MaxCrashes` is 1. `TokenRefreshClient` scales time: timeout
and pause 1 (10 s), back-off at most 2, budget 2 (12 s), grace 4 (30 s), 3 attempts (4), 2 rounds (3): retries
after a timeout and within the budget, one past it, and answers past the grace window
all occur; `MaxToken` and `MaxStarts` bound tokens and ladders, those of a page load counted ahead so that
it can finish. In `FileStorage` one file can be removed while another is uploaded or
reaped, `Quota` 1 lets two uploads pass a check only one should, and one fault (`MaxFaults`) is
a death between any two steps or a clean-up that leaves a copy; four emits are two redactions with plain emits between and behind;
a second ban reaches a redeem that passed the first, `MaxPassword` 2 is one reset. In `MessageCache` a
message of another user and one send with a retry give every order of event, acknowledgement,
timeout, fetch and deletion; the connection is lost once, at any point. The theorems cover any numbers.

Every property has a bug (`Mutant...` in the modules) that it finds: a lock not
taken, a password not compared, `<` for `<=`, a TTL too short, rooms not left,
a check not repeated, an error that lets the socket stay, epochs read again
for the fill, a bump before the commit, a value without a TTL, rooms searched
in the presence index only, heartbeats that only extend, a first miss that
counts, an ignored error, retries without a budget, a lock not asked for, a clean-up that
leaves the bucket's copy, a staging file removed under LOCAL, a sum over deleted rows, a job
that stops at its first error, a plain emit that does not wait, a message dropped when its redaction
fails, an approval checked by its access token only, a fetch not cancelled, an event that
is only prepended.

### Findings

* **A replaced session can live on** (`SessionReplaced`). Sign-ins and
  rotations both take the user row FOR SHARE. A rotation that is in its
  transaction when a sign-in of the same install starts its `deleteMany`
  commits a row the delete does not see, so the session the comment at
  `auth.service.ts:199-200` calls unable to refresh any more refreshes, once
  its marker is gone or if it was never written.
* **Two resets can lower the cutoff** (`SessionTwoResets`). `revokeAllUserTokens`
  reads the clock and writes in two steps, without comparing; the earlier
  reset's late write re-admits access tokens the later one revoked.
* **A stale leave can remove a newer presence** (`VoiceStaleLeave`).
  `leaveVoiceChannel` compares the sid and deletes in two steps; a rejoin's sid stored in
  between is wiped, which the comment at `voice-presence.service.ts:90-93` says cannot happen.
  The client's next heartbeat registers it again (`PresenceIsRestored`).
* **A message that was not sent can vanish** (`UnsentVanishes`). The placeholder of a send lives in
  the cache that a reconnect refetches. The refetch replaces it, and the timeout then marks
  nothing as failed: no row, no retry, no toast, against `messageCacheUpdaters.ts:195-198` and
  `useMessageFileUpload.ts:73-75`, which rely on the row.

Seen in `MessageCache`, without a run: `messageQueryKeys.ts:8-9` says "WebSocket events keep message
data fresh", and fetches only on reconnect. An event that arrives while that refetch (or the
first fetch) runs cancels it, and nothing starts it again, so what was posted while the
connection was down stays missing, or the channel empty, until the next reconnect or mount;
so does what is posted between the refetch's read and `Join`. A fetch that read before the
user's own message was stored, and lands after its acknowledgement, takes it away until its event arrives.

Divergences seen in `FileStorage` that its properties excuse (history variables)
and no run counts as a violation, because the code's comments speak of parts of them only:

* `file-upload.service.ts:158` says "Ensure file is cleaned up on any error"; the handler
  cleans up after refusals and after a failed store or insert, but an unexpected error of
  the quota query or of the checks leaves the staged file (`CheckFails`).
* A `writeStream` that fails once the object is stored is cleaned up locally only (`:95-99`,
  `StoreFails`), so the object stays without a row.
* Deletions that fail in a clean-up are logged (`:204-220`, `:243-250`), and no later job looks for
  files without a row: what they leave, stays (`CleanUp`, `CleanUpFile`).
* The `catch` around the insert covers the increment of the usage too. If that
  fails, or the insert's answer is lost, the bytes of a row that exists are deleted (`CountFails`,
  `CreateFails`), although "a failed upload
  must never produce an orphan row" (`file-upload.service.ts:83-84`).
* Deleting a local file that is gone fails, so its row is never reaped.
* `file.service.ts:82` says the quota was decremented when the file was marked; that
  holds for `remove`, not for `markForDeletion`. The nightly sum sets it right (`UsageIsRestored`).
* Two uploads may pass the quota check together and exceed it.

## 4. Fairness

`SessionTokens` has safety properties only, and no fairness: a client may
never come back. `SocketSessions` has `SocketFairSpec`: a check that was started
finishes or fails (`Confirm`: Redis and database calls return), a stored
revocation is announced (`Announce`: the next statement of the same request),
a message is delivered (`Deliver`: the adapter's subscription), an expiry timer
fires (`OnExpiry`: `setTimeout`). Weak fairness is enough for each, since none
is disabled again by others without the goal being reached. Losing a message
is always possible, and then `EndedSocketCloses` promises nothing, while
`ExpiredSocketCloses` still does. Clients are not fair: they may never
reauthenticate or leave. In `PermissionCache!FairSpec` a check that has its answer
fills the cache, an outdated SET arrives or is lost, and an outdated value's
TTL ends (every SET has an `EX`). No fairness is given to bumps:
`StaleValuesEnd` must hold if none lands.

`VoicePresence!FairSpec`: a handler that started goes on unless its process dies (as often as
`MaxDeaths` says), a record nobody extends expires once the user is gone. Webhooks and revocations get
no fairness. Heartbeats get strong
fairness, since the record they restore may come and go by other handlers: they are sent
every 30 s while connected, against a TTL of 90 s. `ReplayBuffer!FairSpec`: handlers go on,
the cron starts a pass every minute, and `listEgress` does not fail for ever (strong
fairness for its answer; webhooks get none, as the passes must do without).
`TokenRefreshClient!FairSpec`: time passes, timers fire, a lock that stays free is
granted to a waiting tab; nothing is assumed of the network or the server.
In `FileStorage` and `EmitOrder`: a request that started goes on, or fails (weak fairness for `ContinueJob` and `ContinueEmit`); the two
scheduled jobs start again and again (strong fairness: a pod that is busy or dies only
delays them); microtasks run and queries answer or fail (`EmitFairness`). Nobody must
upload, remove or redeem anything. `RoomSubscriptions`, `DeviceLogin` and `MessageCache` have
safety properties only.

## 5. Proofs

Every invariant and every action property of the passing runs is proved, for
any values of the constants that satisfy the assumptions below; TLC checks them
on small instances (section 3), and shows there that they are not empty: each has a
mutant of the code that breaks it.

| Module | Theorem | What it states |
|---|---|---|
| `SessionTokens_proofs` | `TypeCorrect` | `TypeOK` |
| | `NeverForks` | `OneLiveToken` |
| | `RevokedForGood` | `RevokedSessionHasNoRow` |
| | `OnlyCurrentPassword` | `RowsOfCurrentPassword` |
| | `SendsCurrentToken` | `SentTokenIsCurrent` |
| | `NeverRenewsBanned` | `BannedNeverRenewed` |
| | `RevokedAccessStaysRejected` | `RevokedAccessRejected` |
| | `ResetRevokesOlder`, `OneResetRevokes` | `OldPasswordAccessRejected`, see below |
| | `ImplementsSessions` | `ImplementsContract`: the refinement of `SessionContract` |
| `SocketRooms_proofs` | `RoomsTypeCorrect`, `SocketTypeCorrect`, `AllTypesCorrect` | the types, apart and composed |
| | `RoomsShowNoMore` | `ViewersOnly` |
| | `RoomsShowNoLess` | `NoViewerMissing` |
| | `RevocationsReachSockets` | `EndedSocketIsReached` |
| | `DisconnectsHitTheirOwn` | `RevocationHitsOnlyItsOwn` |
| `MessageCache_proofs` | `TypeCorrect` | `WindowTypeOK` |
| | `ShownOnce` | `NeverBoth` |
| | `EventsStay` | `EventsArePermanent` |
| `PermissionCache_proofs` | `TypeCorrect`, `CachesTypeCorrect` | `TypeOK`, and with `EmitOrder`'s types |
| | `ChecksSeeReturnedChanges` | `FreshAnswer` |
| | `EmitsKeepTheirOrder` | `SentInOrder` (of `EmitOrder`) |
| `Accounts_proofs` | `AccountsTypeCorrect` | the types of the three models |
| | `SignedInByApproval` | `ApprovalStood` (of `DeviceLogin`) |
| | `ServedFilesHaveBytes`, `NoOrphanBytes` | `LiveFilesHaveBytes`, `NoBytesLeft` (of `FileStorage`) |
| | `CookieOnlyAdvances` | `CookieNeverGoesBack` (of `TokenRefreshClient`) |
| | `NoRetryEndsTheSession` | `RetriesKeepTheSession` |
| `VoicePresence_proofs` | `TypeCorrect`, `RevokedIsReached` | `TypeOK`, `RevokedParticipantIsReached` |
| `ReplayBuffer_proofs` | `TypeCorrect`, `SegmentsOfRunningStay`, `TwoMissesEndARow` | `TypeOK`, `LiveSegmentsKept`, `OneBlipEndsNothing` |
| `ChannelPermissions_proofs` | nine theorems | the rule of channel permissions, see below |

The assumptions are those that the modules state, and TLC evaluates each of
them in a run. Most name a bound as a number or keep a `None` apart. The ones with
content: `TimeAssumption` (`Budget < Grace`, as in `sessionRefreshPolicy.ts`), `FilesAssumption`
(finitely many files), and that `OverwriteChoices` of `RoomSubscriptions` holds
only overwrites the API accepts.

### The sessions

`SessionTokens_proofs` is about any sets of requests, tokens, sessions,
clients and devices and any bounds.

The properties are not inductive: whether a rotation forks its session when it
commits depends on what it found some statements ago. The inductive invariant
is `Inv == Typed /\ Order /\ Safe`.

* `Typed` is `TypeOK` with `Known`: the tokens a request works on were minted
  for a session.
* `Order` is what requests rely on between their statements. `Locks`: rows are
  held only inside a transaction, never by two requests, and a sign-in about
  to commit holds every row it deletes. `Pending`: under its token's lock a
  refresh either rotates a live token or has found a live successor of the same
  session made for its own client; a sign-in's new token has no row and is
  nobody else's. `UserLock`: until they commit, a sign-in's password is the
  current one and a refresh's account is active.
* `Safe` are the properties, with `EndedSessions` for `RevokedSessionHasNoRow`:
  a revoked session was opened before, has no row, and is not the one a
  sign-in is opening.

`TypedStep`, `OrderStep` and `SafeStep` show that every action keeps each part,
action by action; the lemmas before them say what `Begin`, `Answer`, `Unlock`
and a revocation do to the requests. Most steps fall under a few of them:
`DoneOrder` and `DeleteOrder` for a request that ends its transaction,
`MintOthers` and `MintSafe` for a new token, `UndisturbedSafe` and
`DeleteSafe` for steps that store no row and for those that end sessions. The invariants follow from `Inv`, the two
action properties from `Inv` in the state before the commit.

Access tokens need invariants of their own beside `Inv`.
`RevokedAccessStaysRejected`: `Cleared` says that what a revocation is
about to mark has ended, and that every access token of a session whose
revocation finished has its marker and was not signed so late that it outlives it. A
sign-in or refresh that raced it could only have committed before.
`OneResetRevokes` assumes `MaxResets <= 1`, because with two resets the property is
false (`SessionTwoResets`, a finding): the earlier reset may
write its cutoff last. What holds of any number of resets is
`ResetRevokesOlder`: when a cutoff is written, it covers every access token
of a session opened before that password (`CutoffCovers`).

`ImplementsSessions` maps each step to a step of `SessionContract` or to a
stutter. `OpenedOnce` says that the id of a new session is nobody
else's; then a sign-in's commit is `Open` with the sessions it
replaced (`CommitOpens`), a rotation's commit is `Renew` (`CommitRenews`), whatever
deletes rows ends sessions (`EndsOrStutters`), and no other step makes a row current.

### The permission cache and emits

`PermissionCache_proofs` proves `TypeCorrect` (`TypeOK`) and
`ChecksSeeReturnedChanges` (`FreshAnswer`) for any sets of readers and writers and any
bound, from `BoundAssumption` and `NoneAssumption`. `FreshAnswer` alone is not
inductive: what a check finds depends on every SET that can still arrive. The
invariant is `TypeOK /\ KeysPast /\ Bounded /\ Settled /\ Checks`. `KeysPast`: every key
in the cache, in a SET or in a check consists of epochs that have passed,
so a bump makes a key that nothing uses (`NewKeyIsEmpty`). `Covered(k, n)`:
what is or will be stored at `k` is at least version `n`; a step disturbs it
only by a database read, which is newest (`CoveredStep`). `Settled`: the current key
is covered up to every change whose bumps are made. `Checks`: so is the key a
check captured, up to its `floor`.

Emits, in the same module: `EmitInv` adds `Chained` to the types and to `SentInOrder`. An emit that waits
waits for the one before it, if that was not sent when it was called, so when it is
its turn all earlier ones are sent.

### The rule of channel permissions

`ChannelPermissions_proofs` proves, for any actions, users, roles and overwrites:
who cannot see a channel can do nothing in it (`HiddenMeansNothing`); a timeout wins over every
overwrite, and leaves `JOIN_CHANNEL` as it is (`TimeoutWins`); nothing of the community is touched (`CommunityActionsUntouched`); a
role's allow beats roles' denies (`RoleAllowWins`); with the overwrites the API accepts, membership
and the list decide who sees a channel (`ValidOverwritesHideNothing`), so a channel whose
events go to the community's room is one every member may see (`WholeCommunityMayView`), and the fast
path of `viewerUserIds` is exact (`FastPathIsExact`); managers of channel permissions are never locked out
(`NoLockout`); what the client shows is granted (`ShownIsGranted`). The three about visibility
assume that no overwrite names `READ_CHANNEL` or `READ_MESSAGE`, which is what `replaceOverwrites` refuses.

### Voice

`VoicePresence_proofs` proves `TypeCorrect` (`TypeOK`) and `RevokedIsReached`
(`RevokedParticipantIsReached`) for any handlers, participants, sessions and scenarios, from
`BoundAssumption` and `NameAssumption`. A participant enters the room with a join webhook on its way, so as
long as that webhook or its check is pending it will be looked at. When a check lets it
stay, its token is not revoked yet, and what revokes it later leaves a list of rooms
still to be made, in which it will be found: marker and cutoff are written before rooms are listed.
Where a step of this is lost, fails or dies, it adds the participant it was about to `missed`, and nobody else: the lemmas
show that all the others are still reached.
With `TypeOK` the property is inductive; `HandlersKeepReach`, `RevocationsKeepReach` and
`EnvironmentKeepsReach` are its step, one actor each.

`ReplayBuffer_proofs` is about any handlers, pods and recordings. `LiveSegmentsKept` depends on
what a handler saw before it got to the directory: `Works` says that whoever is about to end a row
or delete a directory has seen the recording end (`Over`), and that a row it updates exists.
`OneBlipEndsNothing` counts what pods see: `Misses` says that a strike against a
running recording stands for one `listEgress` without it, and a pass that is about to end the row for two
in a row. Strikes are per pod and lost with it, so pods, restarts and heals do not add up.

### The client's messages

`MessageCache_proofs` proves `TypeCorrect` (`WindowTypeOK`), `ShownOnce` (`NeverBoth`) and `EventsStay`
(`EventsArePermanent`) for any messages, sends, tries and lost connections, from `WindowAssumption`. The
invariant adds to the properties: tries are numbered as they are made and
handled once (`TriesCounted`, `OnTheWayOnce`), so a send without a try has no row when its placeholder is put up;
what is shown, fetched or told of was stored (`OnlyStored`); a deletion is the last event of
its message (`DeleteIsLast`); and a fetch that has read and was not cancelled knows every event
handled so far (`FetchIsRecent`), which is what cancelling is for. `Kinds` sorts the steps
into those that store, delete, hear, fetch, or do none of it.

### Sockets and rooms

`SocketRooms_proofs` has two invariants. `RoomsInv`, of the rooms: a handler that no commit has
overtaken knows what it relies on (`Informed`); when one that was overtaken acts, it says so
(`Settles`); and whoever commits leaves a step pending that makes good what it changed
(`CommitStep`). What a socket is in wrongly (`CommunityRight`,
`ChannelOfMember`, `ChannelRight`) and what it misses (`CommunityJoined`, `ChannelJoined`) are separate, because
a sync for everyone joins and takes nobody out. Sight of a channel is reduced to
membership and list by `ValidOverwritesHideNothing`. The excuse `overtaken` is the code's: these
handlers act on what they have read; section 2 lists the cases under `RoomSubscriptions`.

`SocketInv`, of the session: a call knows only what was so (`CallSound`); one handshake owns
a socket (`OneHandshake`); a socket is in the rooms of what it is bound to, or its call is
about to put it there (`InRoomsOfBinding`). That a socket of an ended session is
reached is split by reason, `RevokedReached` and `BannedReached`: an unban takes the second
reason away and not the first. The check after binding (`confirmBinding`) is what closes the gap: a
revocation that went out before the socket joined its rooms was written before, and is found.

### Accounts

`Accounts_proofs` has an invariant for each of three models without common variables.

* `DeviceInv`. A redeem reads the user, the rows and the marker one after the other, but a session that ended
  stays ended and a token revoked stays revoked: what the last read finds in order was so
  at the first (`StoodSoFar`). A grant is taken once, and a reset
  ends the approving session (`OfItsPassword`).
* `FilesInv`. `UploadOf`: what an upload has done so far; nobody else works on its file (`OneUploader`).
  `Removing`: a row that goes has lost its bytes. `Places`: a file under S3 is on the disk only while
  it is uploaded, or was abandoned. Each failed step adds its own file to `abandoned` or `uncounted`, and no step
  takes one off before its row is deleted. The bound of the usage, `UsageBound`, is not obvious: sums and counts overlap and
  a removal writes what it read before. Since a file is counted once and a sum counts each file once,
  no value exceeds the files there are plus the files counted so far.
* `RefreshInv`. Only one request is waited for, it has the cookie's token, and requests given up on get no
  answer (`Waited`), so answers only advance the cookie. `InBudget`: a ladder's time since its first
  request bounds the age of the token it sends, so with `Budget < Grace` no retry reaches a
  token older than the grace window.

### What is only model-checked

Liveness under fairness is out of the prover's reach and stays with TLC: `EndedSocketCloses`,
`ExpiredSocketCloses`, `EndedRowsLeaveActive`, `GhostsEnd`, `PresenceIsRestored`, `StaleValuesEnd`, `EverythingSent`,
`PageLoadEnds`, `UsageIsRestored` and `DeletedBytesAreFreed`. So do the four violations, which section 3 describes. `SessionContract` states no
liveness, so `ImplementsContract` is proved whole.

## 6. Not modelled, and what is left of the plan

* `CheckThenWrite`: invites (`invite.service.ts:112-150`) and read receipts. One pattern: a value is
  checked and then written at READ COMMITTED without a lock, so a limit can be passed by one and a watermark
  can go back. The storage quota has the same pattern, and is in `FileStorage`.
* DM calls (`voice-presence.service.ts:603`), presence of users, timeouts against publish permissions, the
  anti-escalation check of `replaceOverwrites` (it reads roles, then writes overwrites).
* A disconnect of the whole user room that reaches another instance after the user signed in again
  (`session-revocation.handler.ts:137`): the client connects again, and nothing in the code speaks of it.
* Edits, reactions, pins, threads, notifications, friends, alias groups and the rest: a transaction and an
  emit each; no protocol between requests. The rest of the user interface, Electron shell and deployment have none of
  their own.
