# Formal model of Golang IM Neo

A TLA+ development of this repository: the message path of the Go server
(`internal/`: sequence allocator, batch writer, central relay, connection
registry, friendships, groups and the router's verdict caches) and the client
written in TypeScript (`frontend/src`, `mobile/src`): its session and socket,
its chat, its voice calls and the panels around them; and the connection of the
firmware (`esp32/main`). TLC checks every module on small instances; TLAPS proves,
for every value of the constants, every safety property of the passing runs: among
them that the allocator implements an abstract counter, that the relay implements
an abstract delivery service, and that without a call a microphone is on only if a
second call had overwritten it. Of several promises that the code breaks (a call's microphone that its
hang-up does not know, a spinner of the recorder that no upload will stop), TLAPS
proves a condition under which they hold.

`PROJECT.json` lists, for machines, the components, the runs, the mutants that
show that each property can fail, the source lines behind each definition, the
findings, the hazards and the theorems. This file is for readers.

## 1. The system and its components

One server process (`cmd/server`, `internal/app/app.go`) over one SQLite file
(WAL, one pooled connection, so statements and transactions are serial).
Clients hold a WebSocket; HTTP serves everything else. A chat message travels

    Client.ReadPump -> Router.HandleInbound -> interceptors -> relay
        relay: dedup window -> Allocator.Allocate -> BatchWriter.EnqueueSync
               -> wait (2 s) -> window -> ACK -> push through the Hub
    Hub.SendToUser -> Client.Enqueue (Send channel) -> Client.WritePump

and everything up to the Send channel runs in the read goroutine of the sender's
connection, so many relays run at once. In the client everything runs on one
event loop: what makes it hard is what happens between an `await` and its
continuation.

| Component | State it keeps | Operations | Interacts with | What is hard | What makes it correct |
|---|---|---|---|---|---|
| Sequence allocator `logic/session/allocator.go` | per conversation: counter and watermark (memory), watermark row (table) | LoadAll, getOrCreate, Allocate, EnsureConversation | relay (calls), group service (creates rows), SQLite | lock-free loop of loads, a conditional UPDATE and a CAS; restarts | no seq twice, none going back, reserve bounded |
| Batch writer `store/batch.go` | queue, current batch, open transaction, result channels | EnqueueSync/Async, worker, flush, Stop | relay (results), SQLite (unique indexes) | transaction that fails part way, Stop against callers, crash | idempotent by stanza, answers agree with durable rows, nothing accepted is forgotten |
| Central relay `router/strategy.go`, `dedup.go`, `router.go` | dedup window per conversation | HandleInbound, relay, Lookup, Store | allocator, writer, Hub | same stanza on two connections, timeout against a late result, resend after restart | one seq per message, ACK means durable, at most one push |
| Gateway hub `gateway/hub.go`, `client.go`, `handshake/handler.go` | registry in 32 shards, two channels, per connection Send and two pumps | Run, Register, Unregister, SendToUser(s), Broadcast, kickClient, KickUser, KickSession, ReadPump, WritePump | relay and services (send), admin (kick), handshake | two channels in any order, breaker inside the read lock, teardown from any side | nothing blocks for good, pumps and sockets end, the registry names the live connections |
| Friend and group services `logic/friend`, `logic/group` | two rows per pair; groups, members, roles | Apply, Respond, Delete; Create, Invite, Join, Leave, Kick, SetRole, Dismiss | interceptors (invalidation), clients | checks outside the transaction | verdicts follow the rows; one owner |
| Router interceptors `router/interceptors.go`, `signaling.go` | TTL-LRU of friendship and membership verdicts, rate counters | gates of private chat, group chat and signaling | friend and group services | a verdict read before a change and cached after its invalidation | a stale verdict lapses |
| Web client session `api/client.ts`, `socket/wsClient.ts`, `useAuthStore.ts`, `AuthModal.tsx` | tokens, refresh queue, socket, timers | login, register, logout, reload, 401 and refresh, tickets, connect, heartbeat, back-off | auth service, handshake, every HTTP call | awaits that resume in another session; closures of replaced sockets | no call parked for ever, the session keeps or regains a socket |
| Web client chat `useChatStore.ts`, `ChatInput`, `ChatWindow`, `MessageList`, `MessageBubble` | message lists, pending ACKs | send, upload, push, ACK, timeout, history, open | socket, relay, history API | optimistic entries against echoes, late ACKs and pages | lists agree with the server, own messages once, no spinner for ever |
| Voice calls `socket/webrtc.ts`, `useAudioStore.ts`, `IncomingCallModal`, `AudioCallOverlay` | engine, peer connection, stream, call status | call, accept, reject, hang up, signaling frames | signaling relay, browser | five awaits per flow, none cancelled by hangup | the fields of an engine are empty after its call, what it lost is known, "calling" ends |
| Panels: friend lists, group windows, notices, dashboard, profile page and window, voice recorder; mobile feed, contacts, shell; desktop shell | a few flags and lists each | the handlers of their buttons, loads, timers | HTTP API, stores, each other | overlapping loads, answers after closing, failures between two calls | what is disabled waits for a call (not so in the recorder), what stands together belongs together, answers do what their handlers promise |
| Auth, tickets, sessions `logic/auth`, `middleware/jwt.go`, `logic/admin` | users, sessions, refresh hashes; tickets in memory | Register, Login, Refresh, Issue, Redeem, BanUser, KickSession | Hub (kick), handshake (redeem) | rotation races, ban against redemption and registration | a rotated token works once; a banned user has no live connection |
| Message history `logic/message` | none (reads) | GetHistory | web client | paging while rows arrive | pages neither skip nor repeat |
| ESP32 firmware `esp32/main` | link task, socket flags, two time stamps, one transmit buffer | log in, connect, greet, heartbeat, echo, back off | server, WiFi driver | a 32-bit clock that wraps, three tasks without a lock | a silent link is left, the heartbeat goes on, a live link is kept |
| Profile, media, user services; configuration; tools; presentation; generated code | rows or files, no state between calls | CRUD | | | |

## 2. Modules

    SeqService  <-- implemented by --  Allocator     (proofs: Allocator_proofs)
    MessageStore <-- implemented by -- BatchWriter   MCBatchWriter (proofs: BatchWriter_proofs)
    Delivery    <-- implemented by --  Relay (uses both promises)
                                       MCRelay       (proofs: Relay_proofs)
    Hub                                MCHub         (proofs: Hub_proofs)
    Friendship, Membership             MCSocial      (proofs: Parts_proofs)
    Session                            MCSession     (proofs: Session_proofs)
    Chat                               MCChat        (proofs: Chat_proofs)
    Call                               MCCall        (proofs: Call_proofs)
    Contacts, GroupPanel, Notices, Dashboard, Profile, Visit, Voice,
    Tidal, Galaxy, Shell, Desktop,
    Esp32Link                          MCPanels      (proofs: Parts_proofs)
    Relay, Hub and Session, liveness   MCLiveness

### SeqService and Allocator

`SeqService` is what callers of `Allocate` rely on: a counter that hands each
number to one caller, in increasing order, and skips numbers only when it was
reloaded. `Allocator` is `allocator.go` for one conversation. Conversations
share only the mutex of the map, so one is enough. Each atomic load, store, CAS
and SQL statement is an action: `LoadCurrent`, `LoadWatermark`, `Extend` (the
conditional UPDATE), `Reload`, `EnsureMissing`, `StoreReloaded`, `StoreNew`,
`Cas` are the loop of `Allocate`; `Lookup`, `LockMu`, `ReadConv`, `ReadMax`,
`Ensure` are `getOrCreate`; `Boot` is `LoadAll` with each way it can fail;
`CreateGroupRow` is the row that the group service writes by itself; `Persist`
is the caller storing, or not storing, the message. `Crash` keeps the tables.

### MessageStore and BatchWriter

`MessageStore` is an idempotent durable store: a write is answered at most
once, an OK or duplicate answer names a row that is durable at that moment, an
error means it was not written, and no two rows share a stanza. `BatchWriter`
is `batch.go`: `Enqueue` for both entry points; `Receive`, `Check`, `Tick`,
`SeeDone`, `Drain`, `DrainFlush`, `DrainEnd` for the worker's select loop;
`Flush` (empty batch, or Begin, which may fail), `InsertRow` (one INSERT OR
IGNORE with the requery on conflict, which may fail alone), `Commit` (or roll
back), `Deliver` (one result channel) and `FlushEnd`. A write is named by its
seq, which the allocator makes unique. `EmptyStanza` and `BlankStanza` keep
apart what the SQL index (`stanza_id <> ''`) and the Go code
(`TrimSpace(...) == ""`) tell apart.

### Delivery and Relay

`CentralRelayStrategy.relay` for one conversation, one action per point at
which other goroutines run: `Receive`, `Lookup`, `Allocate`, `Enqueue`,
`Resume` or `Timeout`, `Remember`, `SendAck`, `Push`. The allocator and the
writer appear as the promises above: the next number or an error, and a bounded
queue whose head is written, found to be a duplicate, or refused. This is
coarser than the two detailed modules on purpose: their detail is discharged by
`ImplementsService` and `ImplementsStore`. `StoreInWindow` is
`DedupWindows.Store` with refresh, move-to-front and eviction. The window and the
unique index are per conversation, so the connections may be those of one
sender or of several, and `StanzaOf` may give two messages the same stanza: the
properties then say that both are acknowledged with the one row's seq. `acked`
and `pushed` are history variables.

`Delivery` is what the users of a conversation see of all this: `Store` makes a
message durable under a number of its own, `Acknowledge` tells a sender the
number its message is stored under, `Show` shows receivers a message its sender
was told about and they never saw. Its state is the table, what was told and what
was shown; the refinement maps them to `table`, `acked` and `pushed`, and a
dedup hit, a timeout, a resend or a restart is a stutter. ERROR frames leave no trace in this
state, and the group's unread counters are not modelled.

### Hub

`hub.go`, `client.go` and the part of the handshake after the upgrade, for one
user (one shard: shards share only the two channels). `Take` is the select of
`Run`, which may pick either channel, and `ApplyRegister`/`ApplyUnregister` are
its two branches under the write lock, which wait while a fan-out (`SendBegin`
... `SendEnd`) holds the read lock. `ReaderUnregisters`, `Register` and
`KickUnregisters` are blocking channel sends: disabled while the channel is
full. `WriterEnds` covers the ways in which WritePump may end at any time (a
failed write or ping), `WriterMustEnd` those in which it has to. Fan-outs run
one at a time and concurrent breaker kicks of one client are merged; a second
one repeats the same idempotent steps. `KickUser` is split as in the code:
collection under RLock, deletion under Lock, closing outside.

### Friendship and Membership

`Friendship` is one pair: its two rows as one verdict, the verdict cache of the
router and two service calls at once. `ApplyCheck` and `ApplyWrite` are apart
because `Apply` reads the pair before its transaction; `Respond` and `Delete` are
one transaction each; `Drop` is the invalidation that follows. `GateReads` and
`GateAdds` are the frame that finds no verdict, reads the rows and caches what it
read; `SignalingDenies` reads only and caches no denial. `Expire` is the TTL.
`Membership` is a group of three, with the same split for `Invite`, `Join`,
`Leave`, `Kick`, `SetRole` (with the transfer of ownership) and `Dismiss`, whose
checks all precede their transactions, and `Dismiss` takes its list of members
before it. One user's verdict is followed.

### Session

One browser tab. `calls` are the HTTP calls under way with the access token each
carries; `Unauthorized`, `Enqueue`, `Refresh`, `Refreshed`, `RefreshFailed` are
the response interceptor of axios with `failedQueue` and `isRefreshing`;
`LoggedIn`, `Registered`, `Logout`, `Reload` and `Expire` are the auth store and
the event that ends a session. `link` is `WebSocketClient`: a socket keeps the
closures it was created with, so `OnClose` and `OnOpen` of a replaced socket
still act. The server is what the tab can tell of it: the tokens it accepts and
the refresh token it would still rotate.

### Chat

`useChatStore` with the input and the list that use it: `Send`, `MediaUploaded`,
`AddIncoming` (the one place where echoes, pushes and optimistic entries are
merged), `OnAck`, `SendTimeout`, `StartLoad` and `HistoryLoaded`. The server is a
sequence per conversation. Answers by HTTP and frames race. `upload` is the file that
`ChatInput` uploads and then the message whose promise it awaits: the input is free
again when the promise settles (`Settled`).

### Call

Each client's engine and call state (`eng`), its suspended flows (`flow`: a
`call` or `answer` at one of its awaits), the candidates the browser still has to
find (`gather`) and the frames on their way (`chan`). `HangUp` cancels no
flow; what a flow then does is in `MicGranted`, `OfferSent`, `Throws` and `End`.
`media` is what the browser runs: the microphones that are on (`mics`) and the
connections that are open (`conns`), named by the flow that took them, while the
engine's fields `stream` and `pc` hold one of each. A flow that is granted its
microphone overwrites the fields, and what they held is in `lost`: nothing stops it
any more.

### The panels

Each module is one or two components with the HTTP calls behind them as slots: a
call is sent, served (or fails, before or after the server acted) and comes back
to its handler. Every button has the condition under which the JSX shows and
enables it as an operator of its own (`RequestShown`, `SubmitOffered`,
`Covered`, ...). A handler that awaits twice is a chain of steps in one slot.

* `Contacts`: Sidebar's friends and requests, useFriendStore, AddFriendModal.
* `GroupPanel`: GroupManagerModal with its two parallel loads, CreateGroupModal.
* `Notices`: the store's notices, bell, drawer, banner and connection badge.
* `Dashboard`: AdminDashboardModal, remounted by logins.
* `Profile`, `Visit`: the user's own page, and the window on another's.
* `Voice`: VoiceRecordModal; one recorder per opening, the refs hold the last, and
  the effect of an opening cleans up what they hold.
* `Tidal`, `Galaxy`, `Shell`: the mobile feed, contacts, and App with its
  navigation island, conversation hub and chat deck.
* `Desktop`: the Electron process, its local server and its window.

### Esp32Link

The firmware's three tasks: the link task (`WifiWaited`, `Posted` for login and
ticket, `Start`, and once a second `Wake`, `Look`, `Hello`, `Beat`, `Judge`, until
`Stop` and `Rest`), the websocket client's task with its events (`Opened` and
`Stamped`, since CONNECTED sets the flag before the stamps; `Closed`, `Pong`,
`Echo`) and the WiFi driver. A frame is built in `s_tx` in one step and sent in the
next (`SendHello`, `SendPing`, `SendEcho`), as both tasks use that buffer. `clock` is
`esp_timer_get_time()` in milliseconds modulo `Wrap`, `Minus` the unsigned
subtraction; `since` is the true time since the PONG and the heartbeat (history).
`Pass` lets time go by within a session: at most `Delay` asleep and `Late` awake.

The mobile client carries byte-for-byte copies of most files of the web client
(three of them differ in addresses, media links or a style): the modules describe
both, and the map names the web client's file.

## 3. Runs

Deadlock is checked in `allocator`, `chat`, `session` and `social`; elsewhere
the system may rest (a quiet server, a page nobody touches).

| Run | Shows | Bounds | Distinct states |
|---|---|---|---|
| `allocator` | `WatermarkCoversIssued`: the row covers what was handed out, so a crash at any step repeats nothing. `ReserveBounded`: racing extenders reserve one block between them. `ImplementsService`: refinement of `SeqService`. | 3 threads, Step 2, calls begin while the watermark is at most 3 | 238,022 |
| `batch_writer` | `StopDrains`, `ImplementsStore` (refinement of `MessageStore`), and `AcceptedIsAnswered` (liveness) | 4 writes (a message, its replay, an asynchronous one without a stanza, one of spaces), queue 2, batch 2, Stop, one crash | 217,872 |
| `relay` | `AckAgreement`, `PushedIsAckedAndDurable`, `NoSecondPush`, `ImplementsDelivery` (refinement of `Delivery`) | 2 connections, 3 messages (one unkeyed), window 1, queue 2, 3 seqs, one restart, symmetric connections | 389,958 |
| `hub` | `KickedIsUnregistered`: from the deletion to the last close, no client that the kick collected is in the registry | 3 connections, 2 of them under one session; channels and Send of 1, one fan-out, one kick | 2,461,628 |
| `social` | `GroupFits`: joins and invitations that all passed their checks do not overfill the group. `VerdictsConverge`: a verdict read before a change and cached after it does not outlive the change for ever | a pair, and a group of at most 2 among 3 users, each with 2 service calls at once | 271,000 |
| `session` | `QueueHasRefresh`, `FormIsHonest`, `LiveSessionReconnects` | 2 HTTP calls, 2 sockets (symmetric), 2 logins | 1,580,000 |
| `chat` | `ListsAgreeWithLog`, `OwnOnce`, `AckedNeverAlert`, `SendSettles` (liveness) | one own and one peer's message, hall and a private conversation, 2 history requests, pages of 1 | 129,640 |
| `call` | `ResourcesFreed`: without a call on the screen or a flow under way, no microphone is on and no connection open that the engine's fields hold, and all that is on besides was overwritten by a second flow. `CallingEnds` (liveness) | 2 clients, 2 flows, channels and candidates cut by the model's guards | 8,513 |
| `panels` | `ProgressIsReal`, `ScreenIsTrue`, `AnswersAreMinded` of the eleven panel modules, one at a time (of `Voice`, `CurrentIsHeld` and `SentOnce` only); and in `ProgressIsReal` the firmware's `SilenceIsNoticed`, `HeartbeatGoesOn` and `NoClientIsLeft` | 2 calls at once, 2 groups, 2 other users, 2 notices, 2 recorders, 1 post, 2 desktop processes; a clock of 7 values, timeout and period 2 | 3,402,813 |
| `liveness` | `NoConnectionHangs`, `TeardownCompletes`, `FanOutFinishes`, `BreakerDrops`, `EveryCallSettles`, `DeadSocketNoticed` | Relay: 2 connections, 2 messages, one restart; Hub: a connection and its reconnect, two fan-outs; Session: one login, 2 calls, 2 sockets | 98,000 |

`social`, `panels` and `liveness` check several components that share no state:
a variable `part` chooses one at the start, and the others keep still.

Two runs refute a sentence of the code's own comments; TLC prints the behaviour:

| Run | Sentence | What happens |
|---|---|---|
| `relay_lost_push` | `router/strategy.go:180` "receivers already got it" | the write succeeds after its timeout, the resend is a duplicate, and nobody is ever pushed the message |
| `session_refresh` | `api/client.ts:115` "refresh the token silently and retry" | the answer's new refresh token is dropped, so the second refresh presents a spent one and the session is expired |

### Stated, refuted, not run

These are definitions of the modules, each with the sentence it comes from. TLC
refutes each of them on the code; the number of runs is kept down, so they
have none. Putting one in a configuration of its module prints the behaviour. The
last column names the theorem that says when the promise does hold (section 4).

| Definition | Sentence | What happens | Holds if |
|---|---|---|---|
| `Allocator!NeverRewinds` (ReadFaults = TRUE) | `allocator.go:21` "never rewinding" | the preload failed and `getOrCreate` takes a failed read for a missing row: the counter starts at 0 and seq 1 is handed out again | the row can be read: `IssuedOnlyGrows` |
| `BatchWriter!ExactlyOneResult` | `batch.go:83` "receives exactly one WriteResult" | a write enqueued after the drain saw the queue empty is accepted and never answered | |
| `BatchWriter!ResultIsAuthoritative` | `batch.go:16` "authoritative seq" | the second write with a stanza of spaces is ignored by the index and answered OK with its own seq | no two writes share such a stanza: `AuthoritativeResults` |
| `Hub!ActiveIsOnline` | `hub.go:322` "has any active session" | the old connection's unregister removes the reconnect's entry | no two connections share a session: `UnsharedIsOnline` |
| `Hub!OnlineIsActive` | the same | an unregister that overtakes its registration leaves a dead client registered | registrations are taken first: `OrderedIsActive` |
| `Friendship!ApplyNeverRevivesLive` | friend `service.go`, "pending/accepted is refused" | a Respond between Apply's read and its write is overwritten: an accepted pair is pending again | calls do not overlap: `AloneApplyIsSound` |
| `Membership!DismissedIsEmpty`, `Membership!OwnerNeverLeaves` | group `service.go` | a Join passes its check, then Dismiss commits; two transfers both pass, or the new owner leaves by a check made before | calls do not overlap: `AloneGroupIsSound` |
| `Chat!LoadMoreKeeps` | `MessageList.tsx:30` "load more history" | the answer is the newest page and replaces the list | |
| `Call!AllFreed` | `webrtc.ts:166` "挂断通话" (hang up the call) | two flows of one client: the second one granted its microphone overwrites `localStream` (`webrtc.ts:45`, `:115`), and hanging up stops only the second: the first stays on | a client has one flow at a time: `AloneIsFreed` |
| `Call!CandidatesKept` | `webrtc.ts:13` "buffer queue" | accepting a call empties the candidates kept for it | |
| `Session!SocketIsMine` | | `disconnect` during the ticket's await: the socket opens afterwards, and a later login keeps the socket of the earlier session | |
| `Voice!CancelledIsNeverSent` | the cancel button | a recorder granted after the cancel records behind the closed modal; its minute sends it, or it is granted into a later opening, whose button or minute does. The next opening's cleanup stops it without sending if it comes first | no cancel while the browser asks for the microphone: `CalmCancelIsFinal` |
| `Voice!SpinnerIsReal` | the send button's spinner, `VoiceRecordModal.tsx:139` | Send while a later opening asks for the microphone acts on the recorder before: it is inactive and its `onstop` never runs, so `isUploading` stays | neither button is pressed while the browser asks: `CalmSpinnerIsReal` |
| `Galaxy!OneChainEach` | the disabled buttons of `respondingId`, `ContactsGalaxyView.tsx:58` | answering a second application brings the buttons of the first one back while its chain runs, and it can be answered twice | none is answered while another is: `PatientAnswersOnce` |
| `Shell!OpenedIsListed` | mobile `App.tsx:104` | nothing adds to `conversations`, so the hub lists the hall only | |
| `Desktop!WindowLoadsOwnServer` | `main.cjs:100` | the callback of the failed listen runs first, and the window loads the page of whoever took the port | its process owns the fixed port: `WindowOfTheOwner` |
| `Esp32Link!LeftForSilence` | `app_main.c:6` "90 s pong timeout" | the PONG is stamped after the task read its clock: the unsigned difference is huge and a live link is left | no PONG is stamped between reading and judging: `SilenceIsRealHolds` |
| `Esp32Link!FramesAreOwn` | `im_ws_client.c:17` "the echo reply reuses s_tx" | the echo and the heartbeat or the greeting are built in one buffer by two tasks, and one goes out twice | |

Seen while modelling and not stated: denials sent as SYSTEM_NOTICE are shown like
broadcasts; notices, windows and the open conversation outlive a logout; a load of
ProfileView overwrites fields being edited, and a late upload lands in the next
draft; an upload answered after a change of conversation is sent to the new one. In the firmware, the back-off starts again at a second whenever the
client's task could be started, connected or not; the first heartbeat, forced by a
stamp of zero, waits if the device has been on for less than a period; the stanza of
the greeting repeats after a reboot and an echo carries its sender's stanza, so the
server takes both for duplicates; and an `esp_wifi_connect` that fails in the timer
arms nothing.

### Why these bounds are enough to see the interesting cases

* Allocator: with Step 2 and calls that begin up to a watermark of 3 the counter
  meets the ceiling at least twice, so extensions race with extensions, with stale stores of
  the ceiling and with a reload. Three threads let one be left behind twice.
* Batch writer: a queue of 2 and a batch of 2 with four writes fill both, split
  the message and its replay over one or two batches, and leave writes for the
  drain. One crash is enough: after it the table is all that remains.
* Relay: a window of 1 evicts on each second message, so a replay is
  recognised by the window or only by the index. Three seqs let one message
  be in flight twice and be sent a third time after a timeout or restart.
* Hub: capacities of 1 make each blocking send block. Three connections over
  two sessions have both the reconnect under one session and the second device.
* Social: two calls at once give each pair of operations its overlap; the third
  user lets a transfer and a leave concern different users, and finds the group
  full, so that two calls may pass the check for the last place.
* Session: two calls are a refresh and one parked behind it, or a login and a
  call of the session before; two sockets are one and its replacement; the second
  login meets what the first one left. A refresh that crosses a login already finished
  needs a third call: there `QueueNeverStuck`, for any number, is the only check.
* Chat: two history requests overtake each other; with pages of one the message is
  inside or outside the page.
* Call: two flows are a call and an answer, or two calls across a hang-up, of which
  the second overwrites the fields of the first.
* Panels: each hazard listed is between two calls, or a call and a timer.
* Esp32Link: the least clock that is longer than what is timed wraps between any two
  steps, and so often that stamps before, at and after the wrap are met.

Each property of a passing run has a mutant in its module (`Extend_Unconditional`,
`Timeout_Never`, `SendOne_KicksInline`, ...): a plausible bug under which
TLC finds that property, in that run, violated. Mutants are not part of any
`Spec`.

### Fairness

* `BatchWriter`: `WF(Worker)`. One goroutine, always runnable when something is
  queued, since its ticker fires; nothing makes callers call or Stop happen.
* `Relay`: `WF(Scheduled(c))` for each connection: a goroutine is scheduled and
  its `persistTimeout` timer fires, but the steps that wait for the one pooled
  database connection without a timeout (`DatabaseWaits`: the interceptors' lookups,
  the allocator, the members of a fan-out) are under no obligation, and neither is the writer.
  So `NoConnectionHangs` says what the timeout is good for: a connection that
  comes out of its database waits again and again finishes what it received, behind a
  dead writer too. A stuck database does stop a connection (hazard at
  `strategy.go:126`). `FairSpec`, used for the refutation `relay_lost_push`, adds
  `WF(Write)` and `WF(Relaying(c))`: even with a healthy database and writer the
  message is lost to its receivers.
* `Hub`: weak fairness of Run, of the fan-out, of the admin call once it began,
  and of each pump and kick goroutine. Peers, reconnects, new fan-outs and
  kicks are under no obligation. A read on a closed connection returns, hence
  fairness of `ReadFails` only there.
* `Session`: the calls of `apiClient` have its timeout of 15 s (`client.ts:14`), so each is
  answered or fails; the heartbeat's interval and its PONG timeout fire. The refresh
  is a bare `axios.post` (`client.ts:172`) without one, so it has no fairness:
  `EveryCallSettles` assumes that no refresh stays unanswered for ever, and without
  that each later 401 is parked behind it (hazard at `client.ts:172`). The user, the
  server's revocations and the network are under no obligation. `DeadSocketNoticed`
  ends at `close()`: when the browser then reports the close is up to it.
* `Friendship`, `Membership`: a service call that began goes on, a verdict that
  was read is cached, and a cached one expires.
* `Chat`: the timer of a pending ACK fires (`SendTimeout`). `Call`: a flow past
  its microphone prompt goes on, since its promises settle and its six-second
  ACK timer fires; nobody has to answer a prompt.
* `MCLiveness` asks the fairness of the part that runs: each formula is gated by
  `part`, so the parts that keep still ask for nothing.

## 4. Proofs

`Allocator_proofs` (588 obligations), `BatchWriter_proofs` (1041), `Relay_proofs`
(948), `Hub_proofs` (867), `Session_proofs` (749), `Call_proofs` (516),
`Chat_proofs` (980) and `Parts_proofs` (5110). The constants are
arbitrary: any number of threads, connections and messages, any step, window and
queue size, any bound.

**Allocator.** `TypeCorrect` needs only the assumptions on the constants. The others assume
`ReadFaults = FALSE`, i.e. the failure behind `NeverRewinds` is
excluded; with it they are false. `IInv` strengthens the properties by:
`MutexInv` (at most one thread is between lock and install, and it is the
holder), `EntryInv` (who is in the loop has a loaded entry), `DurableInv` (what
was handed out or stored is covered by the row), `MemoryInv` (the counter in
memory is between the last issued seq and the row, the cached ceiling never
exceeds the row) and `LocalInv` (each thread's locals are old values, thus
lower bounds). That is what makes a stale `StoreReloaded` harmless: it can
only lower the ceiling, which costs another extension. `WatermarkCovers` and
`ReserveIsBounded` follow; `Refinement` maps each step to a step of
`SeqService` or to a stutter (`Cas` to `Hand`, `Boot` and the installs to
`Resume` or a stutter, `Crash` to `Restart`). `IssuedOnlyGrows` is `NeverRewinds`
under the same assumption, and `SeqsAreDistinct` says what it is good for: no two
callers hold one seq, in one life of the process or in two, since a CAS gives a seq
above the last one issued, and every seq held is at most that.

**BatchWriter.** `IInv` is `TypeOK`, `ControlInv` (what the worker holds at each
point, and that it drains only after Stop), `PlaceInv` (a call is accepted as long
as it is in the queue or in the batch, and it is in one of them once) and
`LateInv` (once the last flush has begun, the queue holds only writes that raced
with Stop), from which `StopLeavesNothing` follows. `Refinement` needs more,
`StoreInv`: `UniqueInv` (no two rows share a stanza the index sees), `FreshInv` (no
row before the transaction has reached the write) and `OutcomeInv` (each outcome
waiting for the commit says what the rows will say). `Commit` maps to
the store's `Commit` of the whole batch or to a stutter when it rolls back,
`Deliver` to one answer, `Enqueue` to a submission or a refusal, `Crash` to a
crash, the rest of the worker to stutters. It assumes `OneBlank`: no two writes share a stanza made of spaces. The
index sees such a stanza and the requery does not (`ResultIsAuthoritative`), so
without the assumption the promise is false. The run's instance satisfies it.
`AuthoritativeResults` is `ResultIsAuthoritative` under that assumption. `AnswersHold`
says more, of every moment after an answer: a success names the write's own row, a
duplicate the row that has its stanza, and a write answered with an error never gets
a row, so its sender may send it again. It follows from `StoreInv`, because a write
is staged only before its answer and rows are never removed.

**Hub.** `IInv` adds to the types and to `KickedIsUnregistered`: `OnceInv` (a
connection's registration is enqueued once), `WaitInv` (who still waits to be
registered is neither in the registry nor a target of the kick), `HeldInv` (who is
in either is past its handshake, so no registration of it can come) and `EntryInv`
(an entry holds a connection of its own session). `WaitInv` is what keeps a late
registration from undoing a kick: `KickUser` collects registered clients only.
The two halves of "online means an active session" are false on the code, and each
has one cause. `UnsharedIsOnline` assumes that no two connections share a login
session. Its invariants are `EndInv` (only a connection that has ended is being
unregistered) and `ReachInv` (a live one waits to be registered, is registered, or is
a target of the kick that is closing it); with a session of its own, no one else's
unregistration finds its entry. `OrderedIsActive` assumes, of the behaviour, that Run
takes no unregistration while a registration waits (`RegistrationsFirst`), also when
sessions are shared. Its invariant `LeftInv` is that a connection which has left and
is registered, or will be, has its unregistration on the way, and that the one being
applied has no registration behind it.

**Relay.** `IInv` is the conjunction of `RowsInv` (rows carry allocated seqs, a
keyable stanza has one row), `WindowInv` (window entries name rows), `SeqInv`
(no two connections hold the same seq), `QueueInv` (a queued write belongs to
the connection that still holds its seq, or to nobody), `ResInv` (a result is
what the table says and is acted on only after it came) and `HistoryInv`.
`QueueInv` is the key to late answers: after a timeout the seq is nobody's, so
the result reaches nobody. `StoredWindow` is the lemma about `StoreInWindow`:
it yields the new entry and entries that were there, never more than
`WindowCap`. From `IInv`: `AckAgreementHolds`, `AckedIsDurableHolds`,
`PushedIsAckedAndDurableHolds`, and the action property `NoSecondPushHolds`;
`TypeCorrect` includes the bounds of window and queue. `Refinement` needs one
fact more, `NumberInv`: a number stays with one message on its way from the
allocator through the queue into the table, so that the row a write adds has a
number no other row has.
`WriteRefines` maps the writer's step to `Store` or a stutter, `GoroutineRefines`
maps `SendAck` to `Acknowledge`, `Push` to `Show` and the rest to stutters. TLC
checked the invariants on the run's instances before they were proved.

**Call.** `ResourcesFreed` is not inductive: a flow whose connection was closed
ends without a hang-up, and that step must leave nothing behind. `IInv` adds to
`TypeOK`: `FieldsTogether` (the stream and the connection in an engine's fields are
of one flow, so hanging up stops both), `OnIsHeld` (what is on is in the fields or was
overwritten there) and `HolderLives` (the fields belong to a flow past its prompt
whose connection is open; it hangs up when it ends with no call on the screen). `Typed` and
`Freed` hold for any number of clients, flows and answers. They say nothing good of
what was overwritten: that `AllFreed` fails for no other reason is `AloneIsFreed`,
in which no client ever has two flows under way (`OneAtATime`); then nothing is ever
lost, because the fields are empty when a flow is granted its microphone.

**Session.** `IInv` speaks of tables and links as values: `CallsOK` (a slot holds a
call or is free, and a registration is never parked), `QueueOK` (what is parked
has a refresh, and the refresh its one owner), `LinkOK` (a socket that is not
closed still has its closures), `FormOK`, and `NetOK`, which adds to
`LiveSessionReconnects` that a status of 'connecting' or 'connected' is backed by a
ticket call or a socket: that is what makes it sound for `connect` to return
early. The lemmas are about the helpers: `Sent` (a call goes to a free slot and
disturbs no other), `Settled`, `Rejected` (a rejected ticket arms the retry),
`Connected` and `Started`. `Typed`, `QueueNeverStuck`, `FormHonest` and
`LiveReconnects` hold for any number of calls (at least two, which connect and
the profile take), sockets and logins.

**Chat.** A list is right only if everything that may still reach it is. `IInv`
adds to the types, `OwnOnce` and the two other properties (`ListsInv`): `HomeInv` (an
id is mentioned on the screen, in the table and on its way up in one conversation
only, so an ACK, which names no conversation, finds the right one), `OnceInv` (a
message is stored once, and not while it is on its way up), `FramesInv` (a frame on
its way down names the row of its message), `LoadsInv` (a history answer, however
old, is a part of the table) and `AckInv` (what is acknowledged has no timer any
more). The table only grows (`StillTrue`), so what was true of an old frame or page
stays true. `ListsTellTheTruth`, `OwnShownOnce` and `AckedStaysGood` hold for any
number of messages and requests and any page size. They assume that generated
stanza ids are new and that the server stores each frame it takes.

**Panels.** Each panel module states its inductive invariant `IInv` beside its
properties; the `panels` run's components take turns in the variables v1 to v9,
so `Parts_proofs` proves one lemma per component (`ContactsStep`, ...: a step of it
keeps its `IInv`) and `Inv`, that the behaviour's part is in its invariant, follows
since the part never changes. What the invariants add is who a flag waits for:

* `Contacts`, `Dashboard`, `Profile`, `Tidal`: a busy form has exactly one call
  under way and a free one has none, so an answer finds the form it belongs to.
  The properties count these calls; the invariants say that any two are the same,
  which the solver can follow, and `OneOrNone` turns that into the count.
* `Profile`, `Tidal`: the load that ends a publication was served after the post
  was stored, so its answer holds the post; hence `PublishedIsListed`, although
  older loads may come back later.
* `GroupPanel`: a load carries the details and members of its own group or none
  yet, and `Loaded` shows the two together: hence `TitleMatchesMembers`, although
  the window may have gone on to another group.
* `Notices`, `Shell`, `Desktop`, `Voice`: only what is on screen listens; a process
  that does not serve has no port; a recorder that has sent is over. `Visit` and
  `Galaxy` need no more than the properties themselves.
* `Esp32Link`: what the task computes with unsigned differences is the time that has
  passed. Of the PONG that is one equation. The stamp of the heartbeat is zero after
  each connect, so it is one of three things: written by a heartbeat (`Beaten`), zero
  and not looked at since (`Fresh`), or zero when the clock had just wrapped or the
  device just started (`Early`), when no heartbeat is due. `Unsigned` is the lemma
  about the subtraction.

`ProgressIsRealHolds`, `ScreenIsTrueHolds` and `TypeCorrect` follow from `Inv`, and
`AnswersAreMindedHolds` from `Inv` and one lemma per panel about the step that an
answer takes (`RemovedFriendIsLeft`, `LeftGroupIsClosed`, `FailureCostsNoDraft`,
...): the handler that frees the form is the one whose answer is minded. Of the
recorder `RecordingGoesOutOnce` says that a recording is not sent again, since a
recorder that has sent is over; its spinner is in none of the four. They
assume that at least one call is possible, that the bounds are numbers, that
the desktop's processes are neither "nobody" nor another program, and that the
firmware's timeout and period are over well before its clock has gone round (in the
code, 90 and 30 seconds of 49.7 days).

Five promises of this part that are false on the code hold under a condition.
`CalmCancelIsFinal`: a cancelled recording is never sent if no cancel falls into the
browser's question for the microphone (`CalmCancel`); then there is one active
recorder at most, the open modal's and the one in the refs, so that a cancel ends it
(`CalmInv`). `CalmSpinnerIsReal`: the recorder's spinner turns only while a sound is
uploaded if neither Cancel nor Send falls into that question; then the open modal has
its active recorder and no interval outlives its own (`SpinInv`), so Send and the
minute stop a recorder that is on. `PatientAnswersOnce`: an application is answered by one chain
of calls at a time if none is answered while another answer is under way; then every
chain is of the application that `respondingId` names (`PatientInv`). `WindowOfTheOwner`: the desktop's
window always loads the fixed port, so it shows its own server exactly when its
process owns that port. `SilenceIsRealHolds`: the firmware leaves a session whose PONG
is in time only if the PONG was stamped after the task had read its clock.

**Friendship and Membership.** `SocialTypeCorrect` and `GroupFitsHolds` are for any
users, any limit and any number of calls at once. A group fits although the checks
precede the transactions, because the transactions that add somebody (`Invite`,
`Join`) count the members again, and no other adds anybody (`StaysWithin`). The promises
one would like next (`ApplyNeverRevivesLive`, `DismissedIsEmpty`,
`OwnerNeverLeaves`) are false on the code, because each call reads before its
transaction (section 3, *Stated, refuted, not run*). `AloneApplyIsSound` and
`AloneGroupIsSound` say that this is the only reason: with `Calls = 1`, that is, when
the calls on a pair or a group do not overlap, the promises hold, and a group has
exactly one owner, for any users and any limit of members. The invariants
(`PairInv`, `GroupInv`) are that a call about to write was checked against the rows
as they are. So holding one lock, or doing the checks inside the transaction, is
enough to repair the three.

**Only model-checked.** All liveness (`AcceptedIsAnswered`, `SendSettles`,
`CallingEnds`, `VerdictsConverge` and the six of `liveness`): fairness and
ENABLED are beyond the prover. Each safety property of a passing run has a theorem.
That the refuted promises are refuted is TLC's word too.

## 5. Abstractions and limits

* One conversation (Allocator, BatchWriter, Relay), one user and shard (Hub), one
  pair and one group (Friendship, Membership), one tab (Session, Chat).
* Payloads, formats, logs, metrics and wording are left out; a message is a
  value, a stanza id one of a small set.
* A crash keeps committed rows and nothing else: `synchronous=FULL` is taken at
  its word.
* In `Allocator` the branch of LoadAll for messages without a conversations row
  is left out: no code deletes such rows.
* Named bounds: `MaxWatermark`, `MaxSeq`, `MaxCrashes`, `MaxSends`, `MaxKicks`,
  `MaxLogins`, `Calls`, `Loads`, `Flows`, `Timers`, `Recorders`, each in the guard
  of the action that starts new work.
* Relay takes the allocator's and the writer's promises, so the two cases in
  which the code breaks them (`NeverRewinds`, `ResultIsAuthoritative`) are
  outside it.
* `KickUser` collects only registered clients, so a connection whose registration
  is still in the channel escapes. `KickedIsUnregistered` speaks of the collected
  ones.
* In the panels a service call acts at once: how services interleave is in
  Friendship and Membership.

## 6. Not modelled

* **Tickets, bans and session kicks** (`logic/auth/ticket.go`, `logic/admin`):
  redemption does not look at the database, so a ban between issue and redemption
  goes unnoticed; there is no promise in the code to hold it to.
* **Paging backwards** in the history: no client calls it. Blocking, remarks and
  mutes: single statements, looked up on every frame. The rate limiter, the LRU
  eviction of the verdict caches, the group's unread counters.
* Profile, media and user services, configuration, tools, presentation, generated
  code: no state between calls.

## 7. Plan

1. A larger composition: two tabs of one user over Delivery, with Chat as the view.
2. **Tickets**: issue, redemption, ban and kick composed with Hub's registry.
