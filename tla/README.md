# AssistIM, modelled and proved

AssistIM is an instant messenger: a FastAPI server (`src/server`), a Qt client
(`src/client`) and a web front end for administrators (`src/admin-web`).  This
directory holds TLA+ models of the parts whose correctness depends on the order
in which independent things happen, the TLC configurations that check them on
small instances, and TLAPS proofs of what holds for every instance.

| file | what it is |
|---|---|
| `UserIds.tla` | identifiers the server components share |
| `RealtimeHub.tla` | presence: connections and the users they are bound to |
| `CallRegistry.tla` | the calls in progress, by id and by user |
| `CallSignaling.tla` | websocket handlers, call service, forced logout, blocks |
| `CallSlots.tla` | abstract specification of a call |
| `CallSignalingProofs.tla` | proofs about the four above |
| `MCCallSignaling.tla`, `Call*.cfg` | their instances for TLC |
| `SessionLog.tla` | messages and events of one session on the server |
| `ChatSync.tla` | fan-out, offline sync, the client's cursors and copies |
| `SessionLogProofs.tla`, `ChatSyncProofs.tla` | proofs about the two above |
| `MCChatSync.tla`, `ChatSync*.cfg` | their instances for TLC |
| `SendPipeline.tla`, `.cfg` | a client's queue, acknowledgements, retries and its end |
| `Delivery.tla` | abstract specification of sending |
| `SendPipelineProofs.tla` | proofs about the two above |
| `AuthSession.tla`, `MCAuthSession.tla`, `AuthSession.cfg` | one account: session version, tokens, websockets |
| `AuthSessionProofs.tla` | proofs about it |
| `TokenStore.tla`, `.cfg`, `TokenStoreProofs.tla` | a client's tokens in memory and on disk |
| `Social.tla`, `Groups.tla` | friendships, requests, blocks, private sessions; groups |
| `SessionList.tla`, `.cfg` | the two composed with the session list of a client |
| `SessionListProofs.tla` | proofs about the three above |
| `ClientCalls.tla`, `MCClientCalls.tla`, `ClientCalls.cfg` | a call as its two clients see it |
| `ClientCallsProofs.tla` | proofs about it |
| `PROJECT.json` | components, runs, mutants, source map, findings, hazards, theorems |

To run: `tlc -workers 2 -config ChatSync.cfg MCChatSync.tla`,
`tlapm ChatSyncProofs.tla`.

## 1. Inventory

### Server (`src/server/app`)

**Realtime hub** (`realtime/hub.py`).  State: the accepted websockets, the user
of each connection, the connections of each user.  Operations: `connect`,
`bind_user`, `disconnect_by_connection_id`, `send_json`, `send_json_to_users`,
`send_json_to_one_user_connection`, `disconnect_user_connections`.  Everything
that is online-related reads it: fan-out, login ("account already online"),
force-logout, calls.  Hard: each send is an `await`, so all other handlers run
between two sends of one fan-out, and a failed send drops the connection from
inside a handler that belongs to another one.  Correct when the two
dictionaries are inverse to each other and a dead connection leaves them.

**Call registry** (`realtime/call_registry.py`).  State: active calls by id, the
call of each user.  Stale entries are repaired when they are looked up.  Correct
when no user is in two calls and no user is busy with a call that is gone.

**Call signalling** (`services/call_service.py`, the `call_*` branches and the
`finally` block of `websocket/chat_ws.py`, `realtime/auth_runtime_cleanup.py`).
Invite, ringing, accept, reject, hangup, offer/answer/ICE relays, and the three
ways a call ends without being asked to: the last connection closes, a forced
logout, a disabled account.  Hard: handlers of both users, several devices of
one user, failing sends and a block made in the middle of a call.  Correct when
a call takes and frees both users together, is answered at most once, ends with
its users and its end reaches everyone who had been invited by then.

**Messages and events** (`services/message_service.py`,
`repositories/message_repo.py`, `api/v1/messages.py`).  State: the messages of a
session with their `session_seq`, the session's two counters, the mutation
events with their `event_seq`, read cursors and receipts.  Send, edit, recall,
delete, mark read, the two sync queries.  An operation runs on the event loop
without an `await` and commits once; what interleaves is the fan-out after it.
Correct when the numbers are unique and increase, and when messages and events
together tell a client that was away what happened.

**Sessions, friends, groups, blocks** (`session_service`, `friend_service`,
`group_service`, `block_service` and their repositories).  Private sessions are
keyed by a direct key and hidden while either user blocks the other; a group
keeps two membership tables, its own and its session's.  Correct when both agree
and two users never get two sessions.  Nothing here awaits between reading and
committing; what is hard is long sequences of legal calls, and telling clients.

**Authentication** (`auth_service`, `api/v1/auth.py`, `api/v1/admin.py`,
`admin_user_service`, `websocket/auth.py`).  A token carries a session version;
login, logout, a change or reset of the password and an administrator advance
it, refresh leaves it.  Hard: the row is read by a dependency in a thread before
the handler runs, refresh runs in a thread altogether, and connections are
closed one await at a time before or after the version changes.  Correct when a
token that was replaced authenticates nothing, a bound connection included.

**Devices and prekeys** (`device_service`, `device_repo`).  Each one-time prekey
is to be handed out at most once.

**Users, email codes, moments, files, rate limits, schema checks, backups,
administration.**  Single-transaction reads and writes.

### Client (`src/client`)

**Connection manager** (`managers/connection_manager.py`).  State: connection
state, authentication attempt, the sync cursors (the highest `session_seq` and
`event_seq` seen, per session, saved in the local database).  It authenticates,
asks for what was missed and hands each inbound item to its listeners, one at a
time, under a lock.

**Message manager** (`managers/message_manager.py`, `storage/database.py`).
State: the local copies of messages, messages sent and not acknowledged, the
recently received ids.  It stores pushes, replays events, queues and resends.

**HTTP client and auth controller** (`network/http_client.py`,
`ui/controllers/auth_controller.py`).  State: the tokens in memory with their
generation, the refresh under way, the tokens in the local database.  Correct
when no late answer brings tokens back and the disk follows the memory.

**Session manager** (`managers/session_manager.py`).  State: the sessions shown,
the sessions hidden and since when, fetches under way.  It learns of sessions
from the list, from single fetches, from messages, events and syncs.  Correct
when a client at rest shows what the server lets it see.

**Websocket client** (`network/websocket_client.py`): a worker thread with
reconnects.  **Call manager** (`managers/call_manager.py`).  State: the one active
call, its 45 s timer, the requests without an answer.  A send is awaited, and so
are the subscribers of an event, so clicks and the timer run in between.  Correct
when both clients show what the server has.  **End-to-end encryption, AI assistance, search,
UI**: cryptography, local model runs, presentation.

### How they interact

```
client: message/call/session manager <-> connection manager <-> websocket client
        session manager, auth controller <-> http client        |  (one socket)
server: chat_ws handler (one per connection) -> call / message service -> database
              |  fan-out: one await per send        |
              +------> realtime hub <---- login / admin: forced logout
                        call registry <---- finally block, forced logout
```

The server is a single process with one event loop
(`src/server/Dockerfile:19`): code between two `await`s is atomic, and every
`await` is a place where any other handler may run.

`PROJECT.json` lists every component with its status, and under `hazards` every
place where order, loss, crashes or stale state can do harm, with the properties
that would show it, or the reason why none does.

## 2. Call signalling

### State and actions

| model | code |
|---|---|
| `conns`, `userOf`, `byUser` | `_connections`, `_user_by_connection`, `_connections_by_user` of the hub |
| `calls`, `callOf` | `_calls`, `_call_id_by_user_id` of the registry |
| `pc`, `who`, `out` | where a handler is, its local `user_id`, the sends it still has to make |
| `link` | the socket: `up`, `gone` (peer left), `shut` (unusable for the application) |
| `kick`, `kickCur`, `kicking` | the loop of `disconnect_user_connections` over its snapshot |
| `blocks` | rows of `user_blocks` |
| `ringing`, `late` | history: the calls whose invitation a connection got and whose end it was not told; those of them whose invitation came too late |
| `swallowed` | history: users whose offline transition a failed send hid |

A request is one step up to its first send (`Invite`, `Busy`, `Ringing`,
`Accept`, `Reject`, `Hangup`, `Relay`, `OtherTraffic`, `Auth`).  Then `Deliver`,
`SendFails` and `PassBy` make one send at a time; `send_json_to_users` reads the
connections of a user when that user's turn comes, and so does the model.
`Finalize` is the `finally` block: it disconnects and, if that made the user
offline, ends the user's call before it sends anything.  `KickStart`,
`KickClose`, `KickDrop` are the forced logout; `KickFails` is an exception that
leaves the loop of `disconnect_user_connections`: `auth.py:74` logs it and raises
or returns, `admin.py` lets it end the request, and in each case the connections
not reached stay and `end_active_calls_for_auth_runtime` is not called.
`MutualBlockRaises` is the query that fails when two users block each other: the
exception is no `AppError` and ends the handler.

Abstractions: one private session per pair of users; call payloads and media
type are left out; a call id that the registry has forgotten,
and every send and client with it, stands for a fresh uuid (`Fresh`); all other websocket traffic is an event that is sent and changes nothing
here; sends to several connections of one user are made in any order (the code
iterates a set); a fan-out meets the two exceptions the hub catches
(`RuntimeError`, `WebSocketDisconnect`, which is what a websocket raises that
can no longer send) and no other.

`CallSlots` is what a user sees of it: each user has a slot, a call takes two
slots at once, is answered at most once and gives both back.  `CallSignaling`
implements it under the mapping `slot <- callOf`, `phase <- Phase`.

### Runs

| run | instance | shows |
|---|---|---|
| `calls` | 2 users, 3 connections, 2 calls, blocks both ways, `MaxSending` 1, no forced logout | `TypeOK`, `HubConsistent`, `CallOutlivesUserOnlyBySwallow`, `EndIsAnnounced`, `RegistryConsistent`, `ImplementsSlots` |
| `call_liveness` | 2 users, 2 connections, 1 call, `MaxSending` 1, 1 forced logout | `CallOutlivesUserOnlyBySwallow`, `DeadConnectionLeaves`, `ForcedLogoutEndsCall` |
| `call_offline` | 2 users, 2 connections, 1 call | *violated:* `OfflineEndsCall` |

`HubConsistent`: the two dictionaries are inverse, whatever handlers, failed
sends and forced logouts interleave.

`EndIsAnnounced`: every invitation that is delivered counts, whether its call is
still there or not.  A reachable connection that has one holds a live call, or
the fan-out that ended the call has still to tell it, or the invitation was late:
the call had ended and the announcement had passed the connection when it came.
Late invitations are real.  `chat_ws.py:402` awaits the caller's copy, and
`send_json_to_one_user_connection` each connection of the callee that turns out to
be dead, before the connection that takes the invitation; meanwhile a forced
logout of the caller, or the end of the callee's last connection followed by a new
one, ends the call and tells everybody who is there.  `send_json` then delivers
the invitation of a call the registry has forgotten, and no second end follows:
the callee's client holds the call until it asks the server for something whose
refusal it takes for the end: an answer or a hangup does that, a refused
`call_reject` does not (`call_manager.py:433`), and the manager arms its timer for
calls it placed only.
No comment, doc or test of the repository speaks of this case.  What the property
rules out is a client that knew of the call in time and is not told, whatever
sends, drops and ends cross.

`ForcedLogoutEndsCall`: a forced logout that begins with its user in a call ends
that call or gives up at an exception.  What happens to the call then is
said by `CallOutlivesUserOnlyBySwallow`, which has no exception for forced logouts:
the connections one leaves behind keep the user online, and the call ends when
the last of them goes.

`CallOutlivesUserOnlyBySwallow` is the exact form of what
`call_registry.py:146` promises ("End active calls for a user that has no
remaining online connections"): the promise itself, `OfflineEndsCall`, is
violated, because `send_json` (`hub.py:181`) drops a connection whose send
failed and ignores that this made the user offline.

Bounds.  Three connections let one user have two devices while the peer has one,
the least that makes "last connection" and "invite one connection of the callee"
differ.  Two calls are the least for a second call to meet the remains of a
first.  `MaxSending` bounds how many processes have sends of a fan-out still to
make when a handler takes its next message: at 1, no other handler takes a message
while one sends, which the event loop does not guarantee.  What does happen between
two sends of a fan-out in the runs is everything that is no message: connections
that open, die and fail, `finally` blocks that end a call and send its end, the
steps of a forced logout, blocks.  Late invitations come up that way in both
passing runs.  Two handlers that answer messages at once (a hangup while the
invitation is being sent) are out of the runs' bounds with three connections and
two calls; there `CallSignalingProofs` has the safety properties, which hold for
any `MaxSending`.  The forced logout runs in `call_liveness`, where `Blockable` is
empty because blocks do not matter; its safety beside a third connection and
blocks is proved rather than checked.

Fairness: weak fairness of each process's sends (uvicorn's websocket pings end a
connection that does not take what it is sent, so `send_json` returns or raises),
of `Finalize` (a handler whose socket is closed is woken by `receive_json`) and
of the forced logout's steps (a coroutine that can go on is scheduled).  Nothing
is assumed of clients.

### Proofs

`CallSignalingProofs` shows, for any sets of users, connections and calls and
without the bounds, `Spec => []TypeOK`, `Spec => []HubConsistent`,
`Spec => []RegistryConsistent`, `Spec => ImplementsSlots`,
`Spec => []CallOutlivesUserOnlyBySwallow` and `Spec => []EndIsAnnounced`.  Assumed:
`None` is no identifier, users and connections differ (`ConnsAreNoUsers`; both are
names of processes that send), and what the bounds' assumptions say.

The argument has two layers.  Each operation of the hub and of the registry
keeps the consistency of its own module; each action of `CallSignaling` is made
of such operations and of steps that leave them alone.  The inductive invariant
`IInv` adds to the types what an action needs to call an operation legally: the
connection a handler acts on is known to the hub, and a snapshot of the forced
logout holds connections.  That `get_for_user` repairs nothing in a consistent
registry (`SweepIsIdle`) is what makes lookups steps that change nothing, and
with it refinement follows operation by operation.

`CallsEndWithTheirUsers` needs two facts beside the property (`OnlineInv`): the
user a handler has in hand is the one its connection is bound to (`OwnBinding`),
and what a forced logout has still to close are connections of its user
(`KickOwn`).  So whoever takes a user's last connection away ends the call in the
same step or is recorded as having ignored it; a forced logout that gives up
leaves what it has not reached to their handlers.

`EndsAreAnnounced` needs `RingInv`: an invitation still to be sent for a live call
goes to parties of it (`InviteMeant`), and a connection that has an invitation
belongs to a party of a live call, is among those a fan-out has still to tell
(`Informed`), or has it in `late`.  The step that ends a call turns the first into
the second, since its fan-out goes to both parties; a delivery after the end adds
to `late` only when no fan-out has the connection left.

## 3. Session log and sync

### State and actions

`SessionLog` is the server's side: `rows` (the messages table), `msgSeq`,
`eventSeq` (the session's counters) and `log`, the committed entries in order.
The entry of an edit, a recall or a deletion is its row of `session_events`; the
entry of a new message is history, since the row may be gone.  `Create`, `Edit`,
`Recall`, `Delete` are the four operations with their one commit.  `View` is a
row as it is serialized, `Says` what an entry on its own tells a client.

`ChatSync` adds the way to one device of a member who does not write:

| model | code |
|---|---|
| `pend` | handlers that committed and have the push to this client still before them |
| `link`, `wire` | the connection and what was written to it and not received |
| `ask`, `owed` | a `sync_messages` request; events it read and has not written yet |
| `cursor` | `_session_sync_cursors`, `_event_sync_cursors`, saved before an item is stored |
| `proc` | the item in `_process_inbound_message` whose listeners are not done |
| `store`, `recent` | the local messages table, `_recent_incoming_message_ids` |
| `base`, `got`, `last` | history: the cursors of the last sync, the entries processed, the one each copy shows |

The server's steps are `Commit`, `WritePush` (one push of a fan-out; handlers
overtake each other), `Bind`, `AnswerSync` (both lists are read, the first is
written), `WriteEvents` (the second, after the first send returned) and `Drop`.
The client's are `Authenticated` (auth_ack, the request goes out), `Take` (the
cursors advance and are saved), `StoreChat`, `StoreEvent`, `StoreHistory`,
`StoreEvents` (the listeners) and `Crash`.

Abstractions: one session, for numbers and cursors are kept per session; text,
attachments and ciphertext are a `Body`; time limits of edit and recall only
restrict when an operation may happen and are left out; a batch of events is
replayed in one step, so a crash inside it is one before it, and saving the
cursors is part of `Take`; the deduplication window ends at any time, so a
message in `recent` may be ignored or stored again; read receipts and profile
events, which share `event_seq`, change no message and are left out; pages the
client fetches over HTTP when a session is opened, and the cursors it derives
from its own table when none were saved, are not modelled.

### Runs

| run | instance | shows |
|---|---|---|
| `sync` | 2 messages, 2 contents, 3 commits, 1 broken connection, 1 crash | `TypeOK`, `TableIsReplay`, `NumbersIncrease`, `Converges`, `CursorsClaimWhatWasTaken` |
| `sync_live` | 1 message, 2 commits, 1 broken connection, 1 crash | `ConnectedClientSettles` |
| `sync_gap` | 2 messages, 2 commits, 1 broken connection | *violated:* `CursorsAreRecoveryPoint` |
| `sync_replay` | 1 message, 3 commits, nothing breaks, pushes in commit order | *violated:* `ReplayEndsCurrent` |

`TableIsReplay`: the last entry about a message says what its row shows, so a
client that applies what it missed, in order, ends with the server's table.
`NumbersIncrease`: no two messages and no two events share a number, numbers
grow in commit order and stay within the counters; "all above the cursor" is
then all that was missed.  `CursorsClaimWhatWasTaken`: cursors never go beyond
what was committed nor back below what was processed.  `Converges` puts them
together: when nothing is on the way, a message about which anything above the
last sync's cursors was committed is shown as the server has it, unless an older
entry about it was processed after a newer one.

The exception and the restriction in `Converges` are real, and are what the two
violations show.  *The cursors are no recovery point*
(`connection_manager.py:383` calls them one): a push that arrives between
`auth_ack` and `history_messages` moves the saved cursor over messages still to
come, and the cursor is saved before the listeners have stored an item; if the
connection breaks or the process ends there, sync never sends those messages
again.  *A replay may end with old content* (`message_manager.py:1945` says "in
order"): events are read before a send is awaited and written after it, so a
newer edit can reach the client first and be overwritten by the older one.

Bounds.  Two messages let a push of one pass the history of the other; three
entries are a message and two changes of it, or changes of two; one broken
connection and one crash put a loss at every place, and the next sync after it.
`Overtake` is FALSE in `sync_replay` to show that the replay goes wrong without
pushes overtaking each other.

Fairness: sends return (as above) and the client's message loop goes on while it
has something.  `Bind`, `Drop`, `Crash` and commits are not fair, so
`ConnectedClientSettles` speaks of a client whose connection stays bound.

### Proofs

`SessionLogProofs` proves `LogInvariance`: the log keeps `TableIsReplay` and
`NumbersIncrease` for any messages and contents and any length.  Two lemmas about
a step that replaces one row and appends one entry do the work (`StepKeepsReplay`,
`StepKeepsNumbers`); an operation only has to show that its new row shows what
its new entry says and that the entry's number is beyond its counter.  The
strengthening is `RowsNumbered`: no row is numbered beyond `msgSeq`, which a fresh
number needs to be distinct from all rows.

`ChatSyncProofs` proves, for any bounds, `Spec => []TypeOK`,
`Spec => []TableIsReplay`, `Spec => []NumbersIncrease`,
`Spec => []CursorsClaimWhatWasTaken` and `Spec => LogSpec`: the system implements
the session log on its own.  The inductive invariant adds `CursorInv`: items on
the wire and in hand are `Sound` (their rows are numbered by the server, their
events are events), and the item in hand is `Claimed` by the cursors.  It is
needed because a cursor advances on an item that was written long before: only
what was true of it when it was written bounds the new cursor.  That the maximum
of the numbers of an item exists (`BoundedHasMax`) comes from the
well-foundedness of `<` on the naturals.

`ClientConverges` states `Spec => []Converges`.  What a quiet client must
show has to be followed from the commit to the row.  `SyncInv` says that the
newest entry about a message, if it is above the cursors of the last sync, was
processed or is still `Coming`: before a handler that has not pushed it, on the
wire, owed by a half-written answer, in the item in hand, or due in the answer to
a request (`NothingLost`); that rows of history show what their entry said
(`Honest`); and that a copy shows the last entry processed about it (`Faithful`).
When all is quiet nothing is coming, so it was processed.

Assumed: `None` is no content, and the bounds are natural numbers.

## 4. Sending

### State and actions

| model | code |
|---|---|
| `row` | status of each message in the client's `messages` table |
| `call` | each invocation of `send_message` and `retry_message`, and its next await |
| `pend` | `_pending_messages`: whose entry it is, `attempt_count`, `awaiting_ack` |
| `queue`, `worker` | `MessageSendQueue` and the one message its worker is at |
| `check` | what a pass of `_check_pending_messages` has decided and not yet done |
| `handler` | the acknowledgement or error between its `pop` and its save |
| `link`, `wire`, `back`, `late` | the authenticated connection; what a broken one may still deliver |
| `allowed`, `log` | whether the sender may write to the session; what the server stored |
| `asked`, `delayed`, `settled` | history: the order of sending, messages queued again, messages finally acknowledged |

An action is what runs between two awaits at which something else may change the
same state.  The user's calls save before they queue (`SendMessage`, `SaveRetry`,
`Enqueue`); the worker takes, transmits and reports (`TakeQueued`, `Transmit`,
`Report*`), sleeps before another attempt (`NapEnds`) or gives up and saves
afterwards (`SaveGivenUp`); the check loop removes entries first and acts
afterwards (`CheckPending`, `CheckRetry`, `CheckFail`); an answer removes the
entry first and is saved afterwards (`TakeAnswer`, `SaveAcknowledged`,
`SaveError`).  `Drop` loses what was written or leaves it with the handler of the
broken connection (`ServeLate`); `Close`, `FinishClose` and `Crash` end the
client.  `Serve` is the server's `chat_message` branch: membership first, then
the message is stored unless its id is there.

Abstractions: time (what waits for a timeout may see it at any moment); what is
done to a message before it is queued (uploads, encryption); one session.

`Delivery` is what a user is promised: a message shown as sent is stored, the
server stores only what was sent, and giving up says nothing about the server.

### Run

| run | instance | shows |
|---|---|---|
| `sending` | 2 messages, 2 calls, 2 attempts, 1 fault (a break, a refusal or an end of the client) | `TypeOK`, `SentIsStored`, `EveryPendingIsDriven`, `AcknowledgedStaysSent`, `OrderKept`, `KeepsPromise`, `SendingEnds` |

`EveryPendingIsDriven`: no entry of the map is forgotten between the worker, the
check loop, a retry that replaced it and an answer.  `AcknowledgedStaysSent`: an
acknowledgement processed with nothing else under way about its message is
final.  The condition is needed: an acknowledgement that comes while a verdict
of the check loop or of the worker waits to be saved is overwritten by it
(`message_manager.py:2826`), so a stored message may be shown as failed.
`OrderKept` is the "preserve message ordering" of `message_manager.py:135`, with
the exception the code makes: a message that is queued a second time, or was on
the wire of a broken connection, may come later.  `SendingEnds`: a message in
hand is shown as sent or failed at last.  A row left as sending when the client
ends is taken up by nobody; the property says so.

Bounds.  Two messages are the least for an order; two calls let a retry meet the
remains of the first send of its message; two attempts have a first and a last;
one fault is put at every place.

Fairness: the event loop goes on with the user's calls, the worker, the check
loop and the saving of an answer.  Of the network, the server and the user
nothing is assumed.

### Proofs

`SendPipelineProofs` proves, for any messages, calls, attempts and faults,
`Spec => []TypeOK`, `[]SentIsStored`, `[]EveryPendingIsDriven`,
`[]AcknowledgedStaysSent`, `[]OrderKept` and `Spec => KeepsPromise`.  The
inductive invariant
`IInv` has three groups of parts.  `Types` and its shapes say which entries,
messages and calls can be in hand together.  `Known` says that whatever is
queued, on the wire, answered or being decided about is a message the user has
sent; refinement needs it, since `Delivery` lets the server store nothing else.
`Acked` says that an acknowledgement on the way means the message is stored:
without it `SentIsStored` is not inductive.  `Final` says what can no longer
happen to a settled message: no entry, no verdict, no retry behind it, which is
what makes its acknowledgement final.

The order has an inductive invariant of its own, `OInv`.  Queue, worker, wire and
log are one way, and `Before` says which of two messages is further along it.
`Lined` says that nothing has a message before it that was asked for later, nor a
second copy of itself, unless it was delayed: each step either moves a message on
without overtaking, takes one away, or delays the one it puts back.  What a broken
connection may still deliver counts as before everything on its way (it is put at
the end of the log, in the middle of the way), and is always delayed.
`HeldAsked` says that all of this has been asked for, so that a message asked for
now is later than all of it.

## 5. The sessions of an account

### State and actions

| model | code |
|---|---|
| `version`, `disabled` | the account's row of `users` |
| `pictureLost` | its avatar file is missing, so that normalising the avatar does not read the row again |
| `held` | versions of the tokens each device was given |
| `conn` | the version each bound websocket was authenticated with |
| `req` | requests between two points at which another may act |
| `written`, `shared`, `graced`, `spared` | history: versions written; written twice or handed over; given out while disabled; connections left |

`Login` runs in one step when nobody is connected.  `ForceLogin` takes its
snapshot, `Disconnect` closes one connection at a time, `Replace` advances the
version.  `LogoutBegin` and `ChangeBegin` are the dependency that reads the row
in a thread, `Logout` and `ChangePassword` the handler that advances what was
read.  `RefreshBegin` checks, `Refresh` hands out.  `Expel` is a password reset
or an administrator's forced logout, `Disable` and `Enable` the administrator's
switch; `DisconnectFails` is the `except` branch that leaves the remaining
connections.

Abstractions: one account; passwords, codes and the life of a token only
restrict when a request may begin.

### Run

| run | instance | shows |
|---|---|---|
| `auth` | 2 devices, 2 websockets, 2 requests, 3 versions | `TypeOK`, `OneLiveSession`, `StaleAreClosing`, `DisabledStaysOut` |

Each property holds up to what its history variables name, and the model needs
every one of them; these are behaviours of the code:

* a refresh overtaken by a login hands the new version to the device that was
  replaced, and the account has two live sessions (`auth_service.py:160` reads
  the row again after the token was checked);
* two requests that have read the same row write the same version, and a logout
  that was read long before may set the version back, which makes older tokens
  valid again (`user_repo.py:123`);
* a login, refresh or password change that had seen the account enabled hands
  tokens to an account disabled meanwhile, and `require_websocket_user_id` does
  not look at `is_disabled`, so a websocket is accepted with them;
* a password change leaves the connections of the version before; a forced login
  leaves what binds with an old token between its snapshot and the new version;
  an unexpected failure in closing one connection leaves the rest.

Bounds.  Two of everything is the least for a race; three versions let a version
be replaced, then written again by a request that read the first.

Nothing is assumed to be fair: the properties are about what may not happen.

### Proofs

`AuthSessionProofs` proves the four invariants for any devices, websockets,
requests and bound.  `IInv` adds `Origins` (the current version and
all that are held have been written, and a device that refreshes holds what it
presented), without which a new version could not be told from an old one, `OneHolder` (an unshared version is held by
one device at most, stated with equality of devices, which the prover handles,
instead of with `Cardinality`) and `NoGoodTokens` (of a disabled account, the
current version is held by nobody unless it was graced or shared).

## 6. The tokens of a client

### State and actions

| model | code |
|---|---|
| `mem`, `flight` | tokens of `HTTPClient`; refreshes under way and whether `_token_generation` is still theirs |
| `op` | the sign-in, sign-out or restore that is writing or about to change memory |
| `saver` | `_token_state_task` |
| `seen`, `kept`, `leaked` | the two rows of `app_state` as read on the connection, as a restart would find them, and whether a savepoint is open |
| `login`, `crossed` | history: the current sign-in; a refresh ended during a foreground write |

A write goes through the lock of `_write_transaction`, a `SAVEPOINT`, its
statements and the `RELEASE`, which commits only if no other savepoint is open.
`CancelWriting` is the cancellation of the saver inside it: `except Exception`
(`database.py:130`) does not catch `CancelledError`, so neither rollback nor
release follow.  `Refreshed`, `RefreshRefused` and `RefreshIgnored` are the three
ends of a refresh; `CommitBegin` to `RestoreOffline` follow the controller's
methods, which write the disk first and change the memory afterwards.

### Run

| run | instance | shows |
|---|---|---|
| `tokens` | 3 sign-ins, 2 refreshes of each, 2 ends of the client | `TypeOK`, `TokensOfThisLogin`, `DiskFollowsMemory`, `KeptIsWhole` |

`TokensOfThisLogin` is what the generation number is for.  `DiskFollowsMemory`
carries two exceptions, both real.  A refresh that ends while a sign-out deletes
the tokens starts a save of its own, so the tokens are on disk after the
sign-out; during a sign-in it leaves what was just replaced.  And a cancelled
save leaves its savepoint open: everything the client writes from then on,
messages included, is inside it and is gone when the process ends.
`KeptIsWhole` holds in spite of that: a restart never finds half a pair.

Bounds.  Three sign-ins let a refresh of the first meet the third; two refreshes
let one save cancel another; two restarts, one after a leaked savepoint and one
after the repair.

### Proofs

`TokenStoreProofs` proves the four invariants for any bounds.  `IInv` adds
`MemInv` (a flight that is current presented the tokens in memory; all others
are of no consequence), `DiskInv` (what a writer that holds the lock has done so
far, and that `seen` is whole whenever nobody writes and no write was cut off)
and `Followed` (a saver at work is writing what is in memory unless something
crossed it), from which `DiskFollowsMemory` follows when the saver is done.

## 7. Friends, groups and the session list

### State and actions

`Social` is `friend_service`, `block_service` and `create_private`: `friends`,
`requests`, `blocks`, `directs`, one action per operation.  `Groups` is
`group_service`: `owner`, `roles` (`group_members`) and `members`
(`session_members`).  `SessionList` composes both with the hub's sends, the
connection, the sync and the session manager of one client:

| model | code |
|---|---|
| `said`, `told` | messages and events stored in each session |
| `out` | sends of handlers not yet made; they overtake each other |
| `wire`, `link`, `ask` | the connection, the sync request not yet answered |
| `todo`, `held` | sessions the item in hand, or the messages of a sync, still have to introduce |
| `job` | the HTTP request the dispatcher (`inbox`) and the user (`ui`) wait for |
| `listed`, `hidden` | `_sessions`, `_hidden_sessions` |
| `msgCursor`, `eventCursor` | the sync cursors |
| `drift` | history: why the list may differ, see below |

A block, a removal, leaving and the end of a group are told by a
`contact_refresh`, on which the client fetches the whole list; it is not stored.
Every other change of a group is an event, which sync replays.  A message or an
event of an unknown session makes the client fetch it; when the fetch for a
message fails a session is made up from the message (`StoreMessage`).

Abstractions: one other user; the server's reads of a list are one step; server
and client share a clock; the list in memory and on disk are one; the further
list refresh that the interface asks for once a group has been left or ended
from this client (`chat_interface.py:5064`) is left out of `StoreLeave`, for the
answer has already changed the list.

### Run

| run | instance | shows |
|---|---|---|
| `session_list` | 2 users, 2 requests, 1 group; up to 4 operations before the client first starts, 2 afterwards, 1 fault, 1 action of the user | `TypeOK`, `BlockedAreStrangers`, `FriendsAgreed`, `OneOpenRequest`, `GroupsIntact`, `Converges` |

`FriendsAgreed` says that a request cannot outlive its week, a block or a removal
and still make friends.  `GroupsIntact` says that no sequence of transfers, role
changes, removals and leaving leaves a group without the one owner, or the two
tables different.

`Converges`: a connected client with nothing left to do lists no session the
server would not show it, and all it would show but those the user has hidden.
The exceptions are kept in `drift`, and TLC finds a counterexample without each
of these:

* a `contact_refresh` that nobody received, or that was lost with a connection:
  a client that was away when it was removed or blocked keeps the session;
* two users who block each other: `has_block_relation` (`block_repo.py:45`)
  expects one row and raises, so both users' session lists, every fetch of the
  session and any sync of its messages fail;
* a list or a fetch for an event that fails: nothing asks again;
* a message pushed to a user after its removal: the fetch is refused and the
  session is made up;
* the messages of a sync when the connection breaks before its events: the
  cursors have passed them, their sessions are never introduced;
* an answer to the user that was made before and stored after something newer.

Three more exceptions (a sync that raises, a failed open that a message joined, a
cancelled fetch) and the restart come from the code and are not needed within
these bounds.  The second takes two actions of the user: a group is hidden, a
message of it comes while it is being opened again, the request fails, and the
message goes with it, for it had joined that fetch or joins it when it has failed
already (`session_manager.py:1040`); nothing asks again.  `StoreOpen` notes it
where the answer is dropped.

Bounds.  `MaxBefore` lets the client start in a state with a group, a session and
a block; `MaxEarly` limits how much of it may be the last operation before the
start; two operations afterwards are a change and one that overtakes or undoes
it.  A message of the private session may be there before the start: without
one the list leaves it out.  Requests and roles, which the list does not look at, change only before the
client starts; there all sequences up to `MaxBefore` are explored.

### Proofs

`SessionListProofs` proves `GroupsIntact`, `BlockedAreStrangers`, `FriendsAgreed`
and `OneOpenRequest` as theorems of `SessionList`'s `Spec`, for any users,
requests and groups.  Each operation keeps the invariants of its own module; a
step of `SessionList` is such an operation or leaves the tables alone, and
`JobInv` (what a slot waits for) is what shows that leaving a group from this
client is one.  `Asked` strengthens `FriendsAgreed`: an open request within its
week means its sender is still willing, so accepting it makes friends who agree.

It also proves `[]TypeOK`, of the server and the client.  That needs more than
types: `ServerTypes` bounds the events, the messages and the `contact_refresh`es
under way by the operations so far, through the restart of the count when the
client is started, so that a number for the next refresh is always left
(`NewRefreshIsNew`); `ClientTypes` adds what may be on the wire.

`ListConverges` is `Spec => []Converges`, for any number of operations, faults and
actions of the user.  As with calls below, the invariant says what is on the way
while the client is not quiet:

`Inv == Typed /\ BaseInv /\ ListInv`

* `SyncOrder`: a connection has one sync, its messages in front of its events;
  `held` waits for events that are at the head of the wire.
* `Numbered`: no cursor and nothing under way has a number above the last one of
  its session; the end of a group, which takes its numbers along, is why this is
  said of groups that are not gone.
* `Founded`: a group that exists has an event, a private session with a message
  its two members.
* `GoneLeave`: a listed session that is gone is `Leaving`: a `contact_refresh` is
  on its way, or the answer to a list without it.
* `WantedCome`: a session that is there and not listed is `Coming`: its last
  event or message is due (on its way, or unknown to the sync to come), the
  dispatcher is introducing it, or the answer to a list has it.
* `AnswersLeave`, `ListsCome`: what an answer shows and is gone will leave, and
  what is newer than a list will be told, unless the answer was passed, which
  is what `passed` is for.

The longest part is that an operation on the server tells Me of what it changes
(`OperationTells`): either it leaves what Me can see of a session, or a refresh is
on its way, or the session's last event or message is due.

## 8. Calls on a client

### State and actions

`ClientCalls` has one client of each user over `CallRegistry`'s operations; the
server's handlers are one step here (`Serve`, `Leave`), for `CallSignaling` has
them send by send.

| model | code |
|---|---|
| `active`, `timer` | `_active_call`; the call `_unanswered_timeout_task` is for |
| `accepting`, `actions` | `_local_accepting_call_ids`, `_pending_call_actions` |
| `starting` | `start_call` between its send and what it does afterwards |
| `ending` | a handler of a call's end whose subscribers are not done |
| `prompt`, `alert` | the toasts for incoming calls, the ringing notices scheduled |
| `link`, `old` | the connection; whether the server has yet to notice that it broke |
| `up`, `down` | requests and events on the way |
| `hidden` | calls whose private session a block hides |
| `strayed`, `torn` | history: calls a client passed over or replaced; calls a message of which was lost |

`StartCall` goes up to the await and `InviteSent` or `InviteFails` on from there;
`Receive` is one inbound message under the dispatch lock, and an end is completed
by `LetGo`.  `TimeOut` is the timer, `SendRinging` the scheduled notice, and
`AcceptCall`, `RejectCall`, `HangupCall` are the user's clicks.  A send may be
given up after ten seconds although its frame goes out (`Ask`, third case).

Abstractions: one client per user; the relays of WebRTC and the media; the call
window; a logout during a call.  A user hangs up again only when the first hangup
was answered.

### Run

| run | instance | shows |
|---|---|---|
| `client_calls` | 2 users, 2 calls that either starts, 1 fault (a break, a send that is given up or a block) | `TypeOK`, `ShownCallsAreLive`, `LiveCallsAreShown`, `UnansweredCallsEnd` |

The three properties are about a system with nothing on the way.
`ShownCallsAreLive`: no client is left with a call that is over.
`LiveCallsAreShown`: no call is left that one of its users is not shown.
`UnansweredCallsEnd`: when the timers have run as well, no invitation is left
unanswered.  TLC finds a counterexample without each of these exceptions, and
they are behaviours of the code:

* a client that shows one call drops the invitation to another without a word,
  though the server found it free: two users call each other, and the one whose
  own attempt is refused as busy has passed over the call that went through;
* `start_call` sets the active call after its send (`call_manager.py:150`), over
  an invitation that came or a second call that was started meanwhile, and the
  timer of what it replaces is cancelled: that call rings until its other user
  ends it;
* the handler of an end clears the active call after its subscribers, whichever
  call it is by then (`call_manager.py:378`);
* a message that is lost is not repeated: a client that was away when a call
  ended shows it until its user hangs up, and a timer that runs out while the
  connection is down is spent (`call_manager.py:508`);
* a block hides the session of a call in progress from both users, whose requests
  about it then fail.

Bounds.  Two users and two calls are the least for calls that cross.  A client
has one request on the way (`MaxAhead`), and the server takes the next when the
events of the one before have been taken (`MaxBehind`): requests still cross
events and requests of the other user, and what comes in between a client's wait
and its end is still any of them.  One fault is put at every place.  With every
counter bounded no step can be repeated for ever, so what holds whenever all is
quiet is what the clients come to.

### Proofs

`ClientCallsProofs` proves all four invariants of the run as theorems of `Spec`,
for any users, calls and bounds.  A property of quiet states is never inductive:
the invariant has to say what stands for the property while something is on the
way.  It is

`IInv == TypeOK /\ PartiesInv /\ FlowInv /\ ClientInv /\ ShownInv /\ CallerInv /\ CalleeInv`

* `PartiesInv`: every request, event, prompt, timer and shown call belongs to a
  user of its call, and a live call is in the registry under both.
* `FlowInv`: an invitation is the first request of its call and sent once, a call
  is answered once, the news of an end or a refusal is true when it is read, and
  nothing of a call comes behind its end.  The order of the queues is needed
  here: an invitation or an answer may be out of date when it is on the way, but
  then the end stands behind it in the same queue, or it was lost.
* `ClientInv`: who shows an incoming call as not answered while its answer is on
  the way still knows it for its own; a call is let go only after its end.
* `ShownInv`: a shown call is live and both sides agree whether it is answered,
  or its end or the refusal of a hangup is on the way, it is being let go, its
  timer runs, a block hides it, or a message of it was lost.
* `CallerInv`, `CalleeInv`: a live call is shown to its caller, or `start_call` is
  still between its send and its assignment; and to its callee, or its invitation
  is on the way; but for calls that strayed, were torn or are hidden.

Where nothing is on the way the alternatives fall away, and what is left is
`ShownCallsAreLive` and `LiveCallsAreShown`; with no timer running,
`UnansweredCallsEnd` follows from the first two.  TLC agrees with each part of
`IInv` within the run's bounds, and for one call with two faults.

## 9. What is only model-checked

Liveness (`DeadConnectionLeaves`, `ForcedLogoutEndsCall`,
`ConnectedClientSettles`, `SendingEnds`) is beyond the prover: these are checked
on the instances above.  Every invariant and action property of a passing run is
a theorem.  The violations are TLC's.

Every property of a passing run has a mutant in `PROJECT.json`: a change of one
definition, marked "wrong on purpose" where it is defined, under which TLC finds
the property violated.

Deadlock is not checked in any run: with the bounds used up and nothing on the
way, all these systems really are at rest.

## 10. What is not modelled

* Pages of messages fetched over HTTP, read cursors, receipts and unread counts:
  they add rows and numbers and take no part in what the models relate.
* The websocket client's worker thread, its reconnects and authentication
  attempts: a connection is up or down here.
* The relays of a call between clients, a logout during a call; prekeys.
* Recall, edit and delete from the sending client: `SessionLog` has their effect
  on the server, the client sends them once and shows the answer.
* Media streams, cryptography, local AI, search, the user interface, the
  administration front end, backups and migrations: their correctness is in data
  and libraries rather than in the order of events.

## 11. Plan

Done: call signalling, session log and sync, sending, the sessions of an account,
the tokens of a client, friends, groups and the session list, and the clients'
side of calls, each with a run and its proofs.  What would add most from here:

1. the websocket client and the connection manager's authentication attempts
   (`websocket_client.py:407`, `connection_manager.py:594`), as the detailed form
   of the connection `ChatSync` and `SendPipeline` assume;
2. the pages of messages that are fetched over HTTP and stored over newer events
   (`message_manager.py:2967`).
