# Verification of the tusa9 chat server

TLA+ models of the chat server in `tusa9/` (C++), checked with TLC and, for what
matters most, proved with TLAPS. The server keeps users, who come with a browser
(client type `T_WWW`) or with an IRC client (`T_IRC`), in rooms ("channels") and
delivers what is said in a room to the clients in it. `racom/` and `tusa7/` hold
older copies of the same server, `chat.tmp` and `apps` older code and tools; the
models follow `tusa9/` (`chatserver/`, `core-web/`, `core/`). All paths below are
relative to `tusa9/`.

## 1. Inventory

### How the system is put together

```
 browsers ── tcp_server handlers ─┐                       ┌─ global_state (shared copy)
 IRC      ── irc_server          ─┤  push  ┌────────────┐ │
 bots     ── dialog server       ─┼───────►│__chat_events│─┼─► chat thread (one):
 timers   ── local_users_iterate ─┤        └────────────┘ │    rooms, indexes, connections
 admins   ── app_server          ─┘                       │
       read / patch global_state ◄────────────────────────┘
                              chat thread ──► tcp_sender ──► sockets
```

Many network threads turn requests into events on one deque. One chat thread
(`chat_processor::handler`) takes all queued events at once, handles them one
after the other, and owns the rooms without a lock. What the network threads must
know of the rooms they read from `global_state`, a copy under a mutex that the chat
thread writes after every change, and that a leave also patches from the network
side. The two sides never wait for each other, so everything between them is a
question of order.

### Components

**global_state** (`chatserver/global_state.cpp`, `user_state.cpp`).
State: per user a `user_state` (rooms × client types, nick, status, ip) and
`tmpc__`, a cache of rooms per client type. Operations: `set_user_state`,
`part_channels`, `remove`, `erase`, setters, and the queries `inchat$www`,
`inchat$irc`, `get_user_channel`, which fill the cache. Hard: the cache must be
dropped by each method that changes rooms. Correct when a query answers what the
state says at that moment. *Modelled: GlobalState, ChannelDirectory.*

**Chat thread: presence** (`chat_thread.cpp`, `user.cpp`).
State: `__users$` (loaded users), `__users_in_channels$` (users per room),
`local_clients` (connections), `__local_users_in_channels$` (connections per room),
`join_time`, `trash`. Operations: `on_common_JOIN`, its replay through
`do_set_user_state`, `PART_CHANNEL`, `KICK_USER`, `SET_STATUS`, `SET_NICK`,
`CHANGE_CONTACT_MODE`, `on_CHAT_MESSAGES2`, `FLUSH_USER_DATA`, and the periodic work
of the loop (cleaning of connections, rebuild of the index, statistics, trash).
Hard: a join is handled twice, the second time behind whatever was queued in
between; the four structures are changed by different handlers, several of which
return half way. Correct when the structures agree on who is where, and a user
ends up where he last asked to be. *Modelled: ChatThread.*

**Presence calls of the network threads** (`url_chat_messages.cpp`,
`local_user_handle.cpp`, `irc_user.cpp`, `irc_server.cpp`, `login.cpp`,
`app_server.cpp`, `main.cpp`). No state of their own beyond a call; each call is a
sequence of accesses to the queue, `global_state` and `local_users`. Hard: read,
change and write back of `global_state` with the chat thread running in between; the
write after the push in `us_PART_CHANNEL`; a login that unloads a user
(`flush_user_data`) who may be in rooms with his other client.
*Modelled in ChatThread as far as presence goes.*

**Chat thread: messages** (`chat_msg.cpp`, `chat_thread.cpp`, `user.cpp`,
`message.cpp`, `url_chat_messages.cpp`). State: one log of all rooms
(`_$messages`), three queues of announcements, `external_$messages`, the backup on its
way to two files. Operations: `SEND_MESSAGE`, the content of a page, announcements,
notices of other threads, trimming, `chat_channels_backup_messages`. Hard:
`external_$messages` is copied and cleared under two locks; a page asks for its content
before its socket takes over; a page is filled from the log and then lives on what is
sent. Correct when a page shows each message of its room once and in order, and log and
files keep what was said. *Modelled for browser users: RoomMessages.*

**Ignore lists** (`url_ignore_user.cpp`, `ignore_vec.cpp`, `user.cpp`). A list is in the
database, in a cached row, and in the chat thread's copy of the user. Hard: handlers, the
updater, logins and the purge change them with one lock each. Correct when the three
agree once nothing is under way. *Modelled: IgnoreLists.*

**db_map, updates** (`core/db_var.h`, `update_cmd.cpp`). A cache of rows and a queue of
updates that one thread extracts in batches, tells the chat thread, applies to the cached
row and writes to the database. Hard: two threads load one row; purge against queued
updates; a query that throws. *Modelled for one kind of row, in IgnoreLists; the other
sixty updates go the same way with other tables.*

**local_users** (`u_chat.cpp`, `local_user_handle.cpp`, `login.cpp`). State: sessions
per user and client type with `erased`, access and offline times. Operations:
`insert$`, `erase$`, `get$`, `__clean$`, the janitor. Hard: `__clean$` decides and erases
under two locks; `insert$` keeps an existing entry. Correct when a live login is never
removed by the cleaning of a dead one. *The entries of IRC users are in IrcSessions; those
of browser users are the sessions of ChatThread, which come and go at any time.*

**IRC sessions** (`irc_server.cpp`, `irc_login.cpp`). State: `irc_sessions`, the key a
connection has for its session, the half-finished login. Operations: the commands up to
the login, QUIT, `on_delete`, the timeouts, kick and kill. Hard: the session, the login
and the connection end in different threads, in any order, and the parts are looked up
again by key in between. Correct when a login keeps its entry and dead sessions go.
*Modelled: IrcSessions; what JOIN and PART do to the rooms is in ChatThread. The commands
that only send text are left out.*

**tcp_server** (`core-web/tcp_server.cpp`). Listeners accept connections into a list and
create handler threads by comparing two counters. Hard: the counters are changed at other
moments than the list. Correct when everyone is served and the limit holds as far as it
can. *Modelled: TcpServer.*

**tcp_sender** (`core-web/tcp_sender.cpp`, `c_conn.cpp`). One thread writes all sockets;
all others append to a buffer and push an event. Hard: the kernel reuses descriptors, and
the sender's map is by descriptor; partial sends. Correct when each connection is a pipe.
*Modelled: TcpSender, BytePipes.*

**Dialog servers** (`core-web/tcp_dialog_server.cpp`). A selector reads all connections
that talk in lines and queues them for several handlers. Hard: descriptors reused between
`poll` and `recv`; data that arrives while a handler finds no line and leaves. Correct
when every line that was read is processed, as a line of the client who sent it.
*Modelled: DialogServer.*

**Chat thread: contact lists** (`user.cpp`, `chat_thread.cpp`). State: per connection and
room `visible_users`, what the client was told; `update_contact_list_data`, who changed; the
users' objects with nick, status and the mode of the list. Operations: the whole list with a
join or a page, the notes behind joins, leaves, changes and kicks, and
`__update_contact_list_all`, which turns notes into differences. Hard: a client's list is one
whole list and many differences, each computed later than the change it tells of, from
objects that a login or a kick may have replaced; nicks, statuses and modes come a second
time, late, through the updater. Correct when each client shows who is
there, under the present nick. *Modelled: ContactLists.*

**Mafia bot** (`bot/bot-mafia-new`: `game.cpp`, `day.cpp`, `night.cpp`, `command.cpp`,
`user.cpp`). A program of its own that leads a game in a room through a framed connection.
State: the gamers with role, order and marks, eight flags that say which vote or time of
day it is, the clocks they started, the two votes. Operations: what the room says
(`process_message`, `process_night`, `process_day`, the second vote), JOIN, QUIT, KICK, NICK,
and `process_game`, which looks at the clocks whenever nothing is to be read. Hard: a message
and a timeout end the same vote; marks that an order puts on its target must be taken back;
players leave in the middle of a night; the end of the game is judged in two places. Correct
when everyone who goes goes for a reason, no game is left without a clock that will move it
on, and days end. *Modelled from the first night of a game: Mafia.*

**Moderation** (`CHMODE`, `CHVOICE`, klaps): *what a change of voice publishes is in ChatThread.*
**Nick registry**,
**framed connections** of the bots, **HTTP front end**, **private notes**, the bots other
than mafia, **core library**, crypto, licence, geoip, applications, older trees and PHP
pages: *not modelled, see section 6.*

The hazards, each at its line with the properties that watch it, are in
`PROJECT.json`.

## 2. Modules

| module | models | kind |
|---|---|---|
| `UserState` | the room part of class `user_state`: pure operators | operators |
| `ChannelDirectory` | what callers of `global_state` rely on | abstract specification |
| `GlobalState` | class `__global_state` with its cache; implements `ChannelDirectory` | component |
| `ChatThread` | queue, chat thread, and the presence calls of the network threads | composition |
| `ContactLists` | the list of who is in a room, as each client in it has it | component |
| `RoomMessages` | log, pages, notices, announcements, backup, with the front end that feeds them | composition |
| `IrcSessions` | IRC sessions and `local_users`, with handlers, selector, main thread, chat thread | composition |
| `IgnoreLists` | `db_map` and `updates` with the lists they carry, from the click to the database | composition |
| `BytePipes` | what callers of `write_sender_data` rely on | abstract specification |
| `TcpSender` | the sender thread, sockets, descriptors, writers; implements `BytePipes` | component |
| `TcpServer` | listeners, handlers, `conn_list`, counters | component |
| `DialogServer` | selector, dialog handlers, line extraction | component |
| `Mafia` | a game of the mafia bot, with the room that plays it | component |
| `MC_…` | instances for TLC | model checking |
| `…_proofs` | theorems about the module they are named after | proofs |

The modules meet at these seams. `ChatThread` uses the abstraction of `GlobalState`:
`global[u]` is the directory without the cache, which the refinement justifies.
`RoomMessages` takes from `ChatThread` that a room's connections are its users'
(`ConnectionsInRooms`) and keeps of presence only joins, replays and leaves; what it
writes to a page goes through a pipe, which is what `TcpSender` implements.
`IrcSessions` runs the commands `DialogServer` hands to its handlers, with `on_delete`
called at most once per connection (`DeletedOnce`), and its `kicked` and ended sessions
are the events of `ChatThread`. `DialogServer` gets its connections from the handlers of
`TcpServer` (`process_tcp` there is `Enqueue` here). `Mafia` is a client of the server: what
it reads are the joins, leaves and messages that `ChatThread` and `RoomMessages` put out.

### State of ChatThread and the code

| variable | code |
|---|---|
| `queue`, `batch` | `__chat_events`; the deque `extract_all` returned |
| `sessions` | `local_users`, as pairs of user and client type |
| `global` | `global_state.user_states[u].__channel_us` |
| `loaded`, `state` | keys of `__users$`; `cstate.__channel_us` |
| `clients` | keys of `local_clients` |
| `usersIn`, `localIn` | `__users_in_channels$`, `__local_users_in_channels$` |
| `orphans` | entries of `localIn` whose `client_instance` is no longer in `local_clients` |
| `joinTime`, `trash` | `join_time`, `trash` |
| `call` | program counter and locals of the call each network thread is in |
| `links` | `irc_sessions`: connection up, or closed but not yet erased |
| `asked`, `flushed`, `voicers` | history: last wish, unloaded while in a room, changed the voice of another |

The map from a room to the set of client types never keeps an empty set (both
operations that shrink a set erase the room), so it is a set of pairs. A user who is
not loaded has `state[u] = {}`.

### Steps

A handler of the chat thread runs to its end without waiting for another thread and
touches shared data only in atomic calls, of which the network threads can observe the
`global_state` write and the pushes; it is one action. A call of a network thread is
cut at every access to the queue or to `global_state`:

| call | actions |
|---|---|
| browser login (`create_reg_user`) | `LogInWww` (flush pushed), `LogInReturns` (`insert$`) |
| IRC login | `LogInIrc`, `LogInReturns`, `LogInSetsNick` |
| chat page (`url_chat_messages2`) | `EnterReads`, `EnterStores`, `EnterJoins`, `EnterAsksPage` |
| leave (`us_PART_CHANNEL` from exit, timeout, IRC PART, closed IRC session, killed session) | `LeaveWww`, `IrcPart`, `IrcDisconnect`, `KilledLeaves`, then `PartReturns` |
| idle browser session | `Inactive`, `InactiveLeaves`, `PartReturns` |
| IRC JOIN, kick, status/nick/mode, change of voice | `IrcJoin`, `AdminKick`, `SendCommand`, `ChangeVoice` |

The loop of the chat thread is `ExtractAll`, one `Handle…` per event, `BatchDone`,
then the tail: `CleanLocalClients` and `EmptyTrash` (timed) and `UpdateContactLists` or
`SkipContactLists`. Time is abstracted: a timed branch may happen whenever its other
conditions hold. Contact lists, messages, nicks, statuses and levels are left out: no
branch that moves a user depends on them, except the refusals before an event is
pushed, after which nothing happens.

### The other modules and the code

| module | variables | steps |
|---|---|---|
| `RoomMessages` | `socket` = `persistent_socket`; `shown[p]` what was written to the page; `global`, `where` the room in `global_state` and in `cstate`; `events`, `batch`; `external`, `copy`; `log` = `_$messages`; `hello` the announcement queues; `backup`, `packed` = `backup_messages`, `messages_to_backup` | the front end's requests cut where they push or store (`OpenPage`, `PageRequests`, `PageTakesOver`, `SendNotice`, `HandOver`); the round of the chat thread: `CopyNotices`, `ClearNotices`, `ExtractEvents`, one `Handle…` per event, `FinishRound` |
| `ContactLists` | `objects` every `chat_stuff_user`, `loaded` = `__users$`; `conn`, `list` = `local_clients` with `usr` and `visible_users`; `listens` = `__local_users_in_channels$`; `pending` = `update_contact_list_data`; `told` what the client shows | one `Handle…` per event and one `Refresh`, of one room; `replays`, `owes` are the events the chat thread and the switches push; `echoes[u]` counts the updates of a nick, a status or a mode that the updater has still to bring back (`EchoNick`, `EchoStatus`, `EchoMode`) or to apply to the profile (`SaveMode`) |
| `IrcSessions` | `made`, `logins` the objects; `sessions`, `key`, `entry` the containers that name them (`irc_sessions`, the connection's S_id, `local_users`); `line` the connection | a command is cut at each lock it takes: `Take`, `SetKey`, `Run…`, `CheckEntered`, `DisconnectOther`, `LogIn`, `InsertUser`; `erase` of a session is `Erase`, `Forget`, `Close` |
| `IgnoreLists` | `db`; `rows` the objects, `cache` the `db_map`; `copy` the chat thread's; `queue`, `batch` of updates; `events` | `find_by_id_create` is `Find`, `Load`, `Insert`; an update is `Extract`, `Tell`, `Look`, `Apply`, `Write` or `Fail` |
| `TcpSender` | `sock[s]` = `m__sock`; `kernel[f]` whose connection a descriptor is; `sendBuf`; `events`, `batch`; `ccc`; `todo` the results of `poll` | `write_data` is `WriteAppends`, `WritePushes`; an accept is `TakeFd`, `Announce`, `MakeObject`; a round of the sender is extract, handle each event, `Poll`, one step per descriptor |
| `TcpServer` | `connList`, `count`, `busy`; `listener`, `handler` program counters; `seen` the values a listener has read | a listener: `Accept`, `ReadCount`, `ReadBusy`, `Decide`, `CheckLimit`, `CreateHandler`, `CountHandler`; a handler: `Extract`, `MarkBusy`, `Finish` |
| `DialogServer` | `accepteds`, `ccc`, `readable` (`readable_socks`); `inbox` what the kernel holds, `rdBuf`; `recv0` the empty reads | the selector: take, insert, clean, poll, then per descriptor delete, read, queue; a handler: `TakeReadable`, `ExtractCommand`, `CommandReturns` or `CommandThrows` |
| `Mafia` | one record `game`: `role`, `marked` = `marked_for_delete`, `left`, `voice`, `order` and `kill` = `order`, `order_type`, `doced`, `valed`, `main` = `main_maf`, `votes1`, `votes2`; `flags` the set of global booleans that are true; `young` compares `day_time` with `DAY_TIME` | an operator on games per function (`DoNight`, `ProcessNight`, `EndVote1`, `Lynch`, …); an action per kind of message and per timeout of `process_game` |

Data is abstracted to what the properties tell apart: a message is a number with its
room, an IRC command is a credential or another command, an ignore list is a set, bytes
to send are numbered writes, bytes to read are text or the end of a line.

Operators that are called "faulty" in a comment are plausible bugs used to show that
the properties can fail; no specification uses them.

## 3. Runs

| run | instance | shows |
|---|---|---|
| `global_state` | 2 users, 2 rooms | `CacheCoherent`; `GlobalState` implements `ChannelDirectory` |
| `chat_thread` | 1 user, 2 rooms, 2 threads, 3 calls | safety and liveness of presence, below |
| `chat_thread_voice` | 2 users, one of them an administrator, 1 room, 1 thread, 4 calls | finding: `CopyIsOwn` is violated |
| `contact_lists` | a browser and an IRC client, 2 nicks, 2 events and their updates, from an empty room, a filling and a full one | `ListsExact` |
| `room_messages` | 2 users, 2 rooms, 2 pages, 3 inputs; log of 1 to 2, backlog 0 | `NothingMissed`, `MessagesKept` |
| `irc_sessions` | 2 connections of 1 user, 1 handler, a command each | `LoginKept`, `DeadGo` |
| `ignore_lists` | 1 list, 1 possible entry, 2 handlers, 2 clicks, 1 login, 1 reload, 1 failure | `CacheCurrent`, `ChatCurrent`, `UpdatesDone` |
| `tcp_sender` | 2 sockets, 2 descriptors, 2 writers, 2 writes each | `NoStuckData`, `TcpSender` implements `BytePipes`, `DataIsSent` |
| `tcp_server` | 3 connections, 2 listeners, limit of 1 | `LimitKept`, `QueueHasHandler`, `EveryoneServed` |
| `dialog_server` | 2 sockets on 1 descriptor, 2 handlers | `OwnBytesOnly`, `DeletedOnce`, `NoLineForgotten`, `LinesProcessed`, `DeadForgotten` |
| `dialog_server_lost` | as above | finding: `AcceptedIsRead` is violated |
| `mafia` | games of a MAF and his heir, a KAT and a MIR; of a MAF, MAN, KAT and VAL; of a MAF, DOC and MIR or BOM | `TimerPending`, `DaySound`, `OrdersCurrent`, `DeathsExplained`, `DaysEnd` |

A passing run also checks the `TypeOK` of its module, but for `GlobalState`, `ChatThread`,
`TcpSender` and `TcpServer`, of which it is proved.

Properties of `chat_thread`:

* `ConnectionsInRooms`: no room sends to a connection of a user who is not in it with
  that client. `ConnectionsInductive` is why.
* `IndexExact`: `__users_in_channels$` lists a user in exactly his rooms.
* `StatisticsExact`: the statistics follow presence, so emptying the trash hours later
  unloads nobody who came back, and whoever is in a room has a join time.
* `JoinNotLost`, `LeaveHonoured`: once the events are handled, the last wish counts.
* `GlobalNeverAhead`: once everything is at rest, `global_state` shows nobody in a room
  he is not in; not of an administrator who has changed the voice of somebody else
  (`CopyIsOwn` is without the exception).
* `EventsDrain`, `JoinSettles`: although joins re-post themselves, the queue empties, and
  a join has an end.

Properties of the others, with the exceptions they make because the code does:

* `NothingMissed`: a page that got its content shows an unbroken last part of what was
  said in its room: all that was said since and at most the backlog before. Not for a page
  whose content went to the page before it (the request is queued before
  `persistent_socket` is set).
* `MessagesKept`: the log is a last part of what was said, in order and without
  repetition; a notice that was handed over is in the log, on its way, or was cut with
  its old end, unless it was handed over between the copy and the clear of
  `external_$messages`; each of the two files has every message once and in order but for
  batches whose writing failed.
* `ListsExact`: when nothing is noted, what a client shows is exactly who is in the room and
  visible to him, under the present nicks. The exceptions are the ways the code has of
  getting it wrong: a login or a kick replaces a user's object while a connection, a list or
  a note still has the old one (a mode set afterwards has no effect, a page shows the old
  nick); a nick changes in the round in which its user leaves or hides (an IRC client keeps
  the old nick, a browser shows a hidden user again), or changes there and back around a
  page; a replayed join takes a user back into the room with the list of his first visit; an
  update of a nick, a status or a mode comes back through the updater, behind later changes,
  and is set again without telling anybody (`SetAgain`): after A, B, A a late B makes the user B
  while every client shows A. So `Certain` leaves out a user whose nick or status an echo
  has *changed*, until he is noted again (`unheard`), and a client whose mode an echo has
  changed, until his list is compared again (`outdated`). Echoes of what is so anyway are
  not excepted.
* `LoginKept`: whoever has logged in once, and was not kicked or marked, has his entry in
  `local_users` as long as his session lasts, whatever the cleaning, the selector and other
  sessions do. For a *second* login of a user it does not hold: `insert$` keeps the old
  entry, and the end of the older session removes the key and leaves the rooms.
* `DeadGo`: dead sessions and entries go, also those made by a handler that was late.
* `CacheCurrent`, `ChatCurrent`: when no update of a list is under way, the cached row and
  the chat thread's copy are the database's. Not for a row that was loaded or replaced
  while the updater stood between its look and its query, or whose query failed (`torn`);
  not for a copy that was taken in the middle of an update (outside `exact`).
* `UpdatesDone`: the updater gets on although queries throw.
* `NoStuckData`: an open socket with unsent data has an entry in the sender's map, an
  event, or a writer about to push one. Only for accepted sockets (`Dialed = {}`): a
  dialed one is used thirty lines before its descriptor is announced, and the announcement
  makes the sender forget it until the next write. `ImplementsPipes` is proved for both.
* `DataIsSent`: what is written is sent unless the connection closes.
* `LimitKept`: the limit on handlers is exceeded by fewer than there are listeners.
* `QueueHasHandler`, `EveryoneServed`: unless a thread could not be created.
* `OwnBytesOnly`, `DeletedOnce`: a reused descriptor mixes up no clients, and ends no
  session twice. `NoLineForgotten`, `LinesProcessed`: but for lines behind a command that
  throws or an empty line, which wait until the client sends more.
* `TimerPending`: a running game waits for exactly one timeout; with none it would stand
  still until somebody halts it.
* `DaySound`: by day the game is not decided, the accused is alive, and living mafiosi have
  one living head.
* `OrdersCurrent`: the orders of a night are of the living about the living, the marks on
  their targets are those of the present orders, and none is missing in the morning. Not
  for two DOCs or two VALs, who take back each other's marks.
* `DeathsExplained`: at dawn exactly those go whom an order killed, who gave none or who were
  away. At other times exactly those who were away when a day ends, and with the second vote
  the accused, exactly when more than half of the other living players said yes; it ends the
  game only then. This is said of votes in which only living players have voted. Where a player
  who is out has voted too, which the code counts, only that nobody else goes.
* `DaysEnd`: an acquittal begins the votes anew only while the day is young.

### Why the bounds are enough

*ChatThread*. One user: no event of one user reads or changes the rooms, connections or
calls of another, and the queue only delays; a second user repeats the first (the theorems
hold for any number). Two rooms: one to leave and one to enter, and the order of ids that
`normalize_user_channels` follows. Two threads: the race is between the two halves of one
call and another call. `MaxCalls` = 3 bounds the calls the network threads begin: a login,
a join, and one that interferes with its replay; scratch runs with four calls, and with one
thread and five, passed as well. A user has at most one IRC connection that is up and one
that is lost (guard of `LogInIrc`).

*RoomMessages*. Two users, so that a message has an author and a hearer; two rooms, so that
a page can be left by moving; two pages, so that one can take over from another, or one
user can have none. Three inputs reach each pair of a message, a notice, a leave or a
failed write behind a page. The log is cut at three messages instead of 15000 and a page
gets one old message instead of 101 (`LK_chat_channel_get_n_messages` stops behind the
n-th), so trimming and the backlog are reached with them.

*ContactLists*. A browser and an IRC client are the two ways of applying a difference; each
can see and be hidden from the other. One room: lists of different rooms share nothing but
objects and notes by room. Two nicks make a change and its way back. Two events, with their
replays, pages and echoes in every order, from the empty room, from the room just after both
have joined (`Arriving`: both replays, all notes and the page still to come), and from the room
with both in it (`Settled`): behind two joins this is what four events from the empty room do.
A nick there and back with the echo of the first behind the second is among them. Scratch
runs with three events from the empty room (4 million states) passed too.
Random behaviours of eight events (some 4 x 10^7 states) found nothing more.

*IrcSessions*. A relogin needs two connections of one user; each client sends one
credential, which with NICK, PASS and USER in one is the whole login. One handler per
connection at a time: with two on the first commands of a connection the code makes a
session too many, which ends with the login timeout.

*IgnoreLists*. One list with one possible entry: rows do not touch each other, and
adding and removing one entry are the two updates that do not commute. Two handlers and
two clicks race with each other, one login, one reload and one failure with them.

*TcpSender*. A descriptor has one owner and at most two sockets matter for it, the one before
and the one after; two writers, so that an append falls between a send and its event; a
write of more than one unit can be sent in part.

*TcpServer*. Three connections, two listeners and a limit of one: the limit can be passed,
and a connection can wait behind one served and one taken. *DialogServer*. Two sockets that
share the only descriptor, two handlers for one socket; a line, or two characters.

*Mafia*. The roles are dealt for twelve players, who have every role among them and
three mafiosi; three or four are left, so that one death may or may not decide the game. The casts have a head with an heir, three kinds of killers with a
VAL among their targets, and a DOC with and without another order to wait for. One player
is away at a time. Those who were gone before the first night stay away.

### Fairness

Each `FairSpec` states what the scheduling of the code gives, and nothing for clients:

* *ChatThread*: weak fairness of `ChatLoop`: `chat_processor::handler` is `while(1)` and
  the handlers wait for nothing but short mutexes; an exception ends one event, not the
  batch (`chat_thread.cpp:252-262`), and a round ends with a sleep of 11 ms (line 452).
  Nothing is assumed of the network threads nor of `Housekeeping`.
* *TcpSender*: the sender's loop and the push behind an append are weakly fair. A peer that
  keeps reading is found writable, and its data taken, again and again (strong fairness
  per socket): what "the peer reads" means.
* *TcpServer*: listeners and handlers run; `process_tcp` returns because its reads have
  time limits.
* *DialogServer*: selector and handlers run; the cleaning, done when `rand()` says so, is
  strongly fair.
* *IrcSessions*: handlers, selector and the janitor's steps run; the main thread comes to
  each dead session and entry again and again (strong fairness).
* *IgnoreLists*: handlers, updater and chat thread run. Purge, unload and logins need not.
* *Mafia*: time passes and `process_game` runs whenever there is nothing to read, so a timeout
  the game waits for comes in the end (`Timeout`), and a day grows old (`DayGrowsOld`).
* *RoomMessages* has safety properties only; its behaviours stop when the inputs are used up,
  as do those of the modules whose configuration says `CHECK_DEADLOCK FALSE`.

### Findings

* **An administrator in the rooms of another** (`chat_thread_voice`). `on_CHVOICE` stores the
  state of the user whose voice it changes under the id of the administrator
  (`user.cpp:2151`, 2156, 2164, 2169). Until an event of his own publishes his state again,
  `global_state` shows him in the rooms of the other, and `url_chat_sendmessage` posts
  what he says there instead of in his own room.
* **A connection that is never read** (`dialog_server_lost`). When another thread closes a
  socket and the next connection gets its descriptor before the selector notices,
  `ccc.insert` leaves the old entry in place and the new socket is in no list
  (`tcp_dialog_server.cpp:158`). Its last reference goes with the round, and `~c_socket`
  closes it; in the model this is one of the things that may close a socket (`Disconnect`).

More effects were met and are stated as exceptions in the properties rather than
as findings, since no text of the repository says otherwise. A login unloads the user
wherever he is, so a user in a room by IRC who logs in with a browser keeps his
entries in the rooms while his state is empty (`flushed` in `ConnectionsInRooms`,
`IndexExact`). And a leave handled between a join and its replay is undone by the
replay (`AskedMaybe`: `LeaveHonoured` speaks of leaves with no join in flight). Likewise a
kick between the two (`KICK_USER` before the event of `chat_thread.cpp:922`): the replay puts
the kicked user back into the room, in `__users_in_channels$` and `global_state`, with no
connection, since `normalize_user_channels` returns just before its `FATAL` error
(`user.cpp:2449`). A
page request behind a leave or a kick is dropped after the header of the page was sent
(`user.cpp:1088`). The
exceptions of the other modules are with their properties above. In `TcpServer` a
queued connection may wait for another to be served although nothing limits the handlers: a
handler that has extracted a connection and not yet marked itself counts as free
(`tcp_server.cpp:302`). In `RoomMessages` it also shows that a message queued for a room is said there although its author has moved on:
`on_SEND_MESSAGE` only asks whether he is in any room.

The game of `Mafia` has surprises too. A last vote that is a draw begins the night, and the
same message then is that player's order for it (`command.cpp:146-147`). "!!night" is
announced as a vote for nobody (`MAFIA.MESSAGES:173`), but `process_day` returns where
nobody has that number. `do_vote_yes` and `do_vote_no` (`day.cpp:426`) count any player of the
game: one who was removed because he was away keeps his voice in the room
(`remove_left_users` sends no MODE) and can vote when he is back, and such a vote may lynch a
player whom the living alone would not have condemned. By the rules the dead become mere
observers and nobody who does not play may interfere by voting
(`php/c2/help/mafia.php.php:74`, 152); `DeathsExplained` makes an exception for these votes. A night may begin without a head of the mafia;
nobody then misses his order. Nobody but VALs alive is a victory of the mafia.

## 4. Proofs

Proved with TLAPS for every value of the constants. The assumptions are those the modules
name (`ChannelsAssumption`, `AdminsAssumption`, `MaxCallsAssumption`, `UnfilledAssumption`,
`SenderAssumption`, `ServerAssumption`, `SessionsAssumption`, `DialogAssumption`,
`ListsAssumption`, `MessagesAssumption`, `CastsAssumption`): markers such as "no socket" are
none of the values they stand for, bounds are numbers, listeners, handlers and the players of a
game are finite sets; the backlog of a page is less than what a cut of the log leaves (100,
`user.cpp:1193`, and 10000, `chat_thread.cpp:417`). One theorem has an assumption more, `DeathsAlwaysExplained`: the deal has at most one
DOC and one VAL, which is so for fewer than thirty players (`assign_roles`).

| theorem | module | argument |
|---|---|---|
| `SharedTyped`, `TypeCorrect` | `Presence_proofs` | one step per action; orphans stay entries of `localIn` |
| `CacheAlwaysCoherent` | `Presence_proofs` | inductive with `SharedTypeOK` |
| `DirectoryImplemented` | `Presence_proofs` | each action is an `Update`, a `Query` or a stutter; a hit needs `CacheCoherent` |
| `AlwaysStatisticsExact` | `Presence_proofs` | lemma `PresenceStep`: a step books the change of a user's rooms, or empties them |
| `AlwaysSingleWwwChannel` | `Presence_proofs` | every new value of `state`, `global` comes from an operation that keeps it |
| `ConnectionsAlwaysInRooms` | `Presence_proofs` | below |
| `IndexAlwaysExact`, `LeavesHonoured`, `JoinsNotLost`, `GlobalIsNeverAhead` | `Presence_proofs` | below |
| `TypeCorrect`, `PipesImplemented`, `NoDataStuck` | `Tcp_proofs` | below |
| `ServerTyped`, `AlwaysCounted`, `LimitAlwaysKept`, `QueueAlwaysHasHandler` | `Tcp_proofs` | below |
| `SessionsTyped`, `LoginsKeepEntries` | `IrcSessions_proofs` | below |
| `TypeCorrect`, `OwnBytes`, `SessionsEndOnce`, `LinesNotForgotten` | `DialogServer_proofs` | below |
| `TypeCorrect`, `CacheIsCurrent`, `ChatIsCurrent` | `IgnoreLists_proofs` | below |
| `ListsTyped`, `ListsAlwaysExact` | `ContactLists_proofs` | below |
| `MessagesTyped`, `NothingEverMissed`, `MessagesAlwaysKept` | `RoomMessages_proofs` | below |
| `TypeCorrect`, `TimerAlwaysPending`, `DaysSound`, `OrdersAlwaysCurrent`, `DeathsAlwaysExplained` | `Mafia_proofs` | below |

**Connections.** `ConnectionsInRooms` is not inductive: `normalize_user_channels` stops at
the first room whose connection it cannot find, so after it some entries may be stale
unless the state before was good. The invariant that carries the proof,
`ConnectionsInductive`, says that a client's connections are in all his rooms or in none
(`AllOrNone`), and that a replay waiting in the queue or the batch which will find no
connection finds no room holding one (`ReplayConnected`). The second half is kept because
connections are cleaned only when the batch is done (`BatchTaken`) and the queue is empty,
so no replay is waiting then.

**Where a user ends up.** The three properties of `ChatThread` that speak of the moment when all
events are handled hold for a reason that lies in the events still to come, `batch \o queue`.
`LeaveInductive`: for a client who asked to be out no join or replay is waiting, and he is
out or a leave or kick of his is. `JoinInductive`: for one who asked to be in a room, the
join is waiting with nothing behind it that ends it, or its replay is and he has his
connection, or he is there (`JoinUnderWay`). `GlobalInductive`: what `global_state` has
too much a join of that user will set right, one that a thread is about to push or one
that waits. Each step of the proof says what pushing, taking and handling an event does to
such a sequence. `IndexExact` rests on `IndexComplete`, which says the same in every state,
and on `UnloadedAbsent`: whoever is not loaded has no rooms, so a login cannot find some.

**Pipes.** A send is right when the descriptor it uses is the socket's own. `PipesInv`: an
open socket has the descriptor the kernel gave its connection (`DescriptorsAgree`), an entry
of `ccc` is under the descriptor of its socket or the socket is closed (`EntriesAgree`), only
sockets that exist are used (`UsedExist`). A step of the sender is then a hand-over of the
pipe or a stutter. `NoDataStuck` needs more (`StuckInv`): a `REMOVE_SOCK` stands in the
queue before every `ADD_DATA` of the socket it makes room for, and stands there whenever
there is something to clear (`RemovalsFirst`); without it `ccc.insert` would drop the new
owner.

**Pool.** `PoolInv`: the counters count the handlers up to the listeners that are about to
count (`HandlersCounted`); listeners past the check of the limit are bounded by what the counter
was when the first of them read it (`LimitInductive`); a listener that has read the
counters and found nobody knows that there was nobody (`EmptySeen`). The limit then is
exceeded by the other listeners at most, and a listener leaves a queue alone only when
there is a handler.

**Logins.** `LoginKept` is not inductive: what takes an entry away was decided steps before.
`IInv` says where each thread stands: every login belongs to one session; a thread that
forgets a session has already taken it out of `irc_sessions`; a janitor about to remove
a key has seen some login of that user marked, so a sole login is the marked one; and an
entry names a login of the user it is under.

**Dialogs.** `ConnInv`: a socket holds a descriptor only when the kernel has given it out for
that socket's connection (`Owned`). So what `recv` returns is the client's own
(`BytesInductive`: inbox and buffer of a socket hold nothing else), although the selector asks
`poll` about a descriptor that has changed hands. `OncePlaced`: a socket is on its way
to the selector, in one slot of `ccc`, or given up, never in two of these places, and
`on_delete` is called on the way to the last.
`NoLineForgotten` is about what a handler saw when it looked: a buffer that has a line is
awaited (`Awaited`) by the queue, the selector or a handler, and a handler that leaves has seen
the whole buffer. That a buffer with an end of line has a first one takes the least-number
principle (`LeastNumber`), which the library's theorem on well-founded orders of finite sets
gives without an induction rule.

**Ignore lists.** `OneOwner`: no two users share a row object, in the cache, in the hand of a
thread or of the updater. `FoundCached`: between its look and its write the updater has the
row that is cached. With these `CacheInductive` compares row and database entry by entry: they
agree unless an update of that entry waits, or is the updater's next, whose write will make
them agree (`Agrees`). `ChatInductive` does so for the chat thread's copy: it has what the
database will have once the updater is through with its command (`DbAfter`), or the last
event that the chat thread has not taken says so (`Follows`).

**The game.** `Good` is the inductive invariant of a game: one phase, and by day one vote
(`Phase`); no two living heads, and every mafioso has a number (`Heads`); orders of the night
that still stand, with the marks they put (`Nightly`); a day that is not decided (`Daily`); the
accused alive. The flag of the second vote may stay set for the night after it. A head is
found where a mafioso lives since a set of numbers has a least one. `DeathsExplained`, an
action property, then goes over the steps: only dawn, the end of a vote and the fall of
the night mark anybody, and at dawn the marks are the targets of the orders. Of the
second vote it says who goes exactly. `end_vote2` first looks for an acquittal, by numbers of its
own (fewer than two fifths, more than half against, a tie): where only the living voted, a
majority of them rules out all three (`Count2`). That needs that the accused has no answer
of his own among those counted, and that none is left over from an earlier vote: `Polled`,
an invariant beside `Good` (`AlwaysPolled`).

**Contact lists.** `ListsExact` speaks of the moment when nothing is noted; `ListsInv` says the
same of every pair of a listener and a user at every moment, in three parts that meet in the
list the server keeps (`visible_users`). What the client shows is what the list says
(`ToldPair`), since `__update_contact_list_all` changes the list and tells the client in one
step. The list's entry has the user's present nick (`EntryPair`), and has him exactly
when he is there and can be seen (`VisiblePair`), unless a note is waiting or the case is one
that `Certain` excepts; a client whose mode has changed is `Behind` until his list is compared,
whether a switch changed it (`owes`) or an echo (`outdated`). An echo disturbs only the two
pairs that it excepts: it changes one user's nick or status, and he becomes `unheard`, or his
own mode, and he becomes `outdated`. With
`ConnOwn`, `NotListed` and `ListenerHere` (whose objects connections and lists hold) each handler
is a case: it changes who is there and notes him, or it changes neither.

**Messages.** Log, pages and files are all parts of one sequence, what was said: a page shows an
end of what was said in its room, the log is an end of it with notices in between, each
file with what waits for it is what was said without what it missed. So the proof is about
selecting from sequences (`Select`) and about ends of them (`IsEndOf`): selecting goes through
concatenation, two selections are one of the intersection, an end's selection is an end of
the selection. The provers have no induction rule, but a *set* of sequences that has the empty one
and is closed under `Append` has all (`SequencesByInduction`, from the least number of a set,
`LeastOf`), and that is enough. `Select` is therefore a recursive function and not
`SelectSeq`. `MessagesInv` adds what the three properties need of each other:
`SocketsKnown` and `FollowedPages` (a socket belongs to one user, whose page has taken over;
a page that is followed is somebody's), `InTurn` (the n-th message has the number n, so a
batch that is lost can be told from the rest of a file), `UnwrittenSaid`, and of notices
`NoticesNew` (one that is still to be handed over is nowhere else) and `CopyTaken` (while
the queue is cleared, the copy is what was in the queue but for what is lost; the log
has none of the queue). A page's content comes from the log, so `NothingMissed` needs `LogExact`; the
lower bound on what a page shows needs no assumption on the length of the log.

Only model-checked are the liveness properties (`EventsDrain`, `JoinSettles`, `DataIsSent`,
`EveryoneServed`, `LinesProcessed`, `DeadForgotten`, `DeadGo`, `UpdatesDone`, `DaysEnd`), which
rest on fairness and are out of the prover's reach. Every safety invariant, every action
property and both refinements that the passing runs check are theorems.

## 5. Plan

What was planned is done: the core, the modules around it, and a proof of each safety property.
What could follow, in this order: moderation and nicks as guards that `RoomMessages` and
`ChatThread` share instead of a choice; kicks and IRC users in `RoomMessages`; and the other
updates of `db_map` where two rows are changed by one update, which `IgnoreLists` has not.

## 6. Not modelled

* *Moderation* (modes, topics, klaps) and *nicks*: guards before a message or an event and
  tables beside it; `RoomMessages` has their refusals as a choice. Of a change of voice
  `ChatThread` has what it publishes, not the voices.
* *Framed connections*: used by the bots only; the server side has no user in this tree.
  The dialed socket of `oscar_client` is in `TcpSender`.
* *HTTP front end*: parsing and page output, one thread per request, no shared state
  beyond the calls that are modelled.
* *Private notes, profiles and the other tables*: they go through `db_map` and `updates` as
  the ignore lists do.
* *Roulette, quiz and talking bots*: programs of their own behind the framed protocol.
* Of the *mafia bot*: registration and the offer of roles, scores, phrases and access, the
  answers to questions about the game; PART, which the bot ignores; and the loss of its
  connection in the middle of a handler, after which a game may wait until "!halt".
* *Core library, crypto, licence, geoip*: no protocol, or vendored.
* *`racom/`, `tusa7/`, `chat.tmp/`, applications, PHP*: older copies of the same server, tools
  and pages. Most of the lines of the repository are there, so the share of it that the
  models cover is small, while the protocols between the threads of `tusa9/` are covered as section 2 lists them.
* In `RoomMessages`: IRC users, ignores, kicks, nick changes, private messages, invisible
  users, a message that moves to another room (`__c.move`, `user.cpp:1786`), and the header of
  a page. In `IrcSessions`: browser users, text commands, the
  change of nick. In `TcpSender` and `TcpServer`: the shutdown flags, the Windows branches.
