----------------------------- MODULE ChatThread -----------------------------
(***************************************************************************)
(* Who is in which room.  The network threads (HTTP handlers, IRC sessions, *)
(* the local-user janitor, administrative events) push events on            *)
(* __chat_events; one chat thread (chat_processor::handler) takes them in   *)
(* batches and owns the rooms: the users' states (__users$), the index of   *)
(* users per room (__users_in_channels$), the connections (local_clients)   *)
(* and the connections per room (__local_users_in_channels$).  It publishes *)
(* every state it computes in global_state, which the network threads read  *)
(* and, for a leave, also write themselves after pushing their event.       *)
(*                                                                         *)
(* A handler of the chat thread runs to its end without waiting for another *)
(* thread, so it is one action.  A call of a network thread that touches    *)
(* the queue and global_state is as many actions as it has such accesses.   *)
(***************************************************************************)
EXTENDS UserState, Integers, Sequences, FiniteSets

CONSTANTS
  Threads,    \* the network threads
  Admins,     \* users of level am_admin or above
  MaxCalls    \* bound on the calls the network threads make in a behaviour

ASSUME ChannelsAssumption == Channels \subseteq Nat /\ IsFiniteSet(Channels)
ASSUME AdminsAssumption == Admins \subseteq Users
ASSUME MaxCallsAssumption == MaxCalls \in Nat

VARIABLES
  \* shared between the threads
  queue,        \* __chat_events
  sessions,     \* local_users: the <<user, ct>> pairs that are logged in
  global,       \* global[u]: __channel_us of u in global_state
  \* private to the chat thread
  pc,           \* where the chat thread's loop is: "top", "batch" or "tail"
  batch,        \* the rest of the deque extract_all returned
  loaded,       \* the keys of __users$
  state,        \* state[u]: cstate.__channel_us of u, {} when not loaded
  clients,      \* the keys of local_clients
  usersIn,      \* __users_in_channels$, as <<channel, user>> pairs
  localIn,      \* __local_users_in_channels$, as <<channel, user, ct>>
  orphans,      \* those of localIn whose client_instance left local_clients
  joinTime,     \* the keys of join_time
  trash,        \* the keys of trash
  \* the network threads
  call,         \* call[t]: what thread t still has to do of its call
  links,        \* irc_sessions with a user: <<user, "up">>, or <<user, "lost">>
                \* for one whose socket a later login has closed
  made,         \* how many calls the network threads have begun
  \* history
  asked,        \* asked[u][ct]: the last thing asked for the session
  flushed,      \* users unloaded while in a room and not kicked since
  voicers       \* users who gave or took the voice of another user

shared  == <<queue, sessions, global>>
rooms   == <<loaded, state, clients, usersIn, localIn, orphans, joinTime, trash>>
network == <<call, links, made>>
history == <<asked, flushed, voicers>>
vars    == <<shared, pc, batch, rooms, network, history>>

-----------------------------------------------------------------------------
(* Events *)

(* The commands of do_set_user_state that leave the rooms alone: SET_STATUS, *)
(* SET_NICK and CHANGE_CONTACT_MODE.                                        *)
Commands == {"status", "nick", "mode"}

Join(u, ct, c)        == [type |-> "join", user |-> u, ct |-> ct, chan |-> c]
Rejoin(u, ct, c)      == [type |-> "rejoin", user |-> u, ct |-> ct, chan |-> c]
Part(u, ct, chans)    == [type |-> "part", user |-> u, ct |-> ct, chans |-> chans]
Kick(u)               == [type |-> "kick", user |-> u]
Flush(u)              == [type |-> "flush", user |-> u]
Command(u, cmd)       == [type |-> "command", user |-> u, cmd |-> cmd]
ChatMessages(u, c)    == [type |-> "messages", user |-> u, chan |-> c]
Voice(u, z)           == [type |-> "voice", user |-> u, target |-> z]

Events ==
  {Join(u, ct, c) : u \in Users, ct \in CT, c \in Channels}
  \cup {Rejoin(u, ct, c) : u \in Users, ct \in CT, c \in Channels}
  \cup {Part(u, ct, chans) : u \in Users, ct \in CT, chans \in SUBSET Channels}
  \cup {Kick(u) : u \in Users}
  \cup {Flush(u) : u \in Users}
  \cup {Command(u, cmd) : u \in Users, cmd \in Commands}
  \cup {ChatMessages(u, c) : u \in Users, c \in Channels}
  \cup {Voice(u, z) : u \in Users, z \in Users}

(* What a network thread has left to do of the call it is in. *)
Idle == [op |-> "idle"]
PartGlobal(u, ct, chans, logout) ==
  [op |-> "part", user |-> u, ct |-> ct, chans |-> chans, logout |-> logout]
LogIn(u, ct)          == [op |-> "login", user |-> u, ct |-> ct]
SetNick(u)            == [op |-> "nick", user |-> u]
CleanupChannels(u)    == [op |-> "cleanup", user |-> u]
EnterStore(u, c, us)  == [op |-> "store", user |-> u, chan |-> c, us |-> us]
EnterJoin(u, c)       == [op |-> "join", user |-> u, chan |-> c]
EnterMessages(u, c)   == [op |-> "messages", user |-> u, chan |-> c]

Calls ==
  {Idle}
  \cup {PartGlobal(u, ct, chans, b) :
          u \in Users, ct \in CT, chans \in SUBSET Channels, b \in BOOLEAN}
  \cup {LogIn(u, ct) : u \in Users, ct \in CT}
  \cup {SetNick(u) : u \in Users}
  \cup {CleanupChannels(u) : u \in Users}
  \cup {EnterStore(u, c, us) : u \in Users, c \in Channels, us \in ChannelUs}
  \cup {EnterJoin(u, c) : u \in Users, c \in Channels}
  \cup {EnterMessages(u, c) : u \in Users, c \in Channels}

(* Values of asked. *)
Nothing     == [type |-> "nothing"]
AskedIn(c)  == [type |-> "in", chan |-> c]
AskedOut    == [type |-> "out"]     \* a leave or a kick, no join in flight
AskedMaybe  == [type |-> "maybe"]   \* a leave behind a join, a flush

Asked == {Nothing, AskedOut, AskedMaybe} \cup {AskedIn(c) : c \in Channels}

Init ==
  /\ queue = <<>> /\ batch = <<>> /\ pc = "top"
  /\ sessions = {} /\ clients = {} /\ loaded = {}
  /\ global = [u \in Users |-> {}]
  /\ state = [u \in Users |-> {}]
  /\ usersIn = {} /\ localIn = {} /\ orphans = {}
  /\ joinTime = {} /\ trash = {}
  /\ call = [t \in Threads |-> Idle]
  /\ links = {}
  /\ made = 0
  /\ asked = [u \in Users |-> [ct \in CT |-> Nothing]]
  /\ flushed = {}
  /\ voicers = {}

-----------------------------------------------------------------------------
(* The network threads *)

(* Thread t begins a call; MaxCalls bounds how often. *)
Begin(t) ==
  /\ call[t] = Idle
  /\ made < MaxCalls
  /\ made' = made + 1

(* send_chat_event_push_back and __set_user_state. *)
Push(e) == queue' = Append(queue, e)

(* Remembers what was asked for the sessions of u of the given types. *)
Ask(u, cts, what) ==
  asked' = [asked EXCEPT ![u] = [ct \in CT |-> IF ct \in cts THEN what ELSE @[ct]]]

(* A join of the session is queued, being handled or about to be made.    *)
InFlight(u, ct) ==
  \/ \E i \in DOMAIN (batch \o queue) :
       LET e == (batch \o queue)[i]
       IN  e.type \in {"join", "rejoin"} /\ e.user = u /\ e.ct = ct
  \/ /\ ct = WWW
     /\ \E t \in Threads : call[t].op \in {"store", "join"} /\ call[t].user = u

(* A login unloads the user (flush_user_data), wherever he is, and then    *)
(* enters the session.  create_reg_user is called for a request that finds  *)
(* no browser session; an IRC login closes the socket of the session it     *)
(* finds.  Bound: of a user's IRC connections one is up and one lost.       *)
LogInWww(t, u) ==
  /\ Begin(t)
  /\ <<u, WWW>> \notin sessions
  /\ Push(Flush(u))
  /\ Ask(u, CT, AskedMaybe)
  /\ call' = [call EXCEPT ![t] = LogIn(u, WWW)]
  /\ UNCHANGED <<sessions, global, pc, batch, rooms, links, flushed, voicers>>

LogInIrc(t, u) ==
  /\ Begin(t)
  /\ <<u, "up">> \in links => <<u, IRC>> \in sessions /\ <<u, "lost">> \notin links
  /\ \A s \in Threads : call[s] # LogIn(u, IRC)
  /\ links' = {<<l[1], IF l[1] = u THEN "lost" ELSE l[2]>> : l \in links}
  /\ Push(Flush(u))
  /\ Ask(u, CT, AskedMaybe)
  /\ call' = [call EXCEPT ![t] = LogIn(u, IRC)]
  /\ UNCHANGED <<sessions, global, pc, batch, rooms, flushed, voicers>>

(* insert$; an IRC login then sets its nick.                                *)
LogInReturns(t) ==
  /\ call[t].op = "login"
  /\ LET l == call[t] IN
       /\ sessions' = sessions \cup {<<l.user, l.ct>>}
       /\ links' = IF l.ct = IRC THEN links \cup {<<l.user, "up">>} ELSE links
       /\ call' = [call EXCEPT ![t] = IF l.ct = IRC THEN SetNick(l.user) ELSE Idle]
  /\ UNCHANGED <<queue, global, pc, batch, rooms, made, history>>

LogInSetsNick(t) ==
  /\ call[t].op = "nick"
  /\ Push(Command(call[t].user, "nick"))
  /\ call' = [call EXCEPT ![t] = Idle]
  /\ UNCHANGED <<sessions, global, pc, batch, rooms, links, made, history>>

(* us_PART_CHANNEL, first half: the event; PartReturns is the second half.  *)
AskToPart(t, u, ct, chans, logout) ==
  /\ Push(Part(u, ct, chans))
  /\ call' = [call EXCEPT ![t] = PartGlobal(u, ct, chans, logout)]
  /\ Ask(u, {ct}, IF chans = {} /\ ~InFlight(u, ct) THEN AskedOut ELSE AskedMaybe)

(* url_chat_exit, ext_events::chat_exit, the offline timeout of             *)
(* www_local_user_check_for_channel_cleanup: leave with all browser tabs.   *)
LeaveWww(t, u) ==
  /\ Begin(t)
  /\ AskToPart(t, u, WWW, {}, FALSE)
  /\ UNCHANGED <<sessions, global, pc, batch, rooms, links, flushed, voicers>>

(* killsession (user_destroy): the janitor finds the session erased, leaves *)
(* the rooms global_state knows of and removes the session (__clean$).      *)
KilledLeaves(t, u) ==
  /\ Begin(t)
  /\ <<u, WWW>> \in sessions
  /\ global[u] # {}
  /\ AskToPart(t, u, WWW, {}, TRUE)
  /\ UNCHANGED <<sessions, global, pc, batch, rooms, links, flushed, voicers>>

(* irc_cmd_PART: only a user who is in some room by IRC. *)
IrcPart(t, u, c) ==
  /\ Begin(t)
  /\ <<u, "up">> \in links
  /\ GetChannel(global[u], IRC) # {}
  /\ AskToPart(t, u, IRC, {c}, FALSE)
  /\ UNCHANGED <<sessions, global, pc, batch, rooms, links, flushed, voicers>>

(* __irc_sessions::erase: an IRC session whose socket is closed leaves and  *)
(* logs out, also one that a later login of the same user has replaced.     *)
IrcDisconnect(t, l) ==
  /\ Begin(t)
  /\ l \in links
  /\ links' = links \ {l}
  /\ AskToPart(t, l[1], IRC, {}, TRUE)
  /\ UNCHANGED <<sessions, global, pc, batch, rooms, flushed, voicers>>

(* us_PART_CHANNEL, second half: the shared copy is changed after the event *)
(* is queued, maybe after it was handled.                                   *)
PartReturns(t) ==
  /\ call[t].op = "part"
  /\ LET p == call[t] IN
       /\ global' = [global EXCEPT ![p.user] = PartChannels(@, p.chans, p.ct)]
       /\ sessions' = IF p.logout THEN sessions \ {<<p.user, p.ct>>} ELSE sessions
  /\ call' = [call EXCEPT ![t] = Idle]
  /\ UNCHANGED <<queue, pc, batch, rooms, links, made, history>>

(* www_local_user_handle_max_inactive_time drops a browser session ...      *)
Inactive(t, u) ==
  /\ Begin(t)
  /\ <<u, WWW>> \in sessions
  /\ sessions' = sessions \ {<<u, WWW>>}
  /\ call' = [call EXCEPT ![t] = CleanupChannels(u)]
  /\ UNCHANGED <<queue, global, pc, batch, rooms, links, history>>

(* ... and www_local_user_check_for_channel_cleanup leaves the rooms of the *)
(* erased session, if global_state knows of any.                            *)
InactiveLeaves(t) ==
  /\ call[t].op = "cleanup"
  /\ LET u == call[t].user IN
       IF global[u] # {}
       THEN /\ AskToPart(t, u, WWW, {}, FALSE)
            /\ UNCHANGED <<flushed, voicers>>
       ELSE /\ call' = [call EXCEPT ![t] = Idle]
            /\ UNCHANGED <<queue, history>>
  /\ UNCHANGED <<sessions, global, pc, batch, rooms, links, made>>

(* url_chat_messages2, a browser opens the chat: it reads the shared state, *)
EnterReads(t, u, c) ==
  /\ Begin(t)
  /\ <<u, WWW>> \in sessions
  /\ call' = [call EXCEPT ![t] = EnterStore(u, c, global[u])]
  /\ UNCHANGED <<shared, pc, batch, rooms, links, history>>

(* stores its copy back with the browser's room replaced,                   *)
EnterStores(t) ==
  /\ call[t].op = "store"
  /\ LET e == call[t] IN
       /\ global' = [global EXCEPT ![e.user] = WwwChannelReplace(e.us, e.chan)]
       /\ call' = [call EXCEPT ![t] = EnterJoin(e.user, e.chan)]
  /\ UNCHANGED <<queue, sessions, pc, batch, rooms, links, made, history>>

(* pushes the join                                                          *)
EnterJoins(t) ==
  /\ call[t].op = "join"
  /\ LET e == call[t] IN
       /\ Push(Join(e.user, WWW, e.chan))
       /\ Ask(e.user, {WWW}, AskedIn(e.chan))
       /\ call' = [call EXCEPT ![t] = EnterMessages(e.user, e.chan)]
  /\ UNCHANGED <<sessions, global, pc, batch, rooms, links, made, flushed, voicers>>

(* and the request for the page.                                            *)
EnterAsksPage(t) ==
  /\ call[t].op = "messages"
  /\ LET e == call[t] IN
       /\ Push(ChatMessages(e.user, e.chan))
  /\ call' = [call EXCEPT ![t] = Idle]
  /\ UNCHANGED <<sessions, global, pc, batch, rooms, links, made, history>>

(* irc_cmd_JOIN pushes the join and touches no shared state. *)
IrcJoin(t, u, c) ==
  /\ Begin(t)
  /\ <<u, "up">> \in links
  /\ Push(Join(u, IRC, c))
  /\ Ask(u, {IRC}, AskedIn(c))
  /\ UNCHANGED <<sessions, global, pc, batch, rooms, call, links, flushed, voicers>>

(* kick_user: an administrator, or the flood control of the chat thread.    *)
AdminKick(t, u) ==
  /\ Begin(t)
  /\ Push(Kick(u))
  /\ asked' = [asked EXCEPT ![u] =
                 [ct \in CT |-> IF InFlight(u, ct) THEN AskedMaybe ELSE AskedOut]]
  /\ UNCHANGED <<sessions, global, pc, batch, rooms, call, links, flushed, voicers>>

(* us_SET_STATUS (the browser, the janitor for any session), us_SET_NICK    *)
(* and the switches of the contact list (the browser).  What they store in  *)
(* global_state besides the channels is left out.                           *)
SendCommand(t, u, cmd) ==
  /\ Begin(t)
  /\ \/ <<u, WWW>> \in sessions
     \/ cmd = "status" /\ <<u, IRC>> \in sessions
     \/ cmd = "nick" /\ <<u, "up">> \in links
  /\ Push(Command(u, cmd))
  /\ UNCHANGED <<sessions, global, pc, batch, rooms, call, links, history>>

(* do_change_voice: from a browser in a room (url_change_voice) or the MODE  *)
(* of an IRC session.                                                       *)
ChangeVoice(t, u, z) ==
  /\ Begin(t)
  /\ \/ <<u, WWW>> \in sessions /\ GetChannel(global[u], WWW) # {}
     \/ <<u, "up">> \in links
  /\ Push(Voice(u, z))
  /\ UNCHANGED <<sessions, global, pc, batch, rooms, call, links, history>>

-----------------------------------------------------------------------------
(* The chat thread *)

(* handle_chat_events takes the first event of the batch, of the given type. *)
Take(type) ==
  /\ pc = "batch" /\ batch # <<>>
  /\ Head(batch).type = type
  /\ batch' = Tail(batch)
  /\ UNCHANGED <<pc, network>>

(* Faulty handle_stat_t_count: a user who comes back stays in trash; a user *)
(* is timed only from his second visit on.                                  *)
StatForgetsTrash(u, us) ==
  IF us # {}
  THEN joinTime' = joinTime \cup {u} /\ UNCHANGED trash
  ELSE joinTime' = joinTime \ {u} /\ trash' = trash \cup {u}

StatSkipsFirstVisit(u, us) ==
  IF us # {}
  THEN /\ joinTime' = IF u \in trash \cup joinTime THEN joinTime \cup {u} ELSE joinTime
       /\ trash' = trash \ {u}
  ELSE joinTime' = joinTime \ {u} /\ trash' = trash \cup {u}

(* handle_stat_t_count: who is in the chat and since when, and who may be   *)
(* unloaded.                                                                *)
HandleStatTCount(u, us) ==
  IF us # {}
  THEN joinTime' = joinTime \cup {u} /\ trash' = trash \ {u}
  ELSE joinTime' = joinTime \ {u} /\ trash' = trash \cup {u}

(* normalize_user_channels goes through the rooms in the order of their ids *)
(* and brings both indexes in line with the state us of user u, the second  *)
(* one for client type ct.  It returns at the first room whose connection   *)
(* it cannot find among cl, and leaves the rest as it is.                   *)
Missing(u, ct, us, cl) ==
  {c \in GetChannel(us, ct) : <<c, u, ct>> \notin localIn /\ <<u, ct>> \notin cl}

(* Faulty: rooms that were left keep the user in __users_in_channels$;      *)
(* the bookkeeping of orphans is left behind.                               *)
NormalizeAddsOnly(u, ct, us, cl) ==
  LET missing == Missing(u, ct, us, cl)
      before  == {c \in Channels : \A m \in missing : c < m}
  IN  /\ usersIn' = usersIn \cup {<<c, u>> : c \in ExportChannels(us)}
      /\ localIn' = {p \in localIn : p[2] # u \/ p[3] # ct \/ p[1] \notin before}
                      \cup {<<c, u, ct>> : c \in before \cap GetChannel(us, ct)}
      /\ orphans' = orphans \cap localIn'

NormalizeUserChannels(u, ct, us, cl) ==
  LET missing == Missing(u, ct, us, cl)
      reached == {c \in Channels : \A m \in missing : c <= m}
      before  == {c \in Channels : \A m \in missing : c < m}
  IN  /\ usersIn' = {p \in usersIn : p[2] # u \/ p[1] \notin reached}
                      \cup {<<c, u>> : c \in reached \cap ExportChannels(us)}
      /\ localIn' = {p \in localIn : p[2] # u \/ p[3] # ct \/ p[1] \notin before}
                      \cup {<<c, u, ct>> : c \in before \cap GetChannel(us, ct)}
      /\ orphans' = orphans \cap localIn'

(* What a join makes of the rooms of a user. *)
Joined(us, ct, c) ==
  IF ct = IRC THEN ChannelAdd(us, ct, c) ELSE WwwChannelReplace(us, c)

(* on_JOIN_fix_lists, with cl the connections. *)
JoinFixLists(u, ct, c, cl) ==
  LET us == Joined(state[u], ct, c) IN
  /\ state' = [state EXCEPT ![u] = us]
  /\ global' = [global EXCEPT ![u] = us]
  /\ NormalizeUserChannels(u, ct, us, cl)
  /\ HandleStatTCount(u, us)

(* Faulty: no connection is made for the join. *)
JoinUnconnected ==
  LET e == Head(batch) IN
  /\ Take("join")
  /\ loaded' = loaded \cup {e.user}
  /\ JoinFixLists(e.user, e.ct, e.chan, clients)
  /\ Push(Rejoin(e.user, e.ct, e.chan))
  /\ UNCHANGED <<sessions, clients, history>>

(* on_common_JOIN: a connection, the join itself, and the same join once    *)
(* more as an event of its own.                                             *)
HandleJoin ==
  LET e  == Head(batch)
      cl == clients \cup {<<e.user, e.ct>>}
  IN
  /\ Take("join")
  /\ loaded' = loaded \cup {e.user}
  /\ clients' = cl
  /\ JoinFixLists(e.user, e.ct, e.chan, cl)
  /\ Push(Rejoin(e.user, e.ct, e.chan))
  /\ UNCHANGED <<sessions, history>>

(* Faulty: the replayed join is replayed again. *)
RejoinAgain ==
  LET e == Head(batch) IN
  /\ Take("rejoin")
  /\ loaded' = loaded \cup {e.user}
  /\ JoinFixLists(e.user, e.ct, e.chan, clients)
  /\ Push(Rejoin(e.user, e.ct, e.chan))
  /\ UNCHANGED <<sessions, clients, history>>

(* do_set_user_state, JOIN_CHANNEL: makes no connection. *)
HandleRejoin ==
  LET e == Head(batch) IN
  /\ Take("rejoin")
  /\ loaded' = loaded \cup {e.user}
  /\ JoinFixLists(e.user, e.ct, e.chan, clients)
  /\ UNCHANGED <<queue, sessions, clients, history>>

(* Faulty: a leave of the browser takes the IRC session out, too. *)
PartAnyType ==
  LET e  == Head(batch)
      us == {p \in state[e.user] : e.chans # {} /\ p[1] \notin e.chans}
  IN
  /\ Take("part")
  /\ loaded' = loaded \cup {e.user}
  /\ state' = [state EXCEPT ![e.user] = us]
  /\ global' = [global EXCEPT ![e.user] = us]
  /\ NormalizeUserChannels(e.user, e.ct, us, clients)
  /\ HandleStatTCount(e.user, us)
  /\ UNCHANGED <<queue, sessions, clients, history>>

(* do_set_user_state, PART_CHANNEL. *)
HandlePart ==
  LET e  == Head(batch)
      us == PartChannels(state[e.user], e.chans, e.ct)
  IN
  /\ Take("part")
  /\ loaded' = loaded \cup {e.user}
  /\ state' = [state EXCEPT ![e.user] = us]
  /\ global' = [global EXCEPT ![e.user] = us]
  /\ NormalizeUserChannels(e.user, e.ct, us, clients)
  /\ HandleStatTCount(e.user, us)
  /\ UNCHANGED <<queue, sessions, clients, history>>

(* Faulty kicks: one without normalize_user_channels_clean, one that does   *)
(* not publish.                                                             *)
KickNotClean ==
  LET u == Head(batch).user
      his == {<<u, ct>> : ct \in CT}
  IN
  /\ Take("kick")
  /\ state' = [state EXCEPT ![u] = {}]
  /\ global' = [global EXCEPT ![u] = {}]
  /\ clients' = clients \ his
  /\ sessions' = sessions \ his
  /\ loaded' = loaded \ {u}
  /\ flushed' = flushed \ {u}
  /\ UNCHANGED <<queue, usersIn, localIn, orphans, joinTime, trash, asked, voicers>>

KickNotPublished ==
  LET u == Head(batch).user
      his == {<<u, ct>> : ct \in CT}
  IN
  /\ Take("kick")
  /\ state' = [state EXCEPT ![u] = {}]
  /\ usersIn' = {p \in usersIn : p[2] # u}
  /\ localIn' = {p \in localIn : p[2] # u}
  /\ orphans' = {p \in orphans : p[2] # u}
  /\ clients' = clients \ his
  /\ sessions' = sessions \ his
  /\ loaded' = loaded \ {u}
  /\ flushed' = flushed \ {u}
  /\ UNCHANGED <<global, queue, joinTime, trash, asked, voicers>>

(* do_set_user_state, KICK_USER: the user leaves every index, is logged out *)
(* and unloaded.  It returns before handle_stat_t_count.                    *)
HandleKick ==
  LET u == Head(batch).user
      his == {<<u, ct>> : ct \in CT}
  IN
  /\ Take("kick")
  /\ state' = [state EXCEPT ![u] = {}]
  /\ global' = [global EXCEPT ![u] = {}]
  /\ usersIn' = {p \in usersIn : p[2] # u}
  /\ localIn' = {p \in localIn : p[2] # u}
  /\ orphans' = {p \in orphans : p[2] # u}
  /\ clients' = clients \ his
  /\ sessions' = sessions \ his
  /\ loaded' = loaded \ {u}
  /\ flushed' = flushed \ {u}
  /\ UNCHANGED <<queue, joinTime, trash, asked, voicers>>

(* unload_user: __users$ and global_state forget the user, wherever he is.  *)
UnloadUser(u) ==
  IF u \in loaded
  THEN /\ loaded' = loaded \ {u}
       /\ state' = [state EXCEPT ![u] = {}]
       /\ global' = [global EXCEPT ![u] = {}]
       /\ flushed' = IF state[u] = {} THEN flushed ELSE flushed \cup {u}
  ELSE UNCHANGED <<loaded, state, global, flushed>>

HandleFlush ==
  /\ Take("flush")
  /\ UnloadUser(Head(batch).user)
  /\ UNCHANGED <<queue, sessions, clients, usersIn, localIn, orphans, joinTime,
                 trash, asked, voicers>>

(* do_set_user_state, the other commands: get_user_p may have to load the   *)
(* user, which publishes an empty state; SET_STATUS and SET_NICK of a user  *)
(* in some room publish his state again; SET_STATUS and a SET_NICK outside  *)
(* return before handle_stat_t_count.                                       *)
HandleCommand ==
  LET e  == Head(batch)
      u  == e.user
      us == state[u]
  IN
  /\ Take("command")
  /\ loaded' = loaded \cup {u}
  /\ global' = [global EXCEPT ![u] =
                  IF u \notin loaded \/ (e.cmd # "mode" /\ us # {}) THEN us ELSE @]
  /\ IF e.cmd = "mode" \/ (e.cmd = "nick" /\ us # {})
     THEN HandleStatTCount(u, us)
     ELSE UNCHANGED <<joinTime, trash>>
  /\ UNCHANGED <<queue, sessions, state, clients, usersIn, localIn, orphans,
                 history>>

(* Faulty: a request for a page takes the user into its room. *)
MessagesJoin ==
  LET e == Head(batch)
      cl == clients \cup {<<e.user, WWW>>}
  IN
  /\ Take("messages")
  /\ loaded' = loaded \cup {e.user}
  /\ clients' = cl
  /\ JoinFixLists(e.user, WWW, e.chan, cl)
  /\ UNCHANGED <<queue, sessions, history>>

(* on_CHAT_MESSAGES2: a connection; a user who is not in the room of the    *)
(* request gets his state published and his statistics updated (the command *)
(* CHANGE_CHANNEL it calls does nothing else).  What it sends is left out.  *)
HandleChatMessages ==
  LET e == Head(batch)
      u == e.user
      there == <<e.chan, WWW>> \in state[u]
  IN
  /\ Take("messages")
  /\ loaded' = loaded \cup {u}
  /\ clients' = clients \cup {<<u, WWW>>}
  /\ global' = [global EXCEPT ![u] = IF there THEN @ ELSE state[u]]
  /\ IF there THEN UNCHANGED <<joinTime, trash>>
              ELSE HandleStatTCount(u, state[u])
  /\ UNCHANGED <<queue, sessions, state, usersIn, localIn, orphans, history>>

(* on_CHVOICE: an administrator gives z the voice in a room or takes it.    *)
(* The state it publishes is that of z, under the id of the administrator.  *)
(* The voices themselves are left out; bound: every room is an extended one. *)
HandleVoice ==
  LET e == Head(batch)
      known == loaded \cup {e.user}
      done == e.user \in Admins /\ e.target \in known
  IN
  /\ Take("voice")
  /\ loaded' = known
  /\ global' = [global EXCEPT ![e.user] = IF done THEN state[e.target]
                                         ELSE IF e.user \in loaded THEN @
                                         ELSE state[e.user]]
  /\ voicers' = IF done /\ e.target # e.user THEN voicers \cup {e.user} ELSE voicers
  /\ UNCHANGED <<queue, sessions, state, clients, usersIn, localIn, orphans,
                 joinTime, trash, asked, flushed>>

(* handle_chat_events, extract_all. *)
ExtractAll ==
  /\ pc = "top"
  /\ batch' = queue
  /\ queue' = <<>>
  /\ pc' = "batch"
  /\ UNCHANGED <<sessions, global, rooms, network, history>>

BatchDone ==
  /\ pc = "batch" /\ batch = <<>>
  /\ pc' = "tail"
  /\ UNCHANGED <<shared, batch, rooms, network, history>>

(* chat_processor::handler, every 200 s with no event waiting: connections  *)
(* in no room, and those whose session is gone, are dropped.                *)
CleanLocalClients ==
  /\ pc = "tail" /\ queue = <<>>
  /\ LET gone == {k \in clients :
                   \/ \A c \in Channels : <<c, k[1], k[2]>> \notin localIn
                   \/ k \notin sessions}
     IN  /\ clients' = clients \ gone
         /\ orphans' = orphans \cup {p \in localIn : <<p[2], p[3]>> \in gone}
  /\ UNCHANGED <<shared, pc, batch, loaded, state, usersIn, localIn, joinTime,
                 trash, network, history>>

(* __update_contact_list_all rebuilds the index of users per room; the      *)
(* end of the loop.                                                         *)
UpdateContactLists ==
  /\ pc = "tail"
  /\ usersIn' = UNION {{<<c, u>> : c \in ExportChannels(state[u])} : u \in loaded}
  /\ pc' = "top"
  /\ UNCHANGED <<shared, batch, loaded, state, clients, localIn, orphans,
                 joinTime, trash, network, history>>

(* The loop ends without it when events wait and no change of the lists is  *)
(* older than 10 s.                                                         *)
SkipContactLists ==
  /\ pc = "tail" /\ queue # <<>>
  /\ pc' = "top"
  /\ UNCHANGED <<shared, batch, rooms, network, history>>

(* Every 600 s: users in trash for 3 hours are unloaded. *)
EmptyTrash(u) ==
  /\ pc = "tail" /\ u \in trash
  /\ trash' = trash \ {u}
  /\ UnloadUser(u)
  /\ UNCHANGED <<queue, sessions, pc, batch, clients, usersIn, localIn, orphans,
                 joinTime, network, asked, voicers>>

-----------------------------------------------------------------------------

Network ==
  \E t \in Threads :
    \/ LogInReturns(t) \/ LogInSetsNick(t)
    \/ PartReturns(t) \/ InactiveLeaves(t)
    \/ EnterStores(t) \/ EnterJoins(t) \/ EnterAsksPage(t)
    \/ \E l \in links : IrcDisconnect(t, l)
    \/ \E u \in Users :
         \/ LogInWww(t, u) \/ LogInIrc(t, u)
         \/ LeaveWww(t, u) \/ KilledLeaves(t, u) \/ Inactive(t, u)
         \/ AdminKick(t, u)
         \/ \E cmd \in Commands : SendCommand(t, u, cmd)
         \/ \E z \in Users : ChangeVoice(t, u, z)
         \/ \E c \in Channels :
              IrcPart(t, u, c) \/ EnterReads(t, u, c) \/ IrcJoin(t, u, c)

Handle ==
  \/ HandleJoin \/ HandleRejoin \/ HandlePart \/ HandleKick
  \/ HandleFlush \/ HandleCommand \/ HandleChatMessages \/ HandleVoice

ChatLoop ==
  \/ ExtractAll \/ Handle \/ BatchDone
  \/ UpdateContactLists \/ SkipContactLists

Housekeeping ==
  \/ CleanLocalClients
  \/ \E u \in Users : EmptyTrash(u)

Next ==
  \/ Network
  \/ ChatLoop
  \/ Housekeeping

Spec == Init /\ [][Next]_vars

-----------------------------------------------------------------------------

(* The types of the variables; an orphan is a connection some room holds. *)
TypeOK ==
  /\ queue \in Seq(Events) /\ batch \in Seq(Events)
  /\ pc \in {"top", "batch", "tail"}
  /\ sessions \subseteq Users \X CT
  /\ global \in [Users -> ChannelUs]
  /\ loaded \subseteq Users
  /\ state \in [Users -> ChannelUs]
  /\ clients \subseteq Users \X CT
  /\ usersIn \subseteq Channels \X Users
  /\ localIn \subseteq Channels \X Users \X CT
  /\ orphans \subseteq localIn
  /\ joinTime \subseteq Users /\ trash \subseteq Users
  /\ call \in [Threads -> Calls]
  /\ links \subseteq Users \X {"up", "lost"}
  /\ made \in 0 .. MaxCalls
  /\ asked \in [Users -> [CT -> Asked]]
  /\ flushed \subseteq Users
  /\ voicers \subseteq Users

(* A browser is in one room at a time, in the chat thread's state and in    *)
(* the copy that url_chat_messages2 reads, changes and stores on its own.   *)
SingleWwwChannel ==
  \A u \in Users : OneWwwChannel(state[u]) /\ OneWwwChannel(global[u])

(* A room never sends its messages to a connection of a user who is not in  *)
(* it with that client, whatever joins, replays, leaves, kicks and cleanups *)
(* came in between; a user unloaded in a room by a login is the exception   *)
(* (his entries stay until he is kicked).                                   *)
ConnectionsInRooms ==
  \A p \in localIn : p[2] \notin flushed => <<p[1], p[3]>> \in state[p[2]]

(* Why it holds: the connections of a client are in all its rooms or in     *)
(* none, and a replayed join that finds no connection finds none of the     *)
(* rooms holding one.  Cleaning the connections must not overtake a replay. *)
Replays(events, u, ct) ==
  \E i \in DOMAIN events :
    events[i].type = "rejoin" /\ events[i].user = u /\ events[i].ct = ct

AllOrNone ==
  \A u \in Users \ flushed, ct \in CT :
    \/ \A c \in Channels : <<c, u, ct>> \notin localIn
    \/ \A c \in Channels : <<c, u, ct>> \in localIn <=> <<c, ct>> \in state[u]

ReplayConnected ==
  \A u \in Users \ flushed, ct \in CT :
    (Replays(batch, u, ct) \/ Replays(queue, u, ct)) /\ <<u, ct>> \notin clients
      => \A c \in Channels : <<c, u, ct>> \notin localIn

BatchTaken == pc # "batch" => batch = <<>>

ConnectionsInductive == BatchTaken /\ AllOrNone /\ ReplayConnected

(* __users_in_channels$ lists a user in exactly the rooms he is in, as long *)
(* as each of them has his connection (after a kick with a replay behind it *)
(* normalize_user_channels stops half way).                                 *)
IndexExact ==
  \A u \in loaded \ flushed :
    (\A p \in state[u] : <<p[1], u, p[2]>> \in localIn) =>
      {p[1] : p \in {q \in usersIn : q[2] = u}} = ExportChannels(state[u])

(* The trash holds users who are in no room, so emptying it, hours after    *)
(* the decision, unloads nobody who has come back.                          *)
TrashIsAbsent == \A u \in trash : state[u] = {}

(* Whoever is in a room has a join time: the time he spends is counted.     *)
JoinTimed == \A u \in Users : state[u] # {} => u \in joinTime

(* The statistics follow presence: who is counted as there or gone, and so  *)
(* who may be unloaded hours later, is what the rooms say now, across kicks *)
(* (which leave both alone) and replayed joins.                             *)
StatisticsExact == TrashIsAbsent /\ JoinTimed

Quiet == queue = <<>> /\ batch = <<>>

(* When all events are handled, a user whose last wish was to be in a room  *)
(* is in it and the room holds a connection of his, be it an orphan of an   *)
(* earlier session: the join replayed from an earlier request never moves   *)
(* him away from it.                                                        *)
JoinNotLost ==
  Quiet => \A u \in Users, ct \in CT, c \in Channels :
    asked[u][ct] = AskedIn(c) =>
      <<c, ct>> \in state[u] /\ <<c, u, ct>> \in localIn

(* When all events are handled, a user who left or was kicked at a moment   *)
(* when no join of his was queued, replayed or being requested is out.      *)
LeaveHonoured ==
  Quiet => \A u \in Users, ct \in CT :
    asked[u][ct] = AskedOut => GetChannel(state[u], ct) = {}

(* When all events are handled and no call is half done, global_state shows *)
(* nobody in a room he is not in: a thread that passes inchat$www or        *)
(* get_user_channel does not post to a room on behalf of an absent user.    *)
(* Not of an administrator who has changed the voice of somebody else.      *)
AtRest == Quiet /\ \A t \in Threads : call[t] = Idle

GlobalNeverAhead ==
  AtRest => \A u \in Users \ voicers : global[u] \subseteq state[u]

(* url_chat_sendmessage posts to the room global_state names and tells a    *)
(* user for whom it names none that he is in no room: it takes the copy for *)
(* the state of that user, whoever he is.                                   *)
CopyIsOwn ==
  AtRest => \A u \in Users : global[u] \subseteq state[u]

-----------------------------------------------------------------------------
(* The chat thread is a loop without a wait: its next step always comes.    *)
FairSpec == Spec /\ WF_vars(ChatLoop)

(* All events get handled, those the chat thread pushes itself included.    *)
EventsDrain == queue # <<>> ~> Quiet

(* A join the user does not take back becomes a connection in the room.     *)
JoinSettles ==
  \A u \in Users, ct \in CT, c \in Channels :
    asked[u][ct] = AskedIn(c) ~>
      (<<c, u, ct>> \in localIn \/ asked[u][ct] # AskedIn(c))
==============================================================================
