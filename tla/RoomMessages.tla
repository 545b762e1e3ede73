----------------------------- MODULE RoomMessages -----------------------------
(***************************************************************************)
(* The messages of the rooms (chatserver/chat_thread.cpp, user.cpp,        *)
(* message.cpp, url_chat_messages.cpp, url_chat_sendmessage.cpp).          *)
(*                                                                         *)
(* Browser users, each with one session, open pages of the chat: a page is *)
(* the socket its messages are written to.  The chat thread keeps one log  *)
(* of all rooms, shows the end of it on a new page, and sends each new     *)
(* message to everybody in the room.  Other threads send notices: they     *)
(* write to the page themselves and hand the notice over for the log.  The *)
(* thread app_server::users_handler writes the messages to two files.      *)
(*                                                                         *)
(* Who is in a room after kicks, logins and leaves of several clients is   *)
(* ChatThread's subject; here there are joins, replayed joins and leaves.  *)
(***************************************************************************)
EXTENDS Integers, Sequences, Functions

CONSTANTS
  Users, Rooms,
  None,         \* no room, no socket
  Backlog,      \* the n of LK_chat_channel_get_n_messages (100)
  Low, High,    \* the log is cut to Low messages when it has more than High
  MaxPages,     \* bound: how many pages are opened
  MaxInputs     \* bound: pages, messages, leaves, notices and failed writes

ASSUME MessagesAssumption ==
  /\ None \notin Users \cup Rooms \cup (1..MaxPages)
  /\ {Backlog, Low, High} \subseteq Nat /\ Backlog < Low /\ Low <= High
  /\ {MaxPages, MaxInputs} \subseteq Nat

VARIABLES
  pages,      \* the requests for a page, in the order they came
  socket,     \* chat_user::persistent_socket, by the page it belongs to
  shown,      \* what was written to the socket of a page, from its content on
  global,     \* global_state: the room of a user's browser
  where,      \* the room as the chat thread has it
  events,     \* __chat_events
  batch,      \* the events handle_chat_events extracted
  pc,         \* where the chat thread is in its round
  external,   \* external_$messages
  copy,       \* the chat thread's copy of it
  log,        \* _$messages
  hello,      \* the rooms of greeting_msgs_, bye_msgs_ and chroom_msgs_channels
  backup,     \* backup_messages
  packed,     \* messages_to_backup
  bin, txt,   \* the two files of chat_channels_backup_messages
  said,       \* history: every message of every room
  follows,    \* history: how much was said when a page got its content
  handed,     \* history: the notices handed over,
  lost,       \* history:   those handed over while the queue was cleared,
  cut,        \* history:   and those cut from the log
  unwritten,  \* history: the messages that are missing in each file
  telling,    \* notices written to the page and not handed over yet
  inputs      \* the number of inputs so far

web     == <<pages, socket>>
rooms   == <<global, where>>
queues  == <<events, batch>>
inbox   == <<external, handed, lost>>
notices == <<inbox, copy, telling>>
files   == <<packed, bin, txt, unwritten>>
logs    == <<log, cut, hello, backup, said>>
vars    == <<web, shown, rooms, queues, pc, notices, files, logs, follows, inputs>>

Never == -1
Pages == 1..MaxPages

(* The chat thread knows the users already, from a visit in the last three  *)
(* hours: get_user_p has nobody to load.                                    *)
Init ==
  /\ pages = <<>>
  /\ socket = [u \in Users |-> None]
  /\ shown = [p \in Pages |-> <<>>]
  /\ global = [u \in Users |-> None]
  /\ where = [u \in Users |-> None]
  /\ events = <<>> /\ batch = <<>>
  /\ pc = "take"
  /\ external = <<>> /\ copy = <<>>
  /\ log = <<>>
  /\ hello = [greeting |-> <<>>, bye |-> <<>>, chroom |-> <<>>]
  /\ backup = <<>> /\ packed = <<>>
  /\ bin = <<>> /\ txt = <<>>
  /\ said = <<>>
  /\ follows = [p \in Pages |-> Never]
  /\ telling = {}
  /\ handed = {} /\ lost = {} /\ cut = {}
  /\ unwritten = [bin |-> {}, txt |-> {}]
  /\ inputs = 0

Event(type, u, r) == [type |-> type, user |-> u, room |-> r]
Push(e)  == events' = Append(events, e)
Input    == inputs < MaxInputs /\ inputs' = inputs + 1

(* A message of a room is the n-th that was said; a notice is for one user. *)
Message(r, n)   == [kind |-> "said", room |-> r, to |-> None, n |-> n]
Notice(r, u, n) == [kind |-> "notice", room |-> r, to |-> u, n |-> n]

Kinds  == {"said", "notice"}
Anyone == Users \cup {None}
Items  == [kind : Kinds, room : Rooms, to : Anyone, n : Nat]

(* The elements of s that are in T, in their order: SelectSeq as a function, *)
(* about which theorems can be proved.                                      *)
Select(s, T) ==
  LET upTo[i \in 0..Len(s)] ==
        IF i = 0 THEN <<>>
        ELSE IF s[i] \in T THEN Append(upTo[i - 1], s[i]) ELSE upTo[i - 1]
  IN  upTo[Len(s)]

OfKind(kind)  == [kind : {kind}, room : Rooms, to : Anyone, n : Nat]
Only(s, kind) == Select(s, OfKind(kind))
Numbers(s)    == {m.n : m \in Range(s)}
NoticesIn(s)  == Numbers(Only(s, "notice"))

(* chat_msg$::make gives nothing for another room, or for a notice to       *)
(* somebody else: what is left for u in room r.                             *)
Seen(r, u) == [kind : Kinds, room : {r}, to : {None, u}, n : Nat]

(* A page has its content and its user still listens to it in that room.    *)
Follower(p, u) == socket[u] = p /\ follows[p] # Never

(* data_push_back_www of text[u] to each user u: it goes to the socket the  *)
(* user's session has now, and nowhere if it has none.  What a page gets    *)
(* while it has no content is not recorded.                                 *)
Deliver(text) ==
  shown' = [p \in Pages |->
    IF \E u \in Users : Follower(p, u)
    THEN shown[p] \o text[CHOOSE u \in Users : Follower(p, u)]
    ELSE <<>>]

(* A page whose user has left its room, or opened another page, is not      *)
(* followed any more.                                                       *)
Forget(page) ==
  /\ follows' = [p \in Pages |-> IF p = page THEN Never ELSE follows[p]]
  /\ shown' = [p \in Pages |-> IF p = page THEN <<>> ELSE shown[p]]

-----------------------------------------------------------------------------
(* The threads of the front end *)

(* url_chat_messages2: the user's browser is in room r from now on, as far  *)
(* as global_state goes; the room he was in hears that he moves; the chat   *)
(* thread is asked to let him in.  (ChatThread takes these steps apart.)    *)
OpenPage(u, r) ==
  /\ Len(pages) < MaxPages /\ Input
  /\ pages' = Append(pages, [user |-> u, room |-> r, stage |-> "request"])
  /\ global' = [global EXCEPT ![u] = r]
  /\ LET moves == IF global[u] \in {None, r} THEN <<>>
                  ELSE <<Event("chroom", u, global[u])>>
     IN  events' = events \o moves \o <<Event("join", u, r)>>
  /\ UNCHANGED <<socket, shown, where, batch, pc, notices, files, logs, follows>>

(* Then it asks for the content, and only then it makes its socket the one  *)
(* the user's messages go to (and writes the header of the page, which is   *)
(* left out).                                                               *)
PageAt(p, stage, next) ==
  /\ p \in DOMAIN pages /\ pages[p].stage = stage
  /\ pages' = [pages EXCEPT ![p].stage = next]

PageRequests(p) ==
  /\ PageAt(p, "request", "socket")
  /\ Push(Event("page", pages[p].user, pages[p].room))
  /\ UNCHANGED <<socket, shown, rooms, batch, pc, notices, files, logs, follows, inputs>>

PageTakesOver(p) ==
  /\ PageAt(p, "socket", "done")
  /\ LET u == pages[p].user IN
       /\ socket' = [socket EXCEPT ![u] = p]
       /\ Forget(socket[u])
  /\ UNCHANGED <<rooms, queues, pc, notices, files, logs, inputs>>

(* url_chat_sendmessage: into the room global_state has the user in. *)
SendMessage(u) ==
  /\ global[u] # None
  /\ Push(Event("say", u, global[u]))
  /\ Input
  /\ UNCHANGED <<web, shown, rooms, batch, pc, notices, files, logs, follows>>

(* url_chat_exit, the event and global_state (in two steps in ChatThread). *)
Leave(u) ==
  /\ Input
  /\ Push(Event("part", u, None))
  /\ global' = [global EXCEPT ![u] = None]
  /\ UNCHANGED <<web, shown, where, batch, pc, notices, files, logs, follows>>

(* send_syspriv_msg of another thread: the notice goes to the user's page   *)
(* first and is handed over for the log afterwards.  What is handed over    *)
(* after the chat thread has copied external_$messages and before it clears *)
(* it is lost.                                                              *)
SendNotice(u) ==
  /\ global[u] # None
  /\ LET m == Notice(global[u], u, inputs + 1) IN
       /\ Deliver([v \in Users |-> IF v = u THEN <<m>> ELSE <<>>])
       /\ telling' = telling \cup {m}
  /\ Input
  /\ UNCHANGED <<web, rooms, queues, pc, inbox, copy, files, logs, follows>>

HandOver(m) ==
  /\ m \in telling
  /\ telling' = telling \ {m}
  /\ external' = Append(external, m)
  /\ handed' = handed \cup {m.n}
  /\ lost' = IF pc = "clear" THEN lost \cup {m.n} ELSE lost
  /\ UNCHANGED <<web, shown, rooms, queues, pc, copy, files, logs, follows, inputs>>

-----------------------------------------------------------------------------
(* The chat thread *)

(* chat_processor::handler, the top of the loop: copy and clear ... *)
CopyNotices ==
  /\ pc = "take" /\ external # <<>>
  /\ copy' = external
  /\ pc' = "clear"
  /\ UNCHANGED <<web, shown, rooms, queues, inbox, telling, files, logs,
                 follows, inputs>>

(* Faulty: the copy is not taken into the log. *)
ClearOnly ==
  /\ pc = "clear"
  /\ external' = <<>>
  /\ copy' = <<>>
  /\ pc' = "extract"
  /\ UNCHANGED <<web, shown, rooms, queues, log, cut, handed, lost, telling, files, hello,
                 backup, said, follows, inputs>>

(* ... under two locks, and the copy goes to the log. *)
ClearNotices ==
  /\ pc = "clear"
  /\ external' = <<>>
  /\ log' = log \o copy
  /\ copy' = <<>>
  /\ pc' = "extract"
  /\ UNCHANGED <<web, shown, rooms, queues, cut, handed, lost, telling, files, hello,
                 backup, said, follows, inputs>>

(* handle_chat_events, with the check that there is no notice: one that     *)
(* comes between the two could as well come after them.                     *)
ExtractEvents ==
  /\ pc = "extract" \/ (pc = "take" /\ external = <<>>)
  /\ batch' = events
  /\ events' = <<>>
  /\ pc' = "batch"
  /\ UNCHANGED <<web, shown, rooms, notices, files, logs, follows, inputs>>

Take(type) ==
  /\ pc = "batch" /\ batch # <<>>
  /\ Head(batch).type = type
  /\ batch' = Tail(batch)
  /\ UNCHANGED <<web, pc, copy, telling, files, lost, cut>>

(* The chat thread's copy of a user's room and the shared one. *)
Enter(u, r) ==
  /\ where' = [where EXCEPT ![u] = r]
  /\ global' = [global EXCEPT ![u] = r]
  /\ IF r = where[u] THEN UNCHANGED <<shown, follows>> ELSE Forget(socket[u])

(* on_JOIN_fix_lists of a visible user: he is greeted when he was not in    *)
(* the room.                                                                *)
JoinRoom(u, r) ==
  /\ Enter(u, r)
  /\ hello' = IF where[u] = r THEN hello
              ELSE [hello EXCEPT !.greeting = Append(@, r)]
  /\ UNCHANGED <<external, handed, log, backup, said, inputs>>

(* on_common_JOIN: the join is replayed as an event of its own. *)
HandleJoin ==
  LET e == Head(batch) IN
  /\ Take("join")
  /\ JoinRoom(e.user, e.room)
  /\ Push(Event("rejoin", e.user, e.room))

HandleRejoin ==
  LET e == Head(batch) IN
  /\ Take("rejoin")
  /\ JoinRoom(e.user, e.room)
  /\ UNCHANGED events

(* do_set_user_state, PART_CHANNEL. *)
HandlePart ==
  LET u == Head(batch).user IN
  /\ Take("part")
  /\ Enter(u, None)
  /\ hello' = IF where[u] = None THEN hello
              ELSE [hello EXCEPT !.bye = Append(@, where[u])]
  /\ UNCHANGED <<events, external, handed, log, backup, said, inputs>>

HandleChroom ==
  LET e == Head(batch) IN
  /\ Take("chroom")
  /\ hello' = [hello EXCEPT !.chroom = Append(@, e.room)]
  /\ UNCHANGED <<events, shown, global, where, external, handed, log, backup, said, follows,
                 inputs>>

(* LK_chat_channel_get_n_messages: from the end of the log until more than  *)
(* n are found.                                                             *)
LastMessages(u, r) ==
  LET mine == Select(log, Seen(r, u))
      from == Len(mine) - Backlog
  IN  SubSeq(mine, IF from < 1 THEN 1 ELSE from, Len(mine))

(* on_CHAT_MESSAGES2: the content goes to the page the user's session has   *)
(* now, which may be the one before.  A user who is elsewhere gets the      *)
(* content of the room he is in; one who is nowhere gets none.              *)
HandlePage ==
  LET u == Head(batch).user
      r == where[u]
  IN
  /\ Take("page")
  /\ global' = [global EXCEPT ![u] = IF r = Head(batch).room THEN @ ELSE r]
  /\ IF r = None
     THEN UNCHANGED <<shown, follows>>
     ELSE /\ shown' = [p \in Pages |->
                IF p = socket[u] THEN LastMessages(u, r) ELSE shown[p]]
          /\ follows' = [p \in Pages |->
                IF p = socket[u] THEN Len(said) ELSE follows[p]]
  /\ UNCHANGED <<events, where, external, handed, hello, log, backup, said, inputs>>

(* save_chat_msg of new messages, and what each user hears of them.         *)
Save(new) ==
  /\ log' = log \o new
  /\ said' = said \o new

Heard(new) ==
  [u \in Users |-> Select(new, Seen(where[u], u))]

(* on_SEND_MESSAGE, user_process_send_message_to_channel: the message is    *)
(* said in the room it was sent to, be the user there or, by now, in        *)
(* another one; it is refused with a notice (a moderated room, a low level, *)
(* a klap), or dropped as a repetition or because the user is nowhere.      *)
HandleSay ==
  LET e == Head(batch)
      u == e.user
      new == <<Message(e.room, Len(said) + 1)>>
  IN
  /\ Take("say")
  /\ \/ /\ where[u] # None
        /\ Save(new)
        /\ backup' = backup \o new
        /\ Deliver(Heard(new))
        /\ UNCHANGED <<external, handed, inputs>>
     \/ /\ where[u] # None /\ global[u] # None
        /\ LET m == Notice(global[u], u, inputs + 1) IN
             /\ Deliver([v \in Users |-> IF v = u THEN <<m>> ELSE <<>>])
             /\ external' = Append(external, m)
             /\ handed' = handed \cup {m.n}
        /\ Input
        /\ UNCHANGED <<log, said, backup>>
     \/ UNCHANGED <<shown, external, handed, log, backup, said, inputs>>
  /\ UNCHANGED <<events, global, where, hello, follows>>

(* handle_room_event_messages, when no event waits: greetings, farewells    *)
(* and moves are saved, then sent.                                          *)
Announced ==
  LET all == hello.greeting \o hello.bye \o hello.chroom IN
  [i \in DOMAIN all |-> Message(all[i], Len(said) + i)]

(* Faulty: the announcements of people coming and going are not sent. *)
AnnounceSaved ==
  IF events = <<>>
  THEN /\ said' = said \o Announced
       /\ hello' = [greeting |-> <<>>, bye |-> <<>>, chroom |-> <<>>]
       /\ UNCHANGED shown
  ELSE UNCHANGED <<shown, hello, said>>

Announce ==
  IF events = <<>>
  THEN /\ said' = said \o Announced
       /\ hello' = [greeting |-> <<>>, bye |-> <<>>, chroom |-> <<>>]
       /\ Deliver(Heard(Announced))
  ELSE UNCHANGED <<shown, hello, said>>

(* Faulty: the log is never cut. *)
TrimNever(l) == l

Trim(l) == IF Len(l) > High THEN SubSeq(l, Len(l) - Low + 1, Len(l)) ELSE l

(* Faulty: what was packed is packed again in the next round. *)
PackAgain(new) ==
  /\ packed' = packed \o backup \o new
  /\ backup' = backup \o new

(* pack_backup_messages *)
PackBackup(new) ==
  /\ packed' = packed \o backup \o new
  /\ backup' = <<>>

(* The end of the round: announcements, the backup, and the log is cut.     *)
FinishRound ==
  LET new == IF events = <<>> THEN Announced ELSE <<>> IN
  /\ pc = "batch" /\ batch = <<>>
  /\ Announce
  /\ PackBackup(new)
  /\ log' = Trim(log \o new)
  /\ cut' = cut \cup (NoticesIn(log) \ NoticesIn(Trim(log \o new)))
  /\ pc' = "take"
  /\ UNCHANGED <<web, rooms, queues, notices, bin, txt, unwritten, follows, inputs>>

-----------------------------------------------------------------------------
(* app_server::users_handler, every second: everything packed goes to one   *)
(* file and then, in words, to the other.  What cannot be written is gone.  *)
WriteFiles ==
  /\ packed # <<>>
  /\ packed' = <<>>
  /\ bin' = bin \o packed
  /\ txt' = txt \o packed
  /\ UNCHANGED <<web, shown, rooms, queues, pc, notices, unwritten, logs, follows, inputs>>

FailToWrite ==
  /\ packed # <<>>
  /\ packed' = <<>>
  /\ \/ /\ UNCHANGED bin
        /\ unwritten' = [f \in {"bin", "txt"} |-> unwritten[f] \cup Numbers(packed)]
     \/ /\ bin' = bin \o packed
        /\ unwritten' = [unwritten EXCEPT !.txt = @ \cup Numbers(packed)]
  /\ Input
  /\ UNCHANGED <<web, shown, rooms, queues, pc, notices, txt, logs, follows>>

-----------------------------------------------------------------------------

FrontEnd ==
  \/ \E u \in Users :
       \/ \E r \in Rooms : OpenPage(u, r)
       \/ SendMessage(u) \/ Leave(u) \/ SendNotice(u)
  \/ \E p \in Pages :
       PageRequests(p) \/ PageTakesOver(p)
  \/ \E m \in telling : HandOver(m)

Handle ==
  \/ HandleJoin \/ HandleRejoin \/ HandlePart \/ HandleChroom
  \/ HandlePage \/ HandleSay

ChatLoop ==
  \/ CopyNotices \/ ClearNotices \/ ExtractEvents \/ Handle \/ FinishRound

UsersHandler == WriteFiles \/ FailToWrite

Next == FrontEnd \/ ChatLoop \/ UsersHandler

Spec == Init /\ [][Next]_vars

-----------------------------------------------------------------------------

Stages == {"request", "socket", "done"}
Types  == {"join", "rejoin", "part", "page", "chroom", "say"}
EventSet == [type : Types, user : Users, room : Rooms \cup {None}]

(* The type of the state; when a round begins, the log is not longer than   *)
(* the limit at which it is cut.                                            *)
TypeOK ==
  /\ pages \in Seq([user : Users, room : Rooms, stage : Stages]) /\ Len(pages) <= MaxPages
  /\ socket \in [Users -> Pages \cup {None}]
  /\ shown \in [Pages -> Seq(Items)]
  /\ global \in [Users -> Rooms \cup {None}] /\ where \in [Users -> Rooms \cup {None}]
  /\ events \in Seq(EventSet) /\ batch \in Seq(EventSet)
  /\ pc \in {"take", "clear", "extract", "batch"}
  /\ \A s \in {external, copy, log, backup, packed, bin, txt, said} : s \in Seq(Items)
  /\ hello \in [{"greeting", "bye", "chroom"} -> Seq(Rooms)]
  /\ follows \in [Pages -> Nat \cup {Never}]
  /\ lost \subseteq handed /\ handed \subseteq 1..MaxInputs /\ cut \subseteq 1..MaxInputs
  /\ telling \subseteq Items
  /\ unwritten \in [{"bin", "txt"} -> SUBSET Nat]
  /\ inputs \in 0..MaxInputs
  /\ pc = "take" => Len(log) <= High

OfRoom(s, r)  == Select(s, [kind : Kinds, room : {r}, to : Anyone, n : Nat])
IsEndOf(s, t) == \E k \in 0..Len(t) : s = SubSeq(t, k + 1, Len(t))

OnPage(p) == Only(shown[p], "said")

(* A page that got its content shows, until its user leaves the room or     *)
(* another page takes over, a last part of what was said in the room, each  *)
(* message once and in order: everything since the content and at most the  *)
(* backlog before it.  What arrives before the content is not counted, and  *)
(* a page whose content went to the page before it is none.                 *)
NothingMissed ==
  \A u \in Users : \A p \in Pages :
    socket[u] = p /\ follows[p] # Never =>
      LET all   == OfRoom(said, where[u])
          since == OfRoom(SubSeq(said, follows[p] + 1, Len(said)), where[u])
      IN  /\ IsEndOf(OnPage(p), all)
          /\ Len(since) <= Len(OnPage(p))
          /\ Len(OnPage(p)) <= Len(since) + Backlog + 1

(* Cut only at its old end, the log holds what was said, in order, and no   *)
(* notice twice.                                                            *)
LogExact ==
  /\ IsEndOf(Only(log, "said"), said)
  /\ \A i, j \in DOMAIN log : log[i] = log[j] => i = j

(* A notice that was handed over is on its way to the log or got there,     *)
(* unless it was handed over while the queue was cleared.                   *)
NoticesLogged ==
  handed \ lost = (Numbers(external) \ lost) \cup NoticesIn(log) \cup cut

Written(missing) ==
  Select(said, [kind : Kinds, room : Rooms, to : Anyone, n : Nat \ missing])

(* Each file holds, or is about to get, every message once and in order,    *)
(* but for those of a batch that could not be written.                      *)
BackupExact ==
  /\ Written(unwritten.bin) = bin \o packed \o backup
  /\ Written(unwritten.txt) = txt \o packed \o backup

MessagesKept == LogExact /\ NoticesLogged /\ BackupExact
==============================================================================
