----------------------------- MODULE ContactLists -----------------------------
(***************************************************************************)
(* The list of who is in a room, as each client in it has it               *)
(* (chatserver/chat_thread.cpp, user.cpp).                                 *)
(*                                                                         *)
(* A client gets the whole list when he joins (an IRC client) or with the  *)
(* content of his page (a browser), and is told of changes afterwards.     *)
(* The chat thread keeps what each client was told (visible_users) and who *)
(* changed (update_contact_list_data), compares the two when its queue is  *)
(* empty or ten seconds have passed, and sends the difference.  What a     *)
(* user may see depends on the mode of his list and on who is invisible.   *)
(*                                                                         *)
(* One room is enough for a list: a user is here, away in other rooms, or  *)
(* out.  The events of the users come in any order; the chat thread's own  *)
(* replays of joins come in theirs.                                        *)
(***************************************************************************)
EXTENDS Integers, Sequences

CONSTANTS
  Users,
  Browsers,   \* those with a browser; the others come by IRC
  Nicks,      \* the nicks a user has (nobody shares one)
  Superior,   \* <<z, i>>: z's _invisibility is above i's
  Hidden,     \* <<i, z>>: the mode of i's list hides z when it is on
  None,       \* no entry, no list
  MaxInputs   \* bound: the events of the users

ASSUME ListsAssumption ==
  /\ Browsers \subseteq Users
  /\ Superior \subseteq Users \X Users /\ Hidden \subseteq Users \X Users
  /\ Nicks # {} /\ None \notin [nick : Nicks, object : Nat]
  /\ MaxInputs \in Nat

VARIABLES
  objects,   \* every chat_stuff_user that was made
  loaded,    \* __users$: which object a user has, 0 for none
  conn,      \* local_clients: client_instance::usr, 0 when there is no connection
  listens,   \* __local_users_in_channels$ of the room
  list,      \* client_instance::visible_users of the room
  pending,   \* update_contact_list_data of the room: a user's object, or 0
  replays,   \* the joins that on_common_JOIN pushed again
  asks,      \* browsers whose page is going to ask for its content
  owes,      \* browsers whose UPDATE_CONTACT_LIST is still to come
  profile,   \* user_profile: whether the mode of the list is on
  echoes,    \* how many of each update are still to come, see Echoes
  told,      \* what the client shows, None before it got a list
  unsure,    \* history: <<i, u>>: i was told of u by a wrong nick or list
  unheard,   \* history: users whose present state nobody was compared with
  outdated,  \* history: those whose list is of a mode that an echo has changed
  inputs

users   == <<objects, loaded>>
clients == <<conn, listens, list>>
coming  == <<replays, asks, owes, echoes>>
history == <<unsure, unheard, outdated>>
vars    == <<users, clients, pending, coming, profile, told, history, inputs>>

(* An update comes back from the updater: a nick, a status or a mode for    *)
(* the chat thread, and the same mode for the profile.                      *)
Echoes == ({"nick"} \X Nicks) \cup ({"inv", "hides", "profile"} \X BOOLEAN)

Init ==
  /\ objects = <<>>
  /\ loaded = [u \in Users |-> 0]
  /\ conn = [u \in Users |-> 0]
  /\ listens = {}
  /\ list = [u \in Users |-> [z \in Users |-> None]]
  /\ pending = [u \in Users |-> 0]
  /\ replays = <<>>
  /\ asks = {} /\ owes = {}
  /\ profile = [u \in Users |-> FALSE]
  /\ echoes = [u \in Users |-> [e \in Echoes |-> 0]]
  /\ told = [u \in Users |-> None]
  /\ unsure = {} /\ unheard = {} /\ outdated = {}
  /\ inputs = 0

Input == inputs < MaxInputs /\ inputs' = inputs + 1

(* get_user_p loads a user who is not loaded (preload_user): he is online,  *)
(* nowhere, and has the modes of his profile.                               *)
Object(u) == IF loaded[u] # 0 THEN loaded[u] ELSE Len(objects) + 1
Heap(u) ==
  IF loaded[u] # 0 THEN objects
  ELSE Append(objects, [user |-> u, where |-> "out", inv |-> FALSE,
                        nick |-> CHOOSE k \in Nicks : TRUE, hides |-> profile[u]])

(* The handlers get the user's object and change some of its fields. *)
SetUser(u, new) ==
  /\ objects' = [Heap(u) EXCEPT ![Object(u)] = new]
  /\ loaded' = [loaded EXCEPT ![u] = Object(u)]

(* I_can_see_contact_list, for viewer object v and object o in heap h.      *)
CanSee(h, v, o) ==
  \/ h[v].user = h[o].user
  \/ /\ h[o].inv => <<h[o].user, h[v].user>> \notin Superior
     /\ h[v].hides => <<h[v].user, h[o].user>> \notin Hidden

Entry(h, o) == [nick |-> h[o].nick, object |-> o]

(* update_contact_list_all: a user who is noted already keeps the object he *)
(* was noted with.                                                          *)
Note(u, o) == pending' = [pending EXCEPT ![u] = IF @ = 0 THEN o ELSE @]

(* Updates that a request sends when it ends (~st_update), thus behind the  *)
(* events it pushed.  Two requests of a user may end in either order.       *)
Sent(u, es) ==
  [echoes EXCEPT ![u] = [e \in Echoes |-> IF e \in es THEN @[e] + 1 ELSE @[e]]]

NoList == [z \in Users |-> None]
Forget(i) == {p \in unsure : p[1] # i}

-----------------------------------------------------------------------------
(* Joins *)

(* Faulty: only the rooms the user is in now hear of his move. *)
FixListsNew(u, e, connected) ==
  LET user  == Heap(u)[Object(u)]
      where == IF e.room = "here" \/ (u \notin Browsers /\ user.where = "here")
               THEN "here" ELSE "away"
  IN
  /\ SetUser(u, [user EXCEPT !.where = where, !.nick = e.nick, !.inv = e.inv])
  /\ IF where = "here" THEN Note(u, Object(u)) ELSE UNCHANGED pending
  /\ listens' = IF where # "here" THEN listens \ {u}
                ELSE IF connected THEN listens \cup {u} ELSE listens

(* on_JOIN_fix_lists: a browser is in one room at a time, an IRC client in  *)
(* many; nick and status are those of the event; the rooms he was in and    *)
(* those he is in hear of him; the connection is in the room if there is    *)
(* one.                                                                     *)
FixLists(u, e, connected) ==
  LET user  == Heap(u)[Object(u)]
      where == IF e.room = "here" \/ (u \notin Browsers /\ user.where = "here")
               THEN "here" ELSE "away"
  IN
  /\ SetUser(u, [user EXCEPT !.where = where, !.nick = e.nick, !.inv = e.inv])
  /\ IF "here" \in {user.where, where} THEN Note(u, Object(u)) ELSE UNCHANGED pending
  /\ listens' = IF where # "here" THEN listens \ {u}
                ELSE IF connected THEN listens \cup {u} ELSE listens

(* update_my_contact_list_nofix_www_list: the whole list, himself first,    *)
(* from the object his connection was made with.                            *)
WholeList(h, ld, i, v) ==
  [z \in Users |->
     IF z = i THEN Entry(h, v)
     ELSE IF ld[z] # 0 /\ h[ld[z]].where = "here" /\ CanSee(h, v, ld[z])
     THEN Entry(h, ld[z])
     ELSE None]

(* The NAMES an IRC client gets. *)
Names(h, ld, l) ==
  {<<z, h[ld[z]].nick>> : z \in {y \in Users :
     ld[y] # 0 /\ h[ld[y]].where = "here" /\ l[y] # None}}

(* on_common_JOIN: the connection keeps the object it has; the join is      *)
(* pushed again.  The chat page also sends the status and the nick by way   *)
(* of the updater when they are new ones.                                   *)
HandleJoin(u, e) ==
  /\ Input
  /\ FixLists(u, e, TRUE)
  /\ conn' = [conn EXCEPT ![u] = IF @ = 0 THEN Object(u) ELSE @]
  /\ IF e.room = "here"
     THEN list' = [list EXCEPT ![u] = WholeList(objects', loaded', u, conn'[u])]
     ELSE UNCHANGED list
  /\ IF u \in Browsers
     THEN /\ told' = [told EXCEPT ![u] = None]
          /\ asks' = asks \cup {u}
          /\ \E new \in SUBSET {<<"inv", e.inv>>, <<"nick", e.nick>>} :
               echoes' = Sent(u, new)
     ELSE /\ told' = IF e.room # "here" THEN told
                     ELSE [told EXCEPT ![u] = Names(objects', loaded', list'[u])]
          /\ UNCHANGED <<asks, echoes>>
  /\ unsure' = IF e.room = "here" THEN Forget(u) ELSE unsure
  /\ outdated' = IF e.room = "here" THEN outdated \ {u} ELSE outdated
  /\ replays' = Append(replays, [user |-> u, event |-> e])
  /\ UNCHANGED <<owes, profile, unheard>>

(* do_set_user_state(JOIN): the same again later, without a new list for a  *)
(* user whom it takes back into the room.                                   *)
HandleReplay ==
  /\ replays # <<>>
  /\ LET u == Head(replays).user IN FixLists(u, Head(replays).event, conn[u] # 0)
  /\ unsure' = unsure \cup {<<i, u>> : i \in listens' \ listens, u \in Users}
  /\ replays' = Tail(replays)
  /\ UNCHANGED <<conn, list, asks, owes, echoes, profile, told, unheard, outdated, inputs>>

(* on_CHAT_MESSAGES2: a page in the room gets what the list has, with the   *)
(* nicks its objects have now; the list keeps the nicks it has.             *)
HandlePage(u) ==
  /\ u \in asks
  /\ asks' = asks \ {u}
  /\ SetUser(u, Heap(u)[Object(u)])
  /\ conn' = [conn EXCEPT ![u] = IF @ = 0 THEN Object(u) ELSE @]
  /\ IF Heap(u)[Object(u)].where = "here"
     THEN /\ told' = [told EXCEPT ![u] =
                {<<z, objects[list[u][z].object].nick>> :
                   z \in {y \in Users : list[u][y] # None}}]
          /\ unsure' = unsure \cup {<<u, z>> : z \in {y \in Users :
                /\ list[u][y] # None
                /\ list[u][y].nick # objects[list[u][y].object].nick}}
     ELSE UNCHANGED <<told, unsure>>
  /\ UNCHANGED <<listens, list, pending, replays, owes, echoes, profile, unheard,
                 outdated, inputs>>

-----------------------------------------------------------------------------
(* Other events of users (do_set_user_state) *)

(* PART_CHANNEL: of all rooms (a browser), or of one or all (IRC). *)
HandlePart(u, where) ==
  LET user == Heap(u)[Object(u)] IN
  /\ Input
  /\ where = "out" \/ (u \notin Browsers /\ user.where # "out")
  /\ SetUser(u, [user EXCEPT !.where = where])
  /\ IF user.where = "here" THEN Note(u, Object(u)) ELSE UNCHANGED pending
  /\ listens' = listens \ {u}
  /\ told' = [told EXCEPT ![u] = None]
  /\ UNCHANGED <<conn, list, coming, profile, history>>

(* SET_NICK and SET_STATUS, which do nothing for a user who is nowhere.     *)
Change(u, new) ==
  LET user == Heap(u)[Object(u)] IN
  /\ Input
  /\ SetUser(u, IF user.where = "out" THEN user ELSE new)
  /\ IF user.where = "here" THEN Note(u, Object(u)) ELSE UNCHANGED pending
  /\ UNCHANGED <<clients, replays, asks, owes, profile, told, history>>

(* us_SET_NICK and us_SET_STATUS send the event and an update, which the    *)
(* updater brings back to the chat thread later ...                         *)
HandleNick(u, k) ==
  /\ Change(u, [Heap(u)[Object(u)] EXCEPT !.nick = k])
  /\ echoes' = Sent(u, {<<"nick", k>>})

HandleStatus(u, inv) ==
  /\ Change(u, [Heap(u)[Object(u)] EXCEPT !.inv = inv])
  /\ echoes' = Sent(u, {<<"inv", inv>>})

Echo(u, e) == echoes[u][e] > 0 /\ echoes' = [echoes EXCEPT ![u][e] = @ - 1]

(* ... where it makes new of a user who is loaded, and nobody is told.      *)
SetAgain(u, new) ==
  /\ IF loaded[u] = 0 THEN UNCHANGED <<objects, unheard, outdated>>
     ELSE LET user == objects[loaded[u]] IN
          /\ objects' = [objects EXCEPT ![loaded[u]] = new]
          /\ unheard' = IF new.nick = user.nick /\ new.inv = user.inv THEN unheard
                        ELSE unheard \cup {u}
          /\ outdated' = IF new.hides = user.hides THEN outdated ELSE outdated \cup {u}
  /\ UNCHANGED <<loaded, clients, pending, replays, asks, owes, profile, told, unsure, inputs>>

EchoNick(u, k) ==
  Echo(u, <<"nick", k>>) /\ SetAgain(u, [objects[loaded[u]] EXCEPT !.nick = k])

EchoStatus(u, inv) ==
  Echo(u, <<"inv", inv>>) /\ SetAgain(u, [objects[loaded[u]] EXCEPT !.inv = inv])

EchoMode(u, on) ==
  Echo(u, <<"hides", on>>) /\ SetAgain(u, [objects[loaded[u]] EXCEPT !.hides = on])

(* KICK_USER: IRC clients hear of it at once; connection and user are gone. *)
HandleKick(u) ==
  LET user == Heap(u)[Object(u)]
      hear == IF user.where = "here" THEN listens \ Browsers ELSE {}
  IN
  /\ Input
  /\ objects' = [Heap(u) EXCEPT ![Object(u)].where = "out"]
  /\ loaded' = [loaded EXCEPT ![u] = 0]
  /\ IF user.where = "here" THEN Note(u, Object(u)) ELSE UNCHANGED pending
  /\ listens' = listens \ {u}
  /\ conn' = [conn EXCEPT ![u] = 0]
  /\ list' = [i \in Users |->
       IF i = u THEN NoList
       ELSE IF i \in hear THEN [list[i] EXCEPT ![u] = None] ELSE list[i]]
  /\ told' = [i \in Users |->
       IF i = u THEN None
       ELSE IF i \in hear /\ told[i] # None THEN told[i] \ {<<u, user.nick>>} ELSE told[i]]
  /\ unsure' = unsure \cup {<<i, u>> : i \in {j \in hear :
                  list[j][u] # None /\ list[j][u].nick # user.nick}}
  /\ UNCHANGED <<coming, profile, unheard, outdated>>

(* FLUSH_USER_DATA of a login, and the trash: the object leaves __users$.   *)
HandleFlush(u) ==
  /\ Input
  /\ loaded[u] # 0
  /\ loaded' = [loaded EXCEPT ![u] = 0]
  /\ UNCHANGED <<objects, clients, pending, coming, profile, told, history>>

(* url_change_female_mode: CHANGE_CONTACT_MODE sets the mode, which the     *)
(* updater brings once more to the chat thread and to the profile ...       *)
HandleMode(u) ==
  /\ u \in Browsers /\ Input
  /\ profile' = [profile EXCEPT ![u] = ~@]
  /\ SetUser(u, [Heap(u)[Object(u)] EXCEPT !.hides = profile'[u]])
  /\ owes' = owes \cup {u}
  /\ echoes' = Sent(u, {<<"hides", profile'[u]>>, <<"profile", profile'[u]>>})
  /\ UNCHANGED <<clients, pending, replays, asks, told, history>>

SaveMode(u, on) ==
  /\ Echo(u, <<"profile", on>>)
  /\ profile' = [profile EXCEPT ![u] = on]
  /\ UNCHANGED <<users, clients, pending, replays, asks, owes, told, history, inputs>>

(* What a client shows after some users were removed from its list, then    *)
(* others renamed, then others added; gone, new: their nicks in messages.   *)
(* A browser goes by the user's id, an IRC client by the nick, and it       *)
(* ignores a change of a nick it does not know.                             *)
Shows(i, removed, renamed, added, gone, new) ==
  LET known == {u \in renamed : <<u, list[i][u].nick>> \in told[i]} IN
  IF i \in Browsers
  THEN {p \in told[i] : p[1] \notin removed \cup renamed}
         \cup {<<u, new[u]>> : u \in added \cup renamed}
  ELSE (told[i] \ ({<<u, gone[u]>> : u \in removed}
                     \cup {<<u, list[i][u].nick>> : u \in renamed}))
         \cup {<<u, new[u]>> : u \in added \cup known}

(* ... and on_UPDATE_CONTACT_LIST sends the difference, by the object of    *)
(* the connection (update_my_contact_list_fix_www_list).                    *)
HandleUpdateList(u) ==
  /\ u \in owes
  /\ owes' = owes \ {u}
  /\ SetUser(u, Heap(u)[Object(u)])
  /\ conn' = [conn EXCEPT ![u] = IF @ = 0 THEN Object(u) ELSE @]
  /\ IF objects'[loaded'[u]].where # "here" THEN UNCHANGED <<list, told, outdated>>
     ELSE
     LET there == {z \in Users : loaded'[z] # 0}
         sees  == {z \in there : /\ objects'[loaded'[z]].where = "here"
                                 /\ CanSee(objects', conn'[u], loaded'[z])}
         nicks == [z \in there |-> objects'[loaded'[z]].nick]
         added   == {z \in sees : list[u][z] = None}
         removed == {z \in there \ sees : list[u][z] # None}
     IN
     /\ list' = [list EXCEPT ![u] = [z \in Users |->
          IF z \in added THEN Entry(objects', loaded'[z])
          ELSE IF z \in removed THEN None ELSE @[z]]]
     /\ told' = IF told[u] = None THEN told
                ELSE [told EXCEPT ![u] = Shows(u, removed, {}, added, nicks, nicks)]
     /\ outdated' = outdated \ {u}
  /\ UNCHANGED <<listens, pending, replays, asks, echoes, profile, unsure, unheard, inputs>>

-----------------------------------------------------------------------------
(* The loop *)

(* Faulty: the connections of users who are in the room are dropped too. *)
CleanEveryone ==
  /\ replays = <<>>
  /\ \E u \in Users :
       /\ conn[u] # 0
       /\ conn' = [conn EXCEPT ![u] = 0]
       /\ list' = [list EXCEPT ![u] = NoList]
  /\ UNCHANGED <<users, listens, pending, coming, profile, told, history, inputs>>

(* local_clients of users who are in no room are dropped when no event      *)
(* waits, which includes the replays (those in a room have their sessions). *)
CleanLocalClients ==
  /\ replays = <<>>
  /\ \E u \in Users \ listens :
       /\ conn[u] # 0
       /\ ~(loaded[u] # 0 /\ objects[loaded[u]].where = "away")
       /\ conn' = [conn EXCEPT ![u] = 0]
       /\ list' = [list EXCEPT ![u] = NoList]
  /\ UNCHANGED <<users, listens, pending, coming, profile, told, history, inputs>>

Present(u) == loaded[u] # 0 /\ objects[loaded[u]].where = "here"

(* __update_contact_list_all: each user who was noted, by the object he was *)
(* noted with, against each list.                                           *)
Refresh ==
  LET noted == {u \in Users : pending[u] # 0}
      nick  == [u \in noted |-> objects[pending[u]].nick]
      Sees(i, u) == list[i][u] # None
      May(i, u)  == Present(u) /\ CanSee(objects, conn[i], pending[u])
      Added(i)   == {u \in noted : ~Sees(i, u) /\ May(i, u)}
      Removed(i) == {u \in noted : Sees(i, u) /\ ~May(i, u)}
      Renamed(i) == {u \in noted : /\ Sees(i, u) /\ Present(u)
                                   /\ list[i][u].nick # nick[u]}
      Unsure(i)   == {u \in Removed(i) : /\ list[i][u].nick # nick[u]
                                        /\ i \in Browsers => Present(u)}
  IN
  /\ noted # {}
  /\ pending' = [u \in Users |-> 0]
  /\ list' = [i \in Users |->
       IF i \notin listens THEN list[i]
       ELSE [u \in Users |->
              IF u \in Removed(i) THEN None
              ELSE IF u \in Added(i) THEN Entry(objects, pending[u])
              ELSE IF u \in Renamed(i) THEN [list[i][u] EXCEPT !.nick = nick[u]]
              ELSE list[i][u]]]
  /\ told' = [i \in Users |->
       IF i \notin listens \/ told[i] = None THEN told[i]
       ELSE Shows(i, Removed(i), Renamed(i), Added(i), nick, nick)]
  /\ unsure' = unsure \cup {p \in listens \X noted : p[2] \in Unsure(p[1])}
  /\ unheard' = (unheard \ noted) \cup {u \in noted : loaded[u] \notin {0, pending[u]}}
  /\ UNCHANGED <<users, conn, listens, coming, profile, outdated, inputs>>

-----------------------------------------------------------------------------

Places == {"here", "away", "out"}
Joins  == [room : {"here", "away"}, nick : Nicks, inv : BOOLEAN]

UserEvents ==
  \E u \in Users :
    \/ \E e \in Joins : HandleJoin(u, e)
    \/ \E w \in {"away", "out"} : HandlePart(u, w)
    \/ \E k \in Nicks : HandleNick(u, k)
    \/ \E inv \in BOOLEAN : HandleStatus(u, inv)
    \/ HandleKick(u) \/ HandleFlush(u) \/ HandleMode(u)

LaterEvents ==
  \/ HandleReplay
  \/ \E u \in Users : HandlePage(u) \/ HandleUpdateList(u)
  \/ \E u \in Users, k \in Nicks : EchoNick(u, k)
  \/ \E u \in Users, b \in BOOLEAN : EchoStatus(u, b) \/ EchoMode(u, b) \/ SaveMode(u, b)

Next == UserEvents \/ LaterEvents \/ CleanLocalClients \/ Refresh

Spec == Init /\ [][Next]_vars

-----------------------------------------------------------------------------

TypeOK ==
  LET Ids == 0..Len(objects) IN
  /\ objects \in Seq([user : Users, where : Places, nick : Nicks, inv : BOOLEAN,
                      hides : BOOLEAN])
  /\ loaded \in [Users -> Ids] /\ conn \in [Users -> Ids] /\ pending \in [Users -> Ids]
  /\ listens \subseteq Users
  /\ list \in [Users -> [Users -> {None} \cup [nick : Nicks, object : Ids \ {0}]]]
  /\ replays \in Seq([user : Users, event : Joins])
  /\ asks \subseteq Browsers /\ owes \subseteq Browsers
  /\ profile \in [Users -> BOOLEAN]
  /\ echoes \in [Users -> [Echoes -> Nat]]
  /\ told \in [Users -> {None} \cup SUBSET (Users \X Nicks)]
  /\ unsure \subseteq Users \X Users /\ unheard \subseteq Users /\ outdated \subseteq Users
  /\ inputs \in 0..MaxInputs
  /\ \A u \in listens : conn[u] # 0
  /\ \A u \in Users : loaded[u] # 0 => objects[loaded[u]].user = u

(* Where the code makes the list exact.  Not where a login or a kick has    *)
(* replaced the object that a connection, a list or a note still has; where *)
(* a nick changed in the round in which its user left or hid, or before a   *)
(* page showed a change still noted; for a client that a replay took back   *)
(* into the room; nor where an echo has taken back a change: of the nick or *)
(* the status of a user of whom nothing was noted since, of the mode of a   *)
(* client whose list was not compared since.                                *)
Certain(i, u) ==
  /\ told[i] # None /\ i \notin owes
  /\ conn[i] = loaded[i]
  /\ list[i][u] # None => list[i][u].object = loaded[u]
  /\ <<i, u>> \notin unsure
  /\ u \notin unheard /\ i \notin outdated

(* When nothing is noted any more, what a client shows is exactly who is in *)
(* the room and visible to him, each under his present nick, although it is *)
(* made up of one list and many messages.                                   *)
ListsExact ==
  (\A u \in Users : pending[u] = 0) =>
    \A i \in listens, u \in Users :
      Certain(i, u) =>
        {p \in told[i] : p[1] = u} =
          IF Present(u) /\ CanSee(objects, loaded[i], loaded[u])
          THEN {<<u, objects[loaded[u]].nick>>}
          ELSE {}
==============================================================================
