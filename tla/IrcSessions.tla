------------------------------ MODULE IrcSessions ------------------------------
(***************************************************************************)
(* IRC sessions and who is logged in by IRC.  The handlers of the dialog    *)
(* server run irc_server::process_command; the selector calls on_delete     *)
(* for a connection that is lost; the main thread looks once in a second    *)
(* for dead sessions (irc_iterate) and from time to time for dead entries   *)
(* of local_users; the chat thread kicks and an administrator kills.        *)
(*                                                                         *)
(* A session is an irc_session, kept in irc_sessions by its S_id; a login   *)
(* makes a chat_user, kept in local_users by the user's id and T_IRC.  Both *)
(* live on for as long as somebody has a pointer: logins and made are the   *)
(* heap, entry and sessions the containers.  What a handler does under one  *)
(* lock is one action.                                                      *)
(***************************************************************************)
EXTENDS Integers, Sequences, Functions

CONSTANTS
  Conns,        \* c_socket
  Users,        \* DB_id
  Account,      \* whose nick and password the client of a connection gives
  Credentials,  \* NICK, PASS and USER
  Handlers,     \* handler threads of the dialog server
  Selector, Janitor,  \* the thread that calls on_delete, and the main thread
  None,         \* no connection
  MaxCommands   \* bound: the commands each client sends

ASSUME SessionsAssumption ==
  /\ Account \in [Conns -> Users]
  /\ None \notin Conns
  /\ Selector \notin Handlers /\ Janitor \notin Handlers /\ Selector # Janitor
  /\ MaxCommands \in [Conns -> Nat]

VARIABLES
  line,      \* line[c]: "new", "open" or "closed"
  sent,      \* sent[c]: the commands of c that a handler has taken
  key,       \* key[c]: extra_user_id, 0 when it is empty
  made,      \* made[s]: session s; 1..Len(made) are the S_ids given out
  sessions,  \* the keys of irc_sessions
  logins,    \* logins[o]: chat_user o
  entry,     \* entry[u]: local_users of u and T_IRC, 0 when there is none
  pc,        \* where each thread is
  conn,      \* the connection,
  sess,      \* the session and
  user,      \* the login, or the user, it is at work on
  kicked     \* history: the users that have been kicked

net   == <<line, sent, key>>
heap  == <<made, logins>>
calls == <<pc, conn, sess, user>>
vars  == <<net, heap, sessions, entry, calls, kicked>>

Threads == Handlers \cup {Selector, Janitor}

NewSession(c) == [sock |-> c, user |-> 0, entered |-> {}]
NewLogin(u, c) == [id |-> u, sock |-> c, erased |-> FALSE]

(* logins with o marked as erased *)
MarkedLogins(o) ==
  [logins EXCEPT ![o] = [id |-> logins[o].id, sock |-> logins[o].sock, erased |-> TRUE]]

Init ==
  /\ line = [c \in Conns |-> "new"]
  /\ sent = [c \in Conns |-> 0]
  /\ key = [c \in Conns |-> 0]
  /\ made = <<>> /\ logins = <<>>
  /\ sessions = {}
  /\ entry = [u \in Users |-> 0]
  /\ pc = [t \in Threads |-> "idle"]
  /\ conn = [t \in Threads |-> None]
  /\ sess = [t \in Threads |-> 0]
  /\ user = [t \in Threads |-> 0]
  /\ kicked = {}

Connected(c) == c # None /\ line[c] = "open"

At(t, where) == pc[t] = where

(* Thread t goes on at another place. *)
Goes(t, where) ==
  /\ pc' = [pc EXCEPT ![t] = where]
  /\ UNCHANGED <<conn, sess, user>>

Begins(t, where, c, s, u) ==
  /\ pc' = [pc EXCEPT ![t] = where]
  /\ conn' = [conn EXCEPT ![t] = c]
  /\ sess' = [sess EXCEPT ![t] = s]
  /\ user' = [user EXCEPT ![t] = u]

Ends(t) == Begins(t, "idle", None, 0, 0)

GoesOrEnds(t, cond, where) == IF cond THEN Goes(t, where) ELSE Ends(t)

Close(c) == line' = IF c = None THEN line ELSE [line EXCEPT ![c] = "closed"]
-----------------------------------------------------------------------------
(* Connections *)

Connect(c) ==
  /\ line[c] = "new"
  /\ line' = [line EXCEPT ![c] = "open"]
  /\ UNCHANGED <<sent, key, heap, sessions, entry, calls, kicked>>

(* Some other thread, the sender for one, closes the connection. *)
Disconnect(c) ==
  /\ line[c] = "open"
  /\ Close(c)
  /\ UNCHANGED <<sent, key, heap, sessions, entry, calls, kicked>>
-----------------------------------------------------------------------------
(* __irc_sessions::erase, by any thread, and what the thread does then. *)

Erased(t) ==
  GoesOrEnds(t, t = Selector, "close")

(* container.erase *)
Erase(t) ==
  /\ At(t, "erase")
  /\ sessions' = sessions \ {sess[t]}
  /\ IF sess[t] \in sessions THEN Goes(t, "forget") ELSE Erased(t)
  /\ UNCHANGED <<net, heap, entry, kicked>>

(* local_users.erase$ of the session's user, by key *)
Forget(t) ==
  LET o == made[sess[t]].user IN
  /\ At(t, "forget")
  /\ entry' = IF o = 0 THEN entry ELSE [entry EXCEPT ![logins[o].id] = 0]
  /\ Erased(t)
  /\ UNCHANGED <<net, heap, sessions, kicked>>
-----------------------------------------------------------------------------
(* process_command *)

(* Faulty: takes two ids for one session. *)
TakeTwoIds(h, c) ==
  LET s == key[c] IN
  /\ At(h, "idle")
  /\ line[c] # "new" /\ sent[c] < MaxCommands[c]
  /\ sent' = [sent EXCEPT ![c] = @ + 1]
  /\ IF s \in sessions
     THEN /\ Begins(h, "run", c, s, made[s].user)
          /\ UNCHANGED <<made, sessions>>
     ELSE /\ made' = Append(made, NewSession(c))
          /\ sessions' = sessions \cup {Len(made) + 2}
          /\ Begins(h, "key", c, Len(made) + 1, 0)
  /\ UNCHANGED <<line, key, logins, entry, kicked>>

(* Takes a command of connection c, finds its session, or makes one, which *)
(* the connection learns of in the next step.                              *)
Take(h, c) ==
  LET s == key[c] IN
  /\ At(h, "idle")
  /\ line[c] # "new" /\ sent[c] < MaxCommands[c]
  /\ sent' = [sent EXCEPT ![c] = @ + 1]
  /\ IF s \in sessions
     THEN /\ Begins(h, "run", c, s, made[s].user)
          /\ UNCHANGED <<made, sessions>>
     ELSE /\ made' = Append(made, NewSession(c))
          /\ sessions' = sessions \cup {Len(made) + 1}
          /\ Begins(h, "key", c, Len(made) + 1, 0)
  /\ UNCHANGED <<line, key, logins, entry, kicked>>

SetKey(h) ==
  /\ At(h, "key")
  /\ key' = [key EXCEPT ![conn[h]] = sess[h]]
  /\ Goes(h, "run")
  /\ UNCHANGED <<line, sent, heap, sessions, entry, kicked>>

(* PING, PONG, JOIN and the other commands that change no session. *)
RunOther(h) ==
  /\ At(h, "run")
  /\ Ends(h)
  /\ UNCHANGED <<net, heap, sessions, entry, kicked>>

RunQuit(h) ==
  /\ At(h, "run")
  /\ logins' = IF user[h] = 0 THEN logins ELSE MarkedLogins(user[h])
  /\ Goes(h, "erase")
  /\ UNCHANGED <<net, made, sessions, entry, kicked>>

(* NICK, PASS, USER *)
RunCredential(h, x) ==
  LET s == sess[h] IN
  /\ At(h, "run")
  /\ made' = [made EXCEPT ![s] =
                [sock |-> made[s].sock, user |-> made[s].user,
                 entered |-> made[s].entered \cup {x}]]
  /\ GoesOrEnds(h, user[h] = 0, "check")
  /\ UNCHANGED <<net, logins, sessions, entry, kicked>>

CheckEntered(h) ==
  /\ At(h, "check")
  /\ GoesOrEnds(h, made[sess[h]].entered = Credentials, "verify")
  /\ UNCHANGED <<net, heap, sessions, entry, kicked>>

(* No such nick, a wrong password *)
RefuseLogin(h) ==
  /\ At(h, "verify")
  /\ Ends(h)
  /\ UNCHANGED <<net, heap, sessions, entry, kicked>>

(* Banned: disconnect(__IS), which leaves the connection open. *)
Ban(h) ==
  LET s == sess[h] IN
  /\ At(h, "verify")
  /\ made' = [made EXCEPT ![s] =
                [sock |-> None, user |-> made[s].user, entered |-> made[s].entered]]
  /\ Goes(h, "erase")
  /\ UNCHANGED <<net, logins, sessions, entry, kicked>>

(* disconnect_irc_user of the login that local_users has *)
DisconnectOther(h) ==
  LET o == entry[Account[conn[h]]] IN
  /\ At(h, "verify")
  /\ IF o = 0
     THEN UNCHANGED <<line, logins>>
     ELSE /\ logins' = [logins EXCEPT ![o] =
                          [id |-> logins[o].id, sock |-> None, erased |-> logins[o].erased]]
          /\ Close(logins[o].sock)
  /\ Goes(h, "login")
  /\ UNCHANGED <<sent, key, made, sessions, entry, kicked>>

LogIn(h) ==
  LET c == conn[h]
      s == sess[h]
      o == Len(logins) + 1 IN
  /\ At(h, "login")
  /\ logins' = Append(logins, NewLogin(Account[c], c))
  /\ made' = [made EXCEPT ![s] =
                [sock |-> c, user |-> o, entered |-> made[s].entered]]
  /\ Begins(h, "insert", c, s, o)
  /\ UNCHANGED <<net, sessions, entry, kicked>>

(* map::insert keeps an entry that is there. *)
InsertUser(h) ==
  LET o == user[h] IN
  /\ At(h, "insert")
  /\ entry' = [entry EXCEPT ![logins[o].id] = IF @ = 0 THEN o ELSE @]
  /\ Ends(h)
  /\ UNCHANGED <<net, heap, sessions, kicked>>
-----------------------------------------------------------------------------
(* The selector: a connection that is lost, or that another thread has     *)
(* closed, which changes nothing when its session is gone.                 *)

OnDelete(c) ==
  /\ At(Selector, "idle")
  /\ line[c] = "open" \/ (line[c] = "closed" /\ key[c] \in sessions)
  /\ Begins(Selector, "erase", c, key[c], 0)
  /\ UNCHANGED <<net, heap, sessions, entry, kicked>>

CloseLost ==
  /\ At(Selector, "close")
  /\ Close(conn[Selector])
  /\ Ends(Selector)
  /\ UNCHANGED <<sent, key, heap, sessions, entry, kicked>>
-----------------------------------------------------------------------------
(* The main thread: irc_iterate, local_users_iterate and __clean$.  It goes *)
(* through copies of the containers; what it finds of a session or an      *)
(* entry does not change when that is looked at later, so the model has it *)
(* look at any of them, in any order.                                      *)

(* Not connected, or the user was marked *)
DeadSession(s) ==
  \/ ~Connected(made[s].sock)
  \/ made[s].user # 0 /\ logins[made[s].user].erased

EraseByJanitor(s) ==
  /\ At(Janitor, "idle") /\ s \in sessions
  /\ Begins(Janitor, "erase", None, s, 0)
  /\ UNCHANGED <<net, heap, sessions, entry, kicked>>

EraseDead(s) == s \in sessions /\ DeadSession(s) /\ EraseByJanitor(s)

(* No PONG for too long *)
EraseSilent(s) == s \in sessions /\ EraseByJanitor(s)

(* Faulty: only when the connection is gone as well. *)
EraseUnknownGone(s) ==
  /\ s \in sessions /\ made[s].user = 0 /\ ~Connected(made[s].sock)
  /\ EraseByJanitor(s)

(* No login for too long *)
EraseUnknown(s) == s \in sessions /\ made[s].user = 0 /\ EraseByJanitor(s)

(* Faulty: passes over a user without a socket. *)
MarkInactiveSock(u) ==
  /\ At(Janitor, "idle")
  /\ entry[u] # 0 /\ ~Connected(logins[entry[u]].sock)
  /\ ~logins[entry[u]].erased /\ logins[entry[u]].sock # None
  /\ logins' = MarkedLogins(entry[u])
  /\ UNCHANGED <<net, made, sessions, entry, calls, kicked>>

(* www_local_user_handle_max_inactive_time of one who was not active for   *)
(* too long; it erases the key <<user, T_WWW>> only.                       *)
MarkInactive(u) ==
  /\ At(Janitor, "idle")
  /\ entry[u] # 0 /\ ~Connected(logins[entry[u]].sock)
  /\ ~logins[entry[u]].erased
  /\ logins' = MarkedLogins(entry[u])
  /\ UNCHANGED <<net, made, sessions, entry, calls, kicked>>

(* Faulty: drops every entry it finds. *)
MarkedAny(u) == entry[u] # 0

Marked(u) == entry[u] # 0 /\ logins[entry[u]].erased

(* __clean$: get$, and whether the user found is marked *)
FindMarked(u) ==
  /\ At(Janitor, "idle") /\ Marked(u)
  /\ Begins(Janitor, "remove", None, 0, u)
  /\ UNCHANGED <<net, heap, sessions, entry, kicked>>

(* The entry of the key goes, whoever's it is by now. *)
RemoveKey ==
  /\ At(Janitor, "remove")
  /\ entry' = [entry EXCEPT ![user[Janitor]] = 0]
  /\ Ends(Janitor)
  /\ UNCHANGED <<net, heap, sessions, kicked>>
-----------------------------------------------------------------------------
(* The chat thread's KICK_USER; the session and the connection stay. *)
Kick(u) ==
  /\ entry[u] # 0
  /\ entry' = [entry EXCEPT ![u] = 0]
  /\ kicked' = kicked \cup {u}
  /\ UNCHANGED <<net, heap, sessions, calls>>

(* killsession: user_destroy; the connection stays open until the session  *)
(* is found dead, and longer.                                              *)
Kill(u) ==
  /\ entry[u] # 0
  /\ logins' = [logins EXCEPT ![entry[u]] =
                  [id |-> u, sock |-> None, erased |-> TRUE]]
  /\ UNCHANGED <<net, made, sessions, entry, calls, kicked>>
-----------------------------------------------------------------------------
Command(h) ==
  \/ SetKey(h) \/ RunOther(h) \/ RunQuit(h)
  \/ \E x \in Credentials : RunCredential(h, x)
  \/ CheckEntered(h) \/ RefuseLogin(h) \/ Ban(h)
  \/ DisconnectOther(h) \/ LogIn(h) \/ InsertUser(h)
  \/ Erase(h) \/ Forget(h)

SelectorRuns == Erase(Selector) \/ Forget(Selector) \/ CloseLost

JanitorRuns ==
  \/ Erase(Janitor) \/ Forget(Janitor) \/ RemoveKey
  \/ \E s \in sessions : EraseDead(s) \/ EraseSilent(s) \/ EraseUnknown(s)
  \/ \E u \in Users : MarkInactive(u) \/ FindMarked(u)

Next ==
  \/ \E c \in Conns : Connect(c) \/ Disconnect(c) \/ OnDelete(c)
  \/ \E h \in Handlers : Command(h) \/ \E c \in Conns : Take(h, c)
  \/ SelectorRuns \/ JanitorRuns
  \/ \E u \in Users : Kick(u) \/ Kill(u)

Spec == Init /\ [][Next]_vars

MaxSessions == FoldFunction(+, 0, MaxCommands)

(* The threads run; the main thread comes to the sessions and the entries  *)
(* again and again, and time passes.  A session that only stays silent may *)
(* answer in time for ever.                                                *)
FairSpec ==
  /\ Spec
  /\ WF_vars(\E h \in Handlers : Command(h))
  /\ WF_vars(SelectorRuns)
  /\ WF_vars(Erase(Janitor) \/ Forget(Janitor) \/ RemoveKey)
  /\ SF_vars(\E s \in sessions : EraseDead(s) \/ EraseUnknown(s))
  /\ SF_vars(\E u \in Users : MarkInactive(u) \/ FindMarked(u))
-----------------------------------------------------------------------------
Places == {"idle", "key", "run", "check", "verify", "login", "insert",
           "erase", "forget", "close", "remove"}

TypeOK ==
  /\ line \in [Conns -> {"new", "open", "closed"}]
  /\ sent \in [Conns -> Nat]
  /\ made \in Seq([sock : Conns \cup {None}, user : 0..Len(logins),
                   entered : SUBSET Credentials])
  /\ logins \in Seq([id : Users, sock : Conns \cup {None}, erased : BOOLEAN])
  /\ key \in [Conns -> 0..Len(made)]
  /\ sessions \subseteq 1..Len(made)
  /\ entry \in [Users -> 0..Len(logins)]
  /\ pc \in [Threads -> Places]
  /\ conn \in [Threads -> Conns \cup {None}]
  /\ sess \in [Threads -> 0..Len(made)]
  /\ \A h \in Handlers : user[h] \in 0..Len(logins)
  /\ kicked \subseteq Users

(* Nobody else has logged in as the user of login o. *)
SoleLogin(o) == \A p \in DOMAIN logins : logins[p].id = logins[o].id => p = o

Inserting(o) == \E h \in Handlers : At(h, "insert") /\ user[h] = o

(* A user with a session is in local_users: nothing that looks for the     *)
(* dead, or ends another session, takes the entry away, unless he was      *)
(* marked or kicked, or has logged in again, when it may (map::insert,     *)
(* erase$ by key).                                                         *)
LoginKept ==
  \A s \in sessions :
    LET o == made[s].user IN
    o # 0 /\ SoleLogin(o) /\ ~logins[o].erased
      /\ logins[o].id \notin kicked /\ ~Inserting(o)
        => entry[logins[o].id] = o

(* Nothing dead stays.  A session whose connection is gone, or in which     *)
(* nobody logs in, goes, also one that a command behind on_delete has made; *)
(* and so does the entry of a login whose connection is gone, although its  *)
(* session may have been erased before the user was entered.                *)
DeadGo ==
  /\ \A s \in 1..MaxSessions :
       (s \in sessions /\ (~Connected(made[s].sock) \/ made[s].user = 0))
         ~> (s \notin sessions \/ (Connected(made[s].sock) /\ made[s].user # 0))
  /\ \A u \in Users, o \in 1..MaxSessions :
       (entry[u] = o /\ ~Connected(logins[o].sock)) ~> entry[u] # o
==============================================================================
