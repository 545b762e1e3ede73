-------------------------- MODULE IrcSessions_proofs --------------------------
(***************************************************************************)
(* Proofs about IrcSessions: the types, and that a user keeps the entry of  *)
(* his first login in local_users, for any number of connections, users,    *)
(* handlers and commands.                                                   *)
(***************************************************************************)
EXTENDS IrcSessions, TLAPS

Records == [sock : Conns \cup {None}, user : Nat, entered : SUBSET Credentials]
Objects == [id : Users, sock : Conns \cup {None}, erased : BOOLEAN]

(* The places of process_command before irc_sessions::erase. *)
Working == {"key", "run", "check", "verify", "login", "insert"}

(* TypeOK with the lengths of the two sequences apart. *)
Typed ==
  /\ line \in [Conns -> {"new", "open", "closed"}]
  /\ sent \in [Conns -> Nat]
  /\ made \in Seq(Records) /\ logins \in Seq(Objects)
  /\ key \in [Conns -> 0..Len(made)]
  /\ sessions \subseteq 1..Len(made)
  /\ entry \in [Users -> 0..Len(logins)]
  /\ kicked \subseteq Users

Owned == \A s \in 1..Len(made) : made[s].user \in 0..Len(logins)

(* What a thread t at place w has: its connection c, session s and login u, *)
(* where M, L and S are made, logins and sessions.                         *)
Fits(M, L, S, t, w, c, s, u) ==
  /\ w \in Places /\ c \in Conns \cup {None} /\ s \in 0..Len(M)
  /\ t \in Handlers => u \in 0..Len(L)
  /\ t \in Handlers /\ w \in Working => s # 0 /\ c \in Conns
  /\ w = "insert" => t \in Handlers /\ u # 0
  /\ w = "forget" => s # 0 /\ s \notin S
  /\ w = "remove" =>
       t = Janitor /\ u \in Users
       /\ \E o \in 1..Len(L) : L[o].id = u /\ L[o].erased

Calls ==
  /\ pc = [t \in Threads |-> pc[t]] /\ conn = [t \in Threads |-> conn[t]]
  /\ sess = [t \in Threads |-> sess[t]] /\ user = [t \in Threads |-> user[t]]
  /\ \A t \in Threads :
       Fits(made, logins, sessions, t, pc[t], conn[t], sess[t], user[t])

(* A login belongs to one session, an entry to the user of its login. *)
Unshared ==
  \A r, s \in 1..Len(made) :
    made[r].user = made[s].user /\ made[s].user # 0 => r = s

OwnEntry == \A u \in Users : entry[u] # 0 => logins[entry[u]].id = u

IInv == Typed /\ Owned /\ Calls /\ Unshared /\ OwnEntry /\ LoginKept
-----------------------------------------------------------------------------
(* Changing an element of a sequence keeps its length and the others. *)
LEMMA SeqExcept ==
  ASSUME NEW S, NEW q \in Seq(S), NEW i \in 1..Len(q), NEW e \in S
  PROVE  LET r == [q EXCEPT ![i] = e] IN
           /\ r \in Seq(S) /\ Len(r) = Len(q)
           /\ r[i] = e /\ \A j \in 1..Len(q) : j # i => r[j] = q[j]
OBVIOUS

(* A function on 1..n is a sequence. *)
LEMMA SeqOf ==
  ASSUME NEW S, NEW n \in Nat, NEW q \in [1..n -> S]
  PROVE  q \in Seq(S)
OBVIOUS

(* Appending an element keeps the others. *)
LEMMA SeqAppend ==
  ASSUME NEW S, NEW q \in Seq(S), NEW e \in S
  PROVE  LET r == Append(q, e) IN
           /\ r \in Seq(S) /\ Len(r) = Len(q) + 1
           /\ r[Len(q) + 1] = e /\ \A j \in 1..Len(q) : r[j] = q[j]
OBVIOUS

(* The logins that are there keep their users and marks. *)
LoginsStay ==
  /\ Len(logins') >= Len(logins)
  /\ \A o \in 1..Len(logins) :
       /\ logins'[o].id = logins[o].id
       /\ logins[o].erased => logins'[o].erased

(* The sessions that are there keep their users. *)
SessionsStay ==
  /\ Len(made') >= Len(made)
  /\ \A s \in 1..Len(made) : made'[s].user = made[s].user

(* No session comes back. *)
NoneBack == \A s \in 1..Len(made) : s \in sessions' => s \in sessions

(* The steps of the others let a thread fit its place. *)
LEMMA FitsKept ==
  ASSUME IInv, LoginsStay, NoneBack,
         made' \in Seq(Records), Len(made') >= Len(made), logins' \in Seq(Objects),
         NEW x \in Threads
  PROVE  Fits(made', logins', sessions', x, pc[x], conn[x], sess[x], user[x])
<1> USE DEF IInv, Typed
<1>0. Len(made) \in Nat /\ Len(logins) \in Nat /\ Len(made') \in Nat /\ Len(logins') \in Nat
  OBVIOUS
<1>1. Fits(made, logins, sessions, x, pc[x], conn[x], sess[x], user[x])
  BY DEF Calls
<1>2. sess[x] \in 0..Len(made') /\ (x \in Handlers => user[x] \in 0..Len(logins'))
  BY <1>1, <1>0 DEF Fits, LoginsStay
<1>3. pc[x] = "forget" => sess[x] # 0 /\ sess[x] \notin sessions'
  BY <1>1, <1>0 DEF Fits, NoneBack
<1>4. pc[x] = "remove" =>
        \E o \in 1..Len(logins') : logins'[o].id = user[x] /\ logins'[o].erased
  BY <1>1, <1>0 DEF Fits, LoginsStay
<1> QED
  BY <1>1, <1>2, <1>3, <1>4 DEF Fits

(* No thread moves. *)
LEMMA CallsStay ==
  ASSUME IInv, LoginsStay, NoneBack, UNCHANGED calls,
         made' \in Seq(Records), Len(made') >= Len(made), logins' \in Seq(Objects)
  PROVE  Calls' /\ \A o : Inserting(o) => Inserting(o)'
<1>1. \A x \in Threads :
        Fits(made', logins', sessions', x, pc[x], conn[x], sess[x], user[x])
  BY FitsKept
<1> QED
  BY <1>1 DEF IInv, Calls, calls, Inserting, At

(* One thread moves, and fits its new place: the others fit theirs. *)
LEMMA CallsKept ==
  ASSUME SessionsAssumption, IInv, LoginsStay, NoneBack,
         made' \in Seq(Records), Len(made') >= Len(made), logins' \in Seq(Objects),
         NEW t \in Threads, NEW w, NEW c, NEW s, NEW u,
         Begins(t, w, c, s, u),
         Fits(made', logins', sessions', t, w, c, s, u)
  PROVE  /\ Calls'
         /\ pc[t] # "insert" => \A o : Inserting(o) => Inserting(o)'
<1>1. /\ pc' = [x \in Threads |-> pc'[x]] /\ conn' = [x \in Threads |-> conn'[x]]
      /\ sess' = [x \in Threads |-> sess'[x]] /\ user' = [x \in Threads |-> user'[x]]
  BY DEF Begins, Calls, IInv
<1>2. pc'[t] = w /\ conn'[t] = c /\ sess'[t] = s /\ user'[t] = u
  BY DEF Begins, Calls, IInv
<1>3. \A x \in Threads \ {t} :
        pc'[x] = pc[x] /\ conn'[x] = conn[x] /\ sess'[x] = sess[x] /\ user'[x] = user[x]
  BY DEF Begins, Calls, IInv
<1>4. \A x \in Threads \ {t} :
        Fits(made', logins', sessions', x, pc[x], conn[x], sess[x], user[x])
  BY FitsKept
<1>5. \A x \in Threads :
        Fits(made', logins', sessions', x, pc'[x], conn'[x], sess'[x], user'[x])
  BY <1>2, <1>3, <1>4
<1>6. Calls'
  BY <1>1, <1>5 DEF Calls
<1>7. pc[t] # "insert" => \A o : Inserting(o) => Inserting(o)'
  BY <1>3 DEF Inserting, At, Threads
<1> QED
  BY <1>6, <1>7

(* Goes keeps what the thread is at work on. *)
LEMMA GoesBegins ==
  ASSUME IInv, NEW t \in Threads, NEW w, Goes(t, w)
  PROVE  Begins(t, w, conn[t], sess[t], user[t])
BY DEF Goes, Begins, IInv, Calls

(* What LoginKept asks of the login of a session. *)
Entitled(o) ==
  /\ o # 0 /\ SoleLogin(o) /\ ~logins[o].erased
  /\ logins[o].id \notin kicked /\ ~Inserting(o)

(* LoginKept with the login named. *)
LEMMA KeptEntry ==
  LoginKept <=>
    \A s \in sessions : \A o :
      o = made[s].user /\ Entitled(o) => entry[logins[o].id] = o
BY DEF LoginKept, Entitled, SoleLogin, Inserting

(* A step that changes no entry, no user of a session and no user of a     *)
(* login, and that does not end an insertion, keeps LoginKept.             *)
LEMMA KeptBy ==
  ASSUME IInv, LoginsStay, SessionsStay, entry' = entry,
         made' \in Seq(Records), logins' \in Seq(Objects), kicked \subseteq kicked',
         \A s \in sessions' : s \in sessions \/ made'[s].user = 0,
         \A o : Inserting(o) => Inserting(o)'
  PROVE  LoginKept' /\ OwnEntry'
<1>0. /\ Len(made) \in Nat /\ Len(logins) \in Nat
      /\ Len(made') \in Nat /\ Len(logins') \in Nat
      /\ DOMAIN logins = 1..Len(logins) /\ DOMAIN logins' = 1..Len(logins')
      /\ 1..Len(logins) \subseteq 1..Len(logins')
  BY DEF IInv, Typed, LoginsStay
<1>1. ASSUME NEW u \in Users, entry'[u] # 0
      PROVE  logins'[entry'[u]].id = u
  <2>1. entry[u] \in 1..Len(logins)
    BY <1>0, <1>1 DEF IInv, Typed
  <2>2. logins[entry[u]].id = u
    BY <1>1 DEF IInv, OwnEntry
  <2> QED
    BY <2>1, <2>2 DEF LoginsStay
<1>2. ASSUME NEW s \in sessions', NEW o, o = made'[s].user, Entitled(o)'
      PROVE  entry'[logins'[o].id] = o
  <2>1. s \in sessions /\ s \in 1..Len(made) /\ made[s].user = o
    BY <1>2 DEF IInv, Typed, SessionsStay, Entitled
  <2>2. o \in 1..Len(logins)
    BY <2>1, <1>2, <1>0 DEF IInv, Owned, Entitled
  <2>3. logins'[o].id = logins[o].id /\ ~logins[o].erased
    BY <2>2, <1>2 DEF LoginsStay, Entitled
  <2>4. SoleLogin(o)
    <3> SUFFICES ASSUME NEW p \in 1..Len(logins), logins[p].id = logins[o].id
                 PROVE  p = o
      BY <1>0 DEF SoleLogin
    <3>1. logins'[p].id = logins'[o].id
      BY <2>3 DEF LoginsStay
    <3> QED
      BY <3>1, <1>0, <1>2 DEF SoleLogin, Entitled
  <2>5. logins[o].id \notin kicked /\ ~Inserting(o)
    BY <2>3, <1>2 DEF Entitled
  <2>6. entry[logins[o].id] = o
    BY <2>1, <2>2, <2>3, <2>4, <2>5, <1>2, KeptEntry DEF IInv, Entitled
  <2> QED
    BY <2>3, <2>6
<1>3. LoginKept'
  BY <1>2 DEF LoginKept, Entitled, SoleLogin, Inserting
<1>4. OwnEntry'
  BY <1>1 DEF OwnEntry
<1> QED
  BY <1>3, <1>4
-----------------------------------------------------------------------------
(* The initial states satisfy the invariant. *)
LEMMA InitInv == SessionsAssumption /\ Init => IInv
<1> SUFFICES ASSUME SessionsAssumption, Init PROVE IInv
  OBVIOUS
<1> USE DEF Init, SessionsAssumption
<1>1. Typed /\ Owned
  BY DEF Typed, Owned
<1>2. Calls
  BY DEF Calls, Fits, Working, Places, Threads
<1>3. Unshared /\ OwnEntry /\ LoginKept
  BY DEF Unshared, OwnEntry, LoginKept
<1> QED
  BY <1>1, <1>2, <1>3 DEF IInv
-----------------------------------------------------------------------------
(* Steps that leave the heap and the containers alone. *)

Same == UNCHANGED <<made, logins, sessions, entry, kicked>>

(* The invariant is kept by them. *)
LEMMA SameInv ==
  ASSUME IInv, Same, Calls', \A o : Inserting(o) => Inserting(o)',
         line' \in [Conns -> {"new", "open", "closed"}], sent' \in [Conns -> Nat],
         key' \in [Conns -> 0..Len(made)]
  PROVE  IInv'
<1>1. LoginsStay /\ SessionsStay
  BY DEF IInv, Typed, Same, LoginsStay, SessionsStay
<1>2. LoginKept' /\ OwnEntry'
  BY <1>1, KeptBy DEF IInv, Typed, Same
<1>3. Typed' /\ Owned' /\ Unshared'
  BY DEF IInv, Typed, Same, Owned, Unshared
<1> QED
  BY <1>2, <1>3 DEF IInv

(* A thread moves. *)
LEMMA MoveInv ==
  ASSUME SessionsAssumption, IInv, Same,
         NEW t \in Threads, pc[t] # "insert", NEW w, NEW c, NEW s, NEW u,
         Begins(t, w, c, s, u), Fits(made, logins, sessions, t, w, c, s, u),
         line' \in [Conns -> {"new", "open", "closed"}], sent' \in [Conns -> Nat],
         key' \in [Conns -> 0..Len(made)]
  PROVE  IInv'
<1>1. LoginsStay /\ NoneBack
  BY DEF IInv, Typed, Same, LoginsStay, NoneBack
<1>2. Fits(made', logins', sessions', t, w, c, s, u)
  BY DEF Same
<1>3. Calls' /\ \A o : Inserting(o) => Inserting(o)'
  BY <1>1, <1>2, CallsKept DEF IInv, Typed, Same
<1> QED
  BY <1>3, SameInv

(* What a thread has. *)
LEMMA Fitting ==
  ASSUME IInv, NEW t \in Threads
  PROVE  /\ Fits(made, logins, sessions, t, pc[t], conn[t], sess[t], user[t])
         /\ t \in Handlers /\ pc[t] \in Working =>
              sess[t] \in 1..Len(made) /\ conn[t] \in Conns
         /\ Len(made) \in Nat /\ Len(logins) \in Nat
BY DEF IInv, Calls, Fits, Typed

(* A thread that is idle fits with anything. *)
LEMMA FitsIdle ==
  ASSUME SessionsAssumption, NEW M \in Seq(Records), NEW L \in Seq(Objects), NEW S,
         NEW t \in Threads
  PROVE  Fits(M, L, S, t, "idle", None, 0, 0)
BY DEF Fits, Places, Working

(* A connection that is closed is a connection. *)
LEMMA CloseTyped ==
  ASSUME SessionsAssumption, IInv, NEW c, Close(c)
  PROVE  line' \in [Conns -> {"new", "open", "closed"}]
BY DEF IInv, Typed, Close

(* A connection comes or goes. *)
LEMMA ConnectInv ==
  ASSUME SessionsAssumption, IInv, NEW c \in Conns, Connect(c) \/ Disconnect(c)
  PROVE  IInv'
<1>1. Same /\ UNCHANGED <<calls, sent, key>>
  BY DEF Connect, Disconnect, Same, heap
<1>2. LoginsStay /\ NoneBack
  BY <1>1 DEF IInv, Typed, Same, LoginsStay, NoneBack
<1>3. Calls' /\ \A o : Inserting(o) => Inserting(o)'
  BY <1>1, <1>2, CallsStay DEF IInv, Typed, Same
<1>4. line' \in [Conns -> {"new", "open", "closed"}]
  BY DEF Connect, Disconnect, Close, IInv, Typed
<1> QED
  BY <1>1, <1>3, <1>4, SameInv DEF IInv, Typed

(* The selector begins. *)
LEMMA OnDeleteInv ==
  ASSUME SessionsAssumption, IInv, NEW c \in Conns, OnDelete(c)
  PROVE  IInv'
<1>1. Same /\ UNCHANGED net
  BY DEF OnDelete, Same, heap
<1>2. Fits(made, logins, sessions, Selector, "erase", c, key[c], 0)
  BY DEF Fits, IInv, Typed, Places, Working, SessionsAssumption
<1>3. pc[Selector] # "insert" /\ Begins(Selector, "erase", c, key[c], 0)
  BY DEF OnDelete, At
<1> QED
  BY <1>1, <1>2, <1>3, MoveInv DEF net, IInv, Typed, Threads

(* The main thread begins. *)
LEMMA FromJanitorInv ==
  ASSUME SessionsAssumption, IInv,
         (\E s \in sessions : EraseByJanitor(s)) \/ (\E u \in Users : FindMarked(u))
  PROVE  IInv'
<1>1. Same /\ UNCHANGED net /\ pc[Janitor] # "insert" /\ Janitor \in Threads
  BY DEF EraseByJanitor, FindMarked, Same, heap, At, Threads
<1>2. CASE \E s \in sessions : EraseByJanitor(s)
  <2>1. PICK s \in sessions : EraseByJanitor(s)
    BY <1>2
  <2>2. Fits(made, logins, sessions, Janitor, "erase", None, s, 0)
    BY DEF Fits, IInv, Typed, Places, Working, SessionsAssumption
  <2> QED
    BY <1>1, <2>1, <2>2, MoveInv DEF net, IInv, Typed, EraseByJanitor
<1>3. CASE \E u \in Users : FindMarked(u)
  <2>1. PICK u \in Users : FindMarked(u)
    BY <1>3
  <2>2. entry[u] \in 1..Len(logins) /\ logins[entry[u]].id = u /\ logins[entry[u]].erased
    BY <2>1 DEF FindMarked, Marked, IInv, Typed, OwnEntry
  <2>3. Fits(made, logins, sessions, Janitor, "remove", None, 0, u)
    BY <2>2 DEF Fits, IInv, Typed, Places, Working, SessionsAssumption
  <2> QED
    BY <1>1, <2>1, <2>3, MoveInv DEF net, IInv, Typed, FindMarked
<1> QED
  BY <1>2, <1>3

(* A handler goes on. *)
LEMMA SteersInv ==
  ASSUME SessionsAssumption, IInv, NEW h \in Handlers,
         RunOther(h) \/ CheckEntered(h) \/ RefuseLogin(h) \/ SetKey(h)
  PROVE  IInv'
<1>1. Same /\ UNCHANGED <<line, sent>> /\ h \in Threads
  BY DEF RunOther, CheckEntered, RefuseLogin, SetKey, Same, net, heap, Threads
<1>2. pc[h] \in {"run", "check", "verify", "key"}
  BY DEF RunOther, CheckEntered, RefuseLogin, SetKey, At
<1>3. sess[h] \in 1..Len(made) /\ conn[h] \in Conns /\ user[h] \in 0..Len(logins)
  BY <1>1, <1>2, Fitting DEF Working, Fits
<1>4. key' \in [Conns -> 0..Len(made)]
  <2>1. key \in [Conns -> 0..Len(made)] /\ sess[h] \in 0..Len(made)
    BY <1>3, Fitting DEF IInv, Typed
  <2>2. key' = key \/ key' = [key EXCEPT ![conn[h]] = sess[h]]
    BY DEF RunOther, CheckEntered, RefuseLogin, SetKey, net
  <2> QED
    BY <2>1, <2>2
<1>5. CASE Ends(h)
  <2>1. Begins(h, "idle", None, 0, 0)
    BY <1>5 DEF Ends
  <2>2. Fits(made, logins, sessions, h, "idle", None, 0, 0)
    BY <1>1, FitsIdle DEF IInv, Typed
  <2> QED
    BY <1>1, <1>2, <1>4, <2>1, <2>2, MoveInv DEF IInv, Typed
<1>6. ASSUME NEW w \in {"run", "verify"}, Goes(h, w)
      PROVE  IInv'
  <2>1. Begins(h, w, conn[h], sess[h], user[h])
    BY <1>1, <1>6, GoesBegins
  <2>2. Fits(made, logins, sessions, h, w, conn[h], sess[h], user[h])
    BY <1>3, Fitting DEF Fits, Places, Working
  <2> QED
    BY <1>1, <1>2, <1>4, <2>1, <2>2, MoveInv DEF IInv, Typed
<1> QED
  BY <1>5, <1>6 DEF RunOther, CheckEntered, RefuseLogin, SetKey, GoesOrEnds

(* The selector ends. *)
LEMMA CloseLostInv ==
  ASSUME SessionsAssumption, IInv, CloseLost
  PROVE  IInv'
<1>1. Same /\ UNCHANGED <<sent, key>> /\ pc[Selector] # "insert" /\ Selector \in Threads
  BY DEF CloseLost, Same, heap, At, Threads
<1>2. line' \in [Conns -> {"new", "open", "closed"}]
  BY CloseTyped DEF CloseLost
<1>3. Fits(made, logins, sessions, Selector, "idle", None, 0, 0)
  BY <1>1, FitsIdle DEF IInv, Typed
<1> QED
  BY <1>1, <1>2, <1>3, MoveInv DEF IInv, Typed, CloseLost, Ends
-----------------------------------------------------------------------------
(* Steps that change the sessions or the logins, and no entry. *)

(* Sessions stay or go, one thread moves. *)
LEMMA GoneInv ==
  ASSUME SessionsAssumption, IInv, sessions' \subseteq sessions,
         UNCHANGED <<net, heap, entry, kicked>>,
         NEW t \in Threads, pc[t] # "insert", NEW w, NEW c, NEW s, NEW u,
         Begins(t, w, c, s, u), Fits(made, logins, sessions', t, w, c, s, u)
  PROVE  IInv'
<1>1. LoginsStay /\ NoneBack /\ SessionsStay
  BY DEF IInv, Typed, heap, LoginsStay, NoneBack, SessionsStay
<1>2. Fits(made', logins', sessions', t, w, c, s, u)
  BY DEF heap
<1>3. Calls' /\ \A o : Inserting(o) => Inserting(o)'
  BY <1>1, <1>2, CallsKept DEF IInv, Typed, heap
<1>4. LoginKept' /\ OwnEntry'
  BY <1>1, <1>3, KeptBy DEF IInv, Typed, heap
<1>5. Typed' /\ Owned' /\ Unshared'
  BY DEF IInv, Typed, net, heap, Owned, Unshared
<1> QED
  BY <1>3, <1>4, <1>5 DEF IInv

(* irc_sessions loses the session. *)
LEMMA EraseInv ==
  ASSUME SessionsAssumption, IInv, NEW t \in Threads, Erase(t)
  PROVE  IInv'
<1>1. sessions' \subseteq sessions /\ UNCHANGED <<net, heap, entry, kicked>> /\ pc[t] # "insert"
  BY DEF Erase, At
<1>2. CASE sess[t] \in sessions
  <2>1. Begins(t, "forget", conn[t], sess[t], user[t])
    BY <1>2, GoesBegins DEF Erase
  <2>2. sess[t] # 0 /\ sess[t] \notin sessions'
    BY <1>2 DEF Erase, IInv, Typed
  <2>3. Fits(made, logins, sessions', t, "forget", conn[t], sess[t], user[t])
    BY <2>2, Fitting DEF Fits, Places, Working
  <2> QED
    BY <1>1, <2>1, <2>3, GoneInv
<1>3. CASE sess[t] \notin sessions /\ t = Selector
  <2>1. Begins(t, "close", conn[t], sess[t], user[t])
    BY <1>3, GoesBegins DEF Erase, Erased, GoesOrEnds
  <2>2. Fits(made, logins, sessions', t, "close", conn[t], sess[t], user[t])
    BY <1>3, Fitting DEF Fits, Places, Working
  <2> QED
    BY <1>1, <2>1, <2>2, GoneInv
<1>4. CASE sess[t] \notin sessions /\ t # Selector
  <2>1. Begins(t, "idle", None, 0, 0)
    BY <1>4 DEF Erase, Erased, GoesOrEnds, Ends
  <2>2. Fits(made, logins, sessions', t, "idle", None, 0, 0)
    BY FitsIdle DEF IInv, Typed
  <2> QED
    BY <1>1, <2>1, <2>2, GoneInv
<1> QED
  BY <1>2, <1>3, <1>4

(* An element of made changes, its user stays. *)
LEMMA MadeStays ==
  ASSUME IInv, NEW s \in 1..Len(made), NEW e \in Records, e.user = made[s].user,
         made' = [made EXCEPT ![s] = e]
  PROVE  made' \in Seq(Records) /\ Len(made') = Len(made) /\ SessionsStay
<1>1. made \in Seq(Records) /\ Len(made) \in Nat
  BY DEF IInv, Typed
<1>2. made' \in Seq(Records) /\ Len(made') = Len(made)
  BY <1>1, SeqExcept
<1>3. \A r \in 1..Len(made) : made'[r].user = made[r].user
  BY <1>1
<1> QED
  BY <1>1, <1>2, <1>3 DEF SessionsStay

(* An element of logins changes, its user and its mark stay. *)
LEMMA LoginsKept ==
  ASSUME IInv, NEW o \in 1..Len(logins), NEW e \in Objects, e.id = logins[o].id,
         logins[o].erased => e.erased, logins' = [logins EXCEPT ![o] = e]
  PROVE  logins' \in Seq(Objects) /\ Len(logins') = Len(logins) /\ LoginsStay
<1>1. logins \in Seq(Objects) /\ Len(logins) \in Nat
  BY DEF IInv, Typed
<1>2. logins' \in Seq(Objects) /\ Len(logins') = Len(logins)
  BY <1>1, SeqExcept
<1>3. logins'[o] = e /\ \A r \in 1..Len(logins) : r # o => logins'[r] = logins[r]
  BY <1>1
<1> QED
  BY <1>1, <1>2, <1>3 DEF LoginsStay

(* The heap changes so, no thread moves or one does. *)
LEMMA HeapInv ==
  ASSUME SessionsAssumption, IInv, UNCHANGED <<sent, key, sessions, entry, kicked>>,
         made' \in Seq(Records), Len(made') = Len(made), SessionsStay,
         logins' \in Seq(Objects), Len(logins') = Len(logins), LoginsStay,
         line' \in [Conns -> {"new", "open", "closed"}],
         Calls', \A o : Inserting(o) => Inserting(o)'
  PROVE  IInv'
<1>1. LoginKept' /\ OwnEntry'
  BY KeptBy
<1>2. Typed'
  BY DEF IInv, Typed
<1>3. Owned' /\ Unshared'
  BY DEF IInv, Owned, Unshared, SessionsStay
<1> QED
  BY <1>1, <1>2, <1>3 DEF IInv

(* The same, and one thread moves. *)
LEMMA HeapMoveInv ==
  ASSUME SessionsAssumption, IInv, UNCHANGED <<sent, key, sessions, entry, kicked>>,
         made' \in Seq(Records), Len(made') = Len(made), SessionsStay,
         logins' \in Seq(Objects), Len(logins') = Len(logins), LoginsStay,
         line' \in [Conns -> {"new", "open", "closed"}],
         NEW t \in Threads, pc[t] # "insert", NEW w, NEW c, NEW s, NEW u,
         Begins(t, w, c, s, u), Fits(made', logins', sessions', t, w, c, s, u)
  PROVE  IInv'
<1>1. NoneBack /\ Len(made) \in Nat
  BY DEF NoneBack, IInv, Typed
<1>2. Calls' /\ \A o : Inserting(o) => Inserting(o)'
  BY <1>1, CallsKept
<1> QED
  BY <1>2, HeapInv

(* A handler goes on with what it has. *)
LEMMA FitsOn ==
  ASSUME SessionsAssumption, IInv, NEW h \in Handlers,
         UNCHANGED sessions, made' \in Seq(Records), Len(made') = Len(made),
         logins' \in Seq(Objects), Len(logins') = Len(logins),
         pc[h] \in Working, NEW w \in {"check", "login", "erase"}
  PROVE  Fits(made', logins', sessions', h, w, conn[h], sess[h], user[h])
BY Fitting DEF Fits, Places, Working, Threads

(* A mark only adds to a login. *)
LEMMA MarkedStay ==
  ASSUME IInv, NEW o \in 1..Len(logins), logins' = MarkedLogins(o)
  PROVE  logins' \in Seq(Objects) /\ Len(logins') = Len(logins) /\ LoginsStay
<1>1. logins[o] \in Objects
  BY DEF IInv, Typed
<1>2. [id |-> logins[o].id, sock |-> logins[o].sock, erased |-> TRUE] \in Objects
  BY <1>1 DEF Objects
<1> QED
  BY <1>2, LoginsKept DEF MarkedLogins

(* What does not change stays. *)
LEMMA Unchanged ==
  ASSUME IInv
  PROVE  /\ UNCHANGED made => made' \in Seq(Records) /\ Len(made') = Len(made) /\ SessionsStay
         /\ UNCHANGED logins => logins' \in Seq(Objects) /\ Len(logins') = Len(logins) /\ LoginsStay
         /\ UNCHANGED line => line' \in [Conns -> {"new", "open", "closed"}]
BY DEF IInv, Typed, SessionsStay, LoginsStay

(* QUIT marks the login. *)
LEMMA RunQuitInv ==
  ASSUME SessionsAssumption, IInv, NEW h \in Handlers, RunQuit(h)
  PROVE  IInv'
<1>1. UNCHANGED <<line, sent, key, made, sessions, entry, kicked>> /\ pc[h] = "run"
  BY DEF RunQuit, net, At
<1>2. h \in Threads /\ user[h] \in 0..Len(logins) /\ Len(logins) \in Nat
  BY Fitting DEF Fits, Threads
<1>3. logins' \in Seq(Objects) /\ Len(logins') = Len(logins) /\ LoginsStay
  BY <1>2, MarkedStay, Unchanged DEF RunQuit
<1>4. Begins(h, "erase", conn[h], sess[h], user[h])
  BY <1>2, GoesBegins DEF RunQuit
<1>5. made' \in Seq(Records) /\ Len(made') = Len(made) /\ SessionsStay
      /\ line' \in [Conns -> {"new", "open", "closed"}]
  BY <1>1, Unchanged
<1>6. Fits(made', logins', sessions', h, "erase", conn[h], sess[h], user[h])
  BY <1>1, <1>3, <1>5, FitsOn DEF Working
<1> QED
  BY <1>1, <1>2, <1>3, <1>4, <1>5, <1>6, HeapMoveInv

(* NICK, PASS and USER. *)
LEMMA RunCredentialInv ==
  ASSUME SessionsAssumption, IInv, NEW h \in Handlers, NEW x \in Credentials,
         RunCredential(h, x)
  PROVE  IInv'
<1>1. UNCHANGED <<line, sent, key, logins, sessions, entry, kicked>> /\ pc[h] = "run"
  BY DEF RunCredential, net, At
<1>2. h \in Threads /\ sess[h] \in 1..Len(made)
  BY <1>1, Fitting DEF Threads, Working
<1>3. made[sess[h]] \in Records
  BY <1>2 DEF IInv, Typed
<1>4. made' \in Seq(Records) /\ Len(made') = Len(made) /\ SessionsStay
  BY <1>2, <1>3, MadeStays DEF RunCredential, Records
<1>5. logins' \in Seq(Objects) /\ Len(logins') = Len(logins) /\ LoginsStay
      /\ line' \in [Conns -> {"new", "open", "closed"}]
  BY <1>1, Unchanged
<1>6. CASE user[h] = 0
  <2>1. Begins(h, "check", conn[h], sess[h], user[h])
    BY <1>2, <1>6, GoesBegins DEF RunCredential, GoesOrEnds
  <2>2. Fits(made', logins', sessions', h, "check", conn[h], sess[h], user[h])
    BY <1>1, <1>4, <1>5, FitsOn DEF Working
  <2> QED
    BY <1>1, <1>2, <1>4, <1>5, <2>1, <2>2, HeapMoveInv
<1>7. CASE user[h] # 0
  <2>1. Begins(h, "idle", None, 0, 0)
    BY <1>7 DEF RunCredential, GoesOrEnds, Ends
  <2>2. Fits(made', logins', sessions', h, "idle", None, 0, 0)
    BY <1>2, <1>4, <1>5, FitsIdle
  <2> QED
    BY <1>1, <1>2, <1>4, <1>5, <2>1, <2>2, HeapMoveInv
<1> QED
  BY <1>6, <1>7

(* The session loses its connection. *)
LEMMA BanInv ==
  ASSUME SessionsAssumption, IInv, NEW h \in Handlers, Ban(h)
  PROVE  IInv'
<1>1. UNCHANGED <<line, sent, key, logins, sessions, entry, kicked>> /\ pc[h] = "verify"
  BY DEF Ban, net, At
<1>2. h \in Threads /\ sess[h] \in 1..Len(made)
  BY <1>1, Fitting DEF Threads, Working
<1>3. made[sess[h]] \in Records
  BY <1>2 DEF IInv, Typed
<1>4. made' \in Seq(Records) /\ Len(made') = Len(made) /\ SessionsStay
  BY <1>2, <1>3, MadeStays DEF Ban, Records
<1>5. logins' \in Seq(Objects) /\ Len(logins') = Len(logins) /\ LoginsStay
      /\ line' \in [Conns -> {"new", "open", "closed"}]
  BY <1>1, Unchanged
<1>6. Begins(h, "erase", conn[h], sess[h], user[h])
  BY <1>2, GoesBegins DEF Ban
<1>7. Fits(made', logins', sessions', h, "erase", conn[h], sess[h], user[h])
  BY <1>1, <1>4, <1>5, FitsOn DEF Working
<1> QED
  BY <1>1, <1>2, <1>4, <1>5, <1>6, <1>7, HeapMoveInv

(* The login found loses its connection. *)
LEMMA DisconnectOtherInv ==
  ASSUME SessionsAssumption, IInv, NEW h \in Handlers, DisconnectOther(h)
  PROVE  IInv'
<1> DEFINE o == entry[Account[conn[h]]]
<1>1. UNCHANGED <<sent, key, made, sessions, entry, kicked>> /\ pc[h] = "verify"
  BY DEF DisconnectOther, At
<1>2. h \in Threads /\ conn[h] \in Conns
  BY <1>1, Fitting DEF Threads, Working
<1>3. o \in 0..Len(logins) /\ Len(logins) \in Nat
  BY <1>2 DEF IInv, Typed, SessionsAssumption
<1>4. /\ logins' \in Seq(Objects) /\ Len(logins') = Len(logins) /\ LoginsStay
      /\ line' \in [Conns -> {"new", "open", "closed"}]
  <2>1. CASE o = 0
    BY <2>1, Unchanged DEF DisconnectOther
  <2>2. CASE o # 0
    <3>1. logins[o] \in Objects /\ o \in 1..Len(logins)
      BY <1>3, <2>2 DEF IInv, Typed
    <3>2. [id |-> logins[o].id, sock |-> None, erased |-> logins[o].erased] \in Objects
      BY <3>1 DEF Objects
    <3>3. Close(logins[o].sock)
          /\ logins' = [logins EXCEPT ![o] =
                          [id |-> logins[o].id, sock |-> None, erased |-> logins[o].erased]]
      BY <2>2 DEF DisconnectOther
    <3> QED
      BY <3>1, <3>2, <3>3, LoginsKept, CloseTyped
  <2> QED
    BY <2>1, <2>2
<1>5. made' \in Seq(Records) /\ Len(made') = Len(made) /\ SessionsStay
  BY <1>1, Unchanged
<1>6. Begins(h, "login", conn[h], sess[h], user[h])
  BY <1>2, GoesBegins DEF DisconnectOther
<1>7. Fits(made', logins', sessions', h, "login", conn[h], sess[h], user[h])
  BY <1>1, <1>4, <1>5, FitsOn DEF Working
<1> QED
  BY <1>1, <1>2, <1>4, <1>5, <1>6, <1>7, HeapMoveInv

(* www_local_user_handle_max_inactive_time and killsession *)
LEMMA MarkInv ==
  ASSUME SessionsAssumption, IInv, NEW u \in Users, MarkInactive(u) \/ Kill(u)
  PROVE  IInv'
<1>1. UNCHANGED <<line, sent, key, made, sessions, entry, kicked, calls>> /\ entry[u] # 0
  BY DEF MarkInactive, Kill, net
<1>2. entry[u] \in 1..Len(logins) /\ logins[entry[u]].id = u
  BY <1>1 DEF IInv, Typed, OwnEntry
<1>3. logins' \in Seq(Objects) /\ Len(logins') = Len(logins) /\ LoginsStay
  <2>1. CASE MarkInactive(u)
    BY <1>2, <2>1, MarkedStay DEF MarkInactive
  <2>2. CASE Kill(u)
    <3>1. [id |-> u, sock |-> None, erased |-> TRUE] \in Objects
      BY DEF Objects
    <3> QED
      BY <1>2, <2>2, <3>1, LoginsKept DEF Kill
  <2> QED
    BY <2>1, <2>2
<1>4. made' \in Seq(Records) /\ Len(made') = Len(made) /\ SessionsStay
      /\ line' \in [Conns -> {"new", "open", "closed"}]
  BY <1>1, Unchanged
<1>5. Calls' /\ \A o : Inserting(o) => Inserting(o)'
  BY <1>1, <1>3, <1>4, CallsStay DEF NoneBack, IInv, Typed
<1> QED
  BY <1>1, <1>3, <1>4, <1>5, HeapInv
-----------------------------------------------------------------------------
(* Steps that change an entry, or make a session or a login. *)

(* Entitled in the next state, when the heap stays. *)
LEMMA EntitledBefore ==
  ASSUME IInv, UNCHANGED <<made, logins>>, kicked \subseteq kicked',
         NEW o, Entitled(o)'
  PROVE  SoleLogin(o) /\ ~logins[o].erased /\ logins[o].id \notin kicked
BY DEF Entitled, SoleLogin

(* The entry of a user goes who has no session that is entitled to it. *)
LEMMA EntryGoneInv ==
  ASSUME SessionsAssumption, IInv, UNCHANGED <<net, made, logins, sessions>>,
         NEW u, entry' = [entry EXCEPT ![u] = 0],
         kicked \subseteq kicked', kicked' \subseteq Users,
         Calls', \A o : Inserting(o) => Inserting(o)',
         \A s \in sessions : \A o \in 1..Len(logins) :
           o = made[s].user /\ Entitled(o)' => logins[o].id # u
  PROVE  IInv'
<1>0. entry' \in [Users -> 0..Len(logins)]
  <2>1. entry \in [Users -> 0..Len(logins)] /\ 0 \in 0..Len(logins)
    BY DEF IInv, Typed
  <2> QED
    BY <2>1
<1>1. Typed' /\ Owned' /\ Unshared'
  BY <1>0 DEF IInv, Typed, net, Owned, Unshared
<1>2. OwnEntry'
  BY DEF IInv, Typed, OwnEntry
<1>3. ASSUME NEW s \in sessions', NEW o, o = made'[s].user, Entitled(o)'
      PROVE  entry'[logins'[o].id] = o
  <2>1. s \in sessions /\ s \in 1..Len(made) /\ o = made[s].user /\ Len(logins) \in Nat
    BY <1>3 DEF IInv, Typed
  <2>2. o \in 1..Len(logins)
    BY <2>1, <1>3 DEF IInv, Owned, Entitled
  <2>3. logins[o].id # u
    BY <2>1, <2>2, <1>3
  <2>4. Entitled(o)
    BY <1>3, EntitledBefore DEF Entitled
  <2>5. entry[logins[o].id] = o
    BY <2>1, <2>4, KeptEntry DEF IInv
  <2>6. logins[o] \in Objects
    BY <2>2 DEF IInv, Typed
  <2>7. logins[o].id \in Users
    BY <2>6 DEF Objects
  <2> QED
    BY <2>3, <2>5, <2>7 DEF IInv, Typed
<1>4. LoginKept'
  BY <1>3 DEF LoginKept, Entitled, SoleLogin, Inserting
<1> QED
  BY <1>1, <1>2, <1>4 DEF IInv

(* The thread that has erased a session, or a key, goes on. *)
LEMMA ErasedCalls ==
  ASSUME SessionsAssumption, IInv, UNCHANGED <<made, logins, sessions>>,
         NEW t \in Threads, pc[t] # "insert", Erased(t) \/ Ends(t)
  PROVE  Calls' /\ \A o : Inserting(o) => Inserting(o)'
<1>1. LoginsStay /\ NoneBack /\ made' \in Seq(Records) /\ Len(made') >= Len(made)
      /\ logins' \in Seq(Objects)
  BY DEF IInv, Typed, LoginsStay, NoneBack
<1>2. CASE Ends(t)
  <2>1. Fits(made', logins', sessions', t, "idle", None, 0, 0)
    BY <1>1, FitsIdle
  <2> QED
    BY <1>1, <1>2, <2>1, CallsKept DEF Ends
<1>3. CASE Erased(t) /\ t = Selector
  <2>1. Begins(t, "close", conn[t], sess[t], user[t])
    BY <1>3, GoesBegins DEF Erased, GoesOrEnds
  <2>2. Fits(made', logins', sessions', t, "close", conn[t], sess[t], user[t])
    BY <1>3, Fitting DEF Fits, Places, Working, SessionsAssumption
  <2> QED
    BY <1>1, <2>1, <2>2, CallsKept
<1> QED
  BY <1>2, <1>3 DEF Erased, GoesOrEnds

(* The session erased owned its login, so nobody else loses his entry. *)
LEMMA ForgetInv ==
  ASSUME SessionsAssumption, IInv, NEW t \in Threads, Forget(t)
  PROVE  IInv'
<1>1. UNCHANGED <<net, made, logins, sessions, kicked>> /\ pc[t] = "forget" /\ Erased(t)
  BY DEF Forget, At, heap
<1>2. Calls' /\ \A o : Inserting(o) => Inserting(o)'
  BY <1>1, ErasedCalls
<1>3. sess[t] \in 1..Len(made) /\ sess[t] \notin sessions
  BY <1>1, Fitting DEF Fits
<1> DEFINE p == made[sess[t]].user
<1>4. CASE p = 0
  <2>1. entry' = entry
    BY <1>4 DEF Forget
  <2> QED
    BY <1>1, <1>2, <2>1, SameInv DEF Same, net, IInv, Typed
<1>5. CASE p # 0
  <2>1. p \in 1..Len(logins)
    BY <1>3, <1>5, Fitting DEF IInv, Owned
  <2>2. entry' = [entry EXCEPT ![logins[p].id] = 0]
    BY <1>5 DEF Forget
  <2>3. ASSUME NEW s \in sessions, NEW o \in 1..Len(logins),
               o = made[s].user, Entitled(o)'
        PROVE  logins[o].id # logins[p].id
    <3>1. SoleLogin(o)
      BY <1>1, <2>3, EntitledBefore
    <3>2. s \in 1..Len(made) /\ s # sess[t]
      BY <1>3, <2>3 DEF IInv, Typed
    <3>3. o # p
      BY <1>3, <1>5, <2>3, <3>2 DEF IInv, Unshared
    <3>4. DOMAIN logins = 1..Len(logins)
      BY DEF IInv, Typed
    <3> QED
      BY <2>1, <3>1, <3>3, <3>4 DEF SoleLogin
  <2>4. kicked' \subseteq Users
    BY <1>1 DEF IInv, Typed
  <2> QED
    BY <1>1, <1>2, <2>2, <2>3, <2>4, EntryGoneInv
<1> QED
  BY <1>4, <1>5

(* A login of the user was marked, so a sole login was. *)
LEMMA RemoveKeyInv ==
  ASSUME SessionsAssumption, IInv, RemoveKey
  PROVE  IInv'
<1>1. UNCHANGED <<net, made, logins, sessions, kicked>> /\ pc[Janitor] = "remove"
      /\ Ends(Janitor) /\ Janitor \in Threads
  BY DEF RemoveKey, At, heap, Threads
<1>2. Calls' /\ \A o : Inserting(o) => Inserting(o)'
  BY <1>1, ErasedCalls
<1>3. PICK p \in 1..Len(logins) : logins[p].id = user[Janitor] /\ logins[p].erased
  BY <1>1, Fitting DEF Fits
<1>4. ASSUME NEW s \in sessions, NEW o \in 1..Len(logins),
             o = made[s].user, Entitled(o)'
      PROVE  logins[o].id # user[Janitor]
  <2>1. SoleLogin(o) /\ ~logins[o].erased
    BY <1>1, <1>4, EntitledBefore
  <2>2. DOMAIN logins = 1..Len(logins)
    BY DEF IInv, Typed
  <2> QED
    BY <1>3, <2>1, <2>2 DEF SoleLogin
<1>5. entry' = [entry EXCEPT ![user[Janitor]] = 0] /\ kicked' \subseteq Users
  BY <1>1 DEF RemoveKey, IInv, Typed
<1> QED
  BY <1>1, <1>2, <1>4, <1>5, EntryGoneInv

(* Who loses his entry was kicked. *)
LEMMA KickInv ==
  ASSUME SessionsAssumption, IInv, NEW u \in Users, Kick(u)
  PROVE  IInv'
<1>1. UNCHANGED <<net, made, logins, sessions, calls>> /\ kicked' = kicked \cup {u}
      /\ entry' = [entry EXCEPT ![u] = 0]
  BY DEF Kick, heap
<1>2. Calls' /\ \A o : Inserting(o) => Inserting(o)'
  BY <1>1, CallsStay DEF LoginsStay, NoneBack, IInv, Typed
<1>3. \A s \in sessions : \A o \in 1..Len(logins) :
        o = made[s].user /\ Entitled(o)' => logins[o].id # u
  BY <1>1 DEF Entitled
<1>4. kicked' \subseteq Users
  BY <1>1 DEF IInv, Typed
<1> QED
  BY <1>1, <1>2, <1>3, <1>4, EntryGoneInv

(* Take makes a session without a login. *)
LEMMA TakeInv ==
  ASSUME SessionsAssumption, IInv, NEW h \in Handlers, NEW c \in Conns, Take(h, c)
  PROVE  IInv'
<1>1. UNCHANGED <<line, key, logins, entry, kicked>> /\ pc[h] = "idle" /\ h \in Threads
      /\ sent' = [sent EXCEPT ![c] = sent[c] + 1]
  BY DEF Take, At, Threads
<1>2. Len(made) \in Nat /\ Len(logins) \in Nat /\ made \in Seq(Records)
      /\ sent' \in [Conns -> Nat] /\ key[c] \in 0..Len(made)
  BY <1>1 DEF IInv, Typed
<1>3. logins' \in Seq(Objects) /\ Len(logins') = Len(logins) /\ LoginsStay
      /\ line' \in [Conns -> {"new", "open", "closed"}]
  BY <1>1, Unchanged
<1>4. CASE key[c] \in sessions
  <2>1. UNCHANGED <<made, sessions>> /\ Begins(h, "run", c, key[c], made[key[c]].user)
    BY <1>4 DEF Take
  <2>2. made[key[c]].user \in 0..Len(logins) /\ key[c] \in 1..Len(made)
    BY <1>4 DEF IInv, Typed, Owned
  <2>3. Fits(made, logins, sessions, h, "run", c, key[c], made[key[c]].user)
    BY <2>2 DEF Fits, Places, Working
  <2> QED
    BY <1>1, <1>2, <1>3, <2>1, <2>3, MoveInv DEF Same, IInv, Typed
<1>5. CASE key[c] \notin sessions
  <2>0. PICK n : n = Len(made) + 1
    OBVIOUS
  <2>1. /\ made' = Append(made, NewSession(c)) /\ sessions' = sessions \cup {n}
        /\ Begins(h, "key", c, n, 0)
    BY <1>5, <2>0 DEF Take
  <2>2. NewSession(c) \in Records /\ NewSession(c).user = 0
    BY DEF NewSession, Records
  <2>3. made' \in Seq(Records) /\ Len(made') = n /\ made'[n] = NewSession(c)
        /\ \A s \in 1..Len(made) : made'[s] = made[s]
    BY <1>2, <2>0, <2>1, <2>2, SeqAppend
  <2>4. n \in Nat /\ n > Len(made) /\ 1..n = 1..Len(made) \cup {n} /\ n \notin 1..Len(made)
    BY <1>2, <2>0
  <2>5. SessionsStay /\ NoneBack
    BY <2>1, <2>3, <2>4 DEF SessionsStay, NoneBack
  <2>6. Fits(made', logins', sessions', h, "key", c, n, 0)
    BY <1>2, <1>3, <2>3, <2>4 DEF Fits, Places, Working
  <2>7. Calls' /\ \A o : Inserting(o) => Inserting(o)'
    <3>1. Len(made') >= Len(made) /\ pc[h] # "insert"
      BY <1>1, <1>2, <2>3, <2>4
    <3> QED
      BY <1>1, <1>3, <2>1, <2>3, <2>5, <2>6, <3>1, CallsKept
  <2>8. LoginKept' /\ OwnEntry'
    <3>1. \A s \in sessions' : s \in sessions \/ made'[s].user = 0
      BY <2>1, <2>2, <2>3
    <3> QED
      BY <1>1, <1>3, <2>3, <2>5, <2>7, <3>1, KeptBy
  <2>9. Typed'
    <3>1. sessions' \subseteq 1..Len(made') /\ key' \in [Conns -> 0..Len(made')]
      <4>1. sessions \subseteq 1..Len(made) /\ key \in [Conns -> 0..Len(made)]
        BY DEF IInv, Typed
      <4>2. 0..Len(made) \subseteq 0..n
        BY <1>2, <2>4
      <4> QED
        BY <1>1, <2>1, <2>3, <2>4, <4>1, <4>2
    <3> QED
      BY <1>1, <1>2, <1>3, <2>3, <3>1 DEF IInv, Typed
  <2>10. \A s \in 1..n :
           IF s = n THEN made'[s].user = 0
           ELSE s \in 1..Len(made) /\ made'[s].user = made[s].user
    BY <2>2, <2>3, <2>4
  <2>11. Owned'
    BY <1>1, <1>2, <2>3, <2>10 DEF IInv, Owned
  <2>12. Unshared'
    BY <2>3, <2>10 DEF IInv, Unshared
  <2> QED
    BY <2>7, <2>8, <2>9, <2>11, <2>12 DEF IInv
<1> QED
  BY <1>4, <1>5

(* LogIn makes a login, whose user is not in local_users yet. *)
LEMMA LogInInv ==
  ASSUME SessionsAssumption, IInv, NEW h \in Handlers, LogIn(h)
  PROVE  IInv'
<1> DEFINE c == conn[h]
           s == sess[h]
           n == Len(logins) + 1
           e == [sock |-> c, user |-> n, entered |-> made[s].entered]
           l == NewLogin(Account[c], c)
<1>1. UNCHANGED <<line, sent, key, sessions, entry, kicked>> /\ pc[h] = "login"
      /\ h \in Threads
  BY DEF LogIn, At, net, Threads
<1>2. c \in Conns /\ s \in 1..Len(made) /\ Len(made) \in Nat /\ Len(logins) \in Nat
  BY <1>1, Fitting DEF Working
<1>3. made' = [made EXCEPT ![s] = e] /\ logins' = Append(logins, l)
      /\ Begins(h, "insert", c, s, n)
  BY DEF LogIn
<1>4. made \in Seq(Records) /\ logins \in Seq(Objects) /\ made[s] \in Records
  BY <1>2 DEF IInv, Typed
<1>5. e \in Records /\ l \in Objects /\ l.erased = FALSE
  BY <1>2, <1>4 DEF Records, Objects, NewLogin, SessionsAssumption
<1>6. made' \in Seq(Records) /\ Len(made') = Len(made)
      /\ made'[s] = e /\ \A r \in 1..Len(made) : r # s => made'[r] = made[r]
  BY <1>2, <1>3, <1>4, <1>5, SeqExcept
<1>7. logins' \in Seq(Objects) /\ Len(logins') = n /\ logins'[n] = l
      /\ \A o \in 1..Len(logins) : logins'[o] = logins[o]
  BY <1>3, <1>4, <1>5, SeqAppend
<1> HIDE DEF e, l
<1>8. LoginsStay /\ NoneBack
  BY <1>1, <1>2, <1>7 DEF LoginsStay, NoneBack
<1>9. Fits(made', logins', sessions', h, "insert", c, s, n)
  BY <1>2, <1>6, <1>7 DEF Fits, Places, Working
<1>10. Calls' /\ \A o : Inserting(o) => Inserting(o)'
  <2>1. Len(made') >= Len(made) /\ pc[h] # "insert"
    BY <1>1, <1>2, <1>6
  <2> QED
    BY <1>1, <1>3, <1>6, <1>7, <1>8, <1>9, <2>1, CallsKept
<1>11. Typed'
  BY <1>1, <1>2, <1>6, <1>7 DEF IInv, Typed
<1>12. e.user = n
  BY DEF e
<1>13. Owned' /\ Unshared'
  <2>1. \A r \in 1..Len(made) :
          IF r = s THEN made'[r].user = n ELSE made'[r].user = made[r].user
    BY <1>6, <1>12
  <2>2. \A r \in 1..Len(made) : made[r].user \in 0..Len(logins)
    BY DEF IInv, Owned
  <2>3. Owned'
    BY <1>2, <1>6, <1>7, <2>1, <2>2 DEF Owned
  <2>4. \A r \in 1..Len(made) : made[r].user # n
    BY <1>2, <2>2
  <2>5. Unshared'
    BY <1>2, <1>6, <2>1, <2>4 DEF IInv, Unshared
  <2> QED
    BY <2>3, <2>5
<1>14. OwnEntry'
  <2>1. \A u \in Users : entry[u] # 0 => entry[u] \in 1..Len(logins)
    BY <1>2 DEF IInv, Typed
  <2> QED
    BY <1>1, <1>7, <2>1 DEF IInv, OwnEntry
<1>15. ASSUME NEW r \in sessions', NEW o, o = made'[r].user, Entitled(o)'
       PROVE  entry'[logins'[o].id] = o
  <2>1. r \in sessions /\ r \in 1..Len(made)
    BY <1>1 DEF IInv, Typed
  <2>2. CASE r = s
    <3>1. o = n
      BY <1>6, <1>12, <1>15, <2>2
    <3>2. At(h, "insert")' /\ user'[h] = n
      BY <1>1, <1>3 DEF Begins, At, IInv, Calls
    <3> QED
      BY <3>1, <3>2, <1>15 DEF Entitled, Inserting
  <2>3. CASE r # s
    <3>1. o = made[r].user
      BY <1>6, <1>15, <2>1, <2>3
    <3>2. o \in 1..Len(logins)
      BY <1>2, <1>15, <2>1, <3>1 DEF IInv, Owned, Entitled
    <3>3. logins'[o] = logins[o]
      BY <1>7, <3>2
    <3>4. SoleLogin(o)
      <4>1. DOMAIN logins = 1..Len(logins) /\ DOMAIN logins' = 1..n
        BY <1>4, <1>7
      <4> QED
        BY <1>2, <1>7, <1>15, <3>3, <4>1 DEF Entitled, SoleLogin
    <3>5. Entitled(o)
      BY <1>1, <1>10, <1>15, <3>3, <3>4 DEF Entitled
    <3>6. entry[logins[o].id] = o
      BY <2>1, <3>1, <3>5, KeptEntry DEF IInv
    <3> QED
      BY <1>1, <3>3, <3>6
  <2> QED
    BY <2>2, <2>3
<1>16. LoginKept'
  BY <1>15 DEF LoginKept, Entitled, SoleLogin, Inserting
<1> QED
  BY <1>10, <1>11, <1>13, <1>14, <1>16 DEF IInv

(* InsertUser gives the login its entry, if no other login has it. *)
LEMMA InsertUserInv ==
  ASSUME SessionsAssumption, IInv, NEW h \in Handlers, InsertUser(h)
  PROVE  IInv'
<1> DEFINE p == user[h]
           k == logins[p].id
<1>1. UNCHANGED <<line, sent, key, made, logins, sessions, kicked>>
      /\ pc[h] = "insert" /\ h \in Threads
  BY DEF InsertUser, At, net, heap, Threads
<1>2. p \in 1..Len(logins) /\ Len(logins) \in Nat /\ DOMAIN logins = 1..Len(logins)
  BY <1>1, Fitting DEF Fits, IInv, Typed
<1>3. k \in Users
  <2>1. logins[p] \in Objects
    BY <1>2 DEF IInv, Typed
  <2> QED
    BY <2>1 DEF Objects
<1>4. entry' = [entry EXCEPT ![k] = IF entry[k] = 0 THEN p ELSE entry[k]]
  BY DEF InsertUser
<1>5. Begins(h, "idle", None, 0, 0)
  BY DEF InsertUser, Ends
<1> HIDE DEF p, k
<1>6. LoginsStay /\ NoneBack
  BY <1>1, <1>2 DEF LoginsStay, NoneBack
<1>7. made' \in Seq(Records) /\ Len(made') >= Len(made) /\ logins' \in Seq(Objects)
  BY <1>1 DEF IInv, Typed
<1>8. Calls'
  <2>1. Fits(made', logins', sessions', h, "idle", None, 0, 0)
    BY <1>1, <1>7, FitsIdle
  <2> QED
    BY <1>1, <1>5, <1>6, <1>7, <2>1, CallsKept
<1>9. entry \in [Users -> 0..Len(logins)] /\ p \in 0..Len(logins)
  BY <1>2 DEF IInv, Typed
<1>10. entry' \in [Users -> 0..Len(logins)]
  BY <1>3, <1>4, <1>9
<1>11. Typed' /\ Owned' /\ Unshared'
  BY <1>1, <1>10 DEF IInv, Typed, Owned, Unshared
<1>12. entry'[k] = (IF entry[k] = 0 THEN p ELSE entry[k])
       /\ \A u \in Users : u # k => entry'[u] = entry[u]
  BY <1>3, <1>4, <1>9
<1>13. logins[p].id = k
  BY DEF k
<1>14. OwnEntry'
  BY <1>1, <1>12, <1>13 DEF IInv, OwnEntry
<1>15. ASSUME NEW s \in sessions', NEW o, o = made'[s].user, Entitled(o)'
       PROVE  entry'[logins'[o].id] = o
  <2>1. s \in sessions /\ s \in 1..Len(made) /\ o = made[s].user
    BY <1>1, <1>15 DEF IInv, Typed
  <2>2. o \in 1..Len(logins)
    BY <1>2, <1>15, <2>1 DEF IInv, Owned, Entitled
  <2>3. SoleLogin(o) /\ ~logins[o].erased /\ logins[o].id \notin kicked /\ o # 0
    BY <1>1, <1>15, EntitledBefore DEF Entitled
  <2>4. logins[o].id \in Users
    <3>1. logins[o] \in Objects
      BY <2>2 DEF IInv, Typed
    <3> QED
      BY <3>1 DEF Objects
  <2>5. CASE o = p
    <3>1. entry[k] # 0 => entry[k] \in 1..Len(logins) /\ logins[entry[k]].id = k
      BY <1>2, <1>3, <1>9 DEF IInv, OwnEntry
    <3>2. entry[k] # 0 => entry[k] = p
      BY <1>2, <1>13, <2>3, <2>5, <3>1 DEF SoleLogin
    <3> QED
      BY <1>1, <1>12, <1>13, <2>5, <3>2
  <2>6. CASE o # p
    <3>1. ~Inserting(o)
      <4> SUFFICES ASSUME NEW g \in Handlers, pc[g] = "insert", user[g] = o
                   PROVE  FALSE
        BY DEF Inserting, At
      <4>1. g # h
        BY <2>6 DEF p
      <4>2. pc'[g] = pc[g] /\ user'[g] = user[g]
        BY <1>5, <4>1 DEF Begins, IInv, Calls, Threads
      <4>3. Inserting(o)'
        BY <4>2 DEF Inserting, At
      <4> QED
        BY <1>15, <4>3 DEF Entitled
    <3>2. entry[logins[o].id] = o
      BY <2>1, <2>3, <3>1, KeptEntry DEF IInv, Entitled
    <3>3. logins[o].id # k
      BY <1>2, <1>13, <2>3, <2>6 DEF SoleLogin
    <3> QED
      BY <1>1, <1>12, <2>4, <3>2, <3>3
  <2> QED
    BY <2>5, <2>6
<1>16. LoginKept'
  BY <1>15 DEF LoginKept, Entitled, SoleLogin, Inserting
<1> QED
  BY <1>8, <1>11, <1>14, <1>16 DEF IInv
-----------------------------------------------------------------------------
(* Every step keeps the invariant. *)
LEMMA NextInv == SessionsAssumption /\ IInv /\ [Next]_vars => IInv'
<1> SUFFICES ASSUME SessionsAssumption, IInv, [Next]_vars PROVE IInv'
  OBVIOUS
<1>1. ASSUME NEW c \in Conns, Connect(c) \/ Disconnect(c) \/ OnDelete(c) PROVE IInv'
  BY <1>1, ConnectInv, OnDeleteInv
<1>2. ASSUME NEW h \in Handlers, Command(h) PROVE IInv'
  <2>1. h \in Threads
    BY DEF Threads
  <2> QED
    BY <1>2, <2>1, SteersInv, RunQuitInv, RunCredentialInv, BanInv, DisconnectOtherInv,
       LogInInv, InsertUserInv, EraseInv, ForgetInv DEF Command
<1>3. ASSUME NEW h \in Handlers, NEW c \in Conns, Take(h, c) PROVE IInv'
  BY <1>3, TakeInv
<1>4. CASE SelectorRuns
  BY <1>4, EraseInv, ForgetInv, CloseLostInv DEF SelectorRuns, Threads
<1>5. CASE JanitorRuns
  <2>1. CASE Erase(Janitor) \/ Forget(Janitor) \/ RemoveKey
    BY <2>1, EraseInv, ForgetInv, RemoveKeyInv DEF Threads
  <2>2. CASE \E s \in sessions : EraseDead(s) \/ EraseSilent(s) \/ EraseUnknown(s)
    BY <2>2, FromJanitorInv DEF EraseDead, EraseSilent, EraseUnknown
  <2>3. CASE \E u \in Users : MarkInactive(u) \/ FindMarked(u)
    BY <2>3, FromJanitorInv, MarkInv
  <2> QED
    BY <1>5, <2>1, <2>2, <2>3 DEF JanitorRuns
<1>6. ASSUME NEW u \in Users, Kick(u) \/ Kill(u) PROVE IInv'
  BY <1>6, KickInv, MarkInv
<1>7. CASE UNCHANGED vars
  <2>1. Same /\ UNCHANGED <<calls, line, sent, key>>
    BY <1>7 DEF vars, net, heap, Same
  <2>2. LoginsStay /\ NoneBack
    BY <2>1 DEF IInv, Typed, Same, LoginsStay, NoneBack
  <2>3. Calls' /\ \A o : Inserting(o) => Inserting(o)'
    BY <2>1, <2>2, CallsStay DEF IInv, Typed, Same
  <2> QED
    BY <2>1, <2>3, SameInv DEF IInv, Typed
<1> QED
  BY <1>1, <1>2, <1>3, <1>4, <1>5, <1>6, <1>7 DEF Next

(* The invariant holds always. *)
LEMMA AlwaysInv == Spec => []IInv
BY InitInv, NextInv, SessionsAssumption, PTL DEF Spec

(* Every variable has its type: no user of a session, and no entry of       *)
(* local_users, outlives the chat_user it points to.                       *)
THEOREM SessionsTyped == Spec => []TypeOK
<1>1. IInv => TypeOK
  <2> SUFFICES ASSUME IInv PROVE TypeOK
    OBVIOUS
  <2>1. made \in Seq([sock : Conns \cup {None}, user : 0..Len(logins),
                      entered : SUBSET Credentials])
    <3>1. made \in Seq(Records) /\ Len(made) \in Nat
      BY DEF IInv, Typed
    <3>2. ASSUME NEW s \in 1..Len(made)
          PROVE  made[s] \in [sock : Conns \cup {None}, user : 0..Len(logins),
                              entered : SUBSET Credentials]
      <4>1. made[s] \in Records
        BY <3>1
      <4>2. made[s].user \in 0..Len(logins)
        BY DEF IInv, Owned
      <4> QED
        BY <4>1, <4>2 DEF Records
    <3>3. made \in [1..Len(made) -> [sock : Conns \cup {None}, user : 0..Len(logins),
                                     entered : SUBSET Credentials]]
      BY <3>1, <3>2
    <3> QED
      BY <3>1, <3>3, SeqOf
  <2>2. /\ pc \in [Threads -> Places] /\ conn \in [Threads -> Conns \cup {None}]
        /\ sess \in [Threads -> 0..Len(made)]
        /\ \A h \in Handlers : user[h] \in 0..Len(logins)
    BY DEF IInv, Calls, Fits, Threads
  <2> QED
    BY <2>1, <2>2 DEF IInv, Typed, TypeOK, Objects
<1> QED
  BY <1>1, AlwaysInv, PTL

(* A user with an IRC session is in local_users, whatever sessions and      *)
(* entries the selector, the main thread and the handlers erase meanwhile,  *)
(* unless he was marked, was kicked or has logged in a second time.        *)
THEOREM LoginsKeepEntries == Spec => []LoginKept
BY AlwaysInv, PTL DEF IInv
==============================================================================
