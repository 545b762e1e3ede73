-------------------------- MODULE Presence_proofs --------------------------
(***************************************************************************)
(* What holds of ChatThread for every set of users, rooms and threads and   *)
(* every number of calls; and then of GlobalState, the class that holds the *)
(* state they share, for every set of users and rooms.                      *)
(***************************************************************************)
EXTENDS ChatThread, GlobalState, SequenceTheorems, TLAPS

(* The fields of an event, by its type. *)
LEMMA EventFields ==
  ASSUME NEW e \in Events
  PROVE  /\ e.user \in Users
         /\ e.type \in {"join", "rejoin"} => e.ct \in CT /\ e.chan \in Channels
         /\ e.type = "part" => e.ct \in CT /\ e.chans \in SUBSET Channels
         /\ e.type = "messages" => e.chan \in Channels
         /\ e.type = "voice" => e.target \in Users
  BY SMT DEF Events, Join, Rejoin, Part, Kick, Flush, Command, ChatMessages, Voice

(* The fields of a call, by its kind. *)
LEMMA CallFields ==
  ASSUME NEW k \in Calls, k # Idle
  PROVE  /\ k.user \in Users
         /\ k.op = "login" => k.ct \in CT
         /\ k.op = "part" => /\ k.ct \in CT /\ k.chans \in SUBSET Channels
                             /\ k.logout \in BOOLEAN
         /\ k.op = "store" => k.chan \in Channels /\ k.us \in ChannelUs
         /\ k.op \in {"join", "messages"} => k.chan \in Channels
  BY SMT DEF Calls, Idle, PartGlobal, LogIn, SetNick, CleanupChannels, EnterStore, EnterJoin,
             EnterMessages

(* The operations of user_state make states out of states. *)
LEMMA StateOperations ==
  ASSUME NEW us \in ChannelUs, NEW ct \in CT, NEW c \in Channels,
         NEW chans \in SUBSET Channels
  PROVE  /\ Joined(us, ct, c) \in ChannelUs
         /\ PartChannels(us, chans, ct) \in ChannelUs
         /\ WwwChannelReplace(us, c) \in ChannelUs
  BY DEF ChannelUs, Joined, PartChannels, WwwChannelReplace, ChannelAdd, CT, WWW, IRC

(* normalize_user_channels keeps the indexes well formed. *)
LEMMA NormalizeTypes ==
  ASSUME usersIn \subseteq Channels \X Users,
         localIn \subseteq Channels \X Users \X CT,
         NEW u \in Users, NEW ct \in CT, NEW us, NEW cl,
         NormalizeUserChannels(u, ct, us, cl)
  PROVE  /\ usersIn' \subseteq Channels \X Users
         /\ localIn' \subseteq Channels \X Users \X CT
         /\ orphans' \subseteq localIn'
<1> DEFINE missing == Missing(u, ct, us, cl)
           reached == {c \in Channels : \A m \in missing : c <= m}
           before  == {c \in Channels : \A m \in missing : c < m}
           rooms_  == GetChannel(us, ct)
           all     == ExportChannels(us)
<1>1. /\ usersIn' = {p \in usersIn : p[2] # u \/ p[1] \notin reached}
                       \cup {<<c, u>> : c \in reached \cap all}
      /\ localIn' = {p \in localIn : p[2] # u \/ p[3] # ct \/ p[1] \notin before}
                       \cup {<<c, u, ct>> : c \in before \cap rooms_}
      /\ orphans' = orphans \cap localIn'
  BY DEF NormalizeUserChannels
<1>2. reached \subseteq Channels /\ before \subseteq Channels
  OBVIOUS
<1> HIDE DEF reached, before, rooms_, all
<1>3. usersIn' \subseteq Channels \X Users
  BY <1>1, <1>2
<1>4. localIn' \subseteq Channels \X Users \X CT
  BY <1>1, <1>2
<1> QED
  BY <1>1, <1>3, <1>4

(* The events and the calls the network threads make.  *)
LEMMA EventTypes ==
  ASSUME NEW u \in Users, NEW ct \in CT, NEW c \in Channels,
         NEW chans \in SUBSET Channels, NEW cmd \in Commands
  PROVE  {Join(u, ct, c), Rejoin(u, ct, c), Part(u, ct, chans), Kick(u), Flush(u),
          Command(u, cmd), ChatMessages(u, c)} \subseteq Events
  BY DEF Events

(* The calls are calls. *)
LEMMA CallTypes ==
  ASSUME NEW u \in Users, NEW ct \in CT, NEW c \in Channels,
         NEW chans \in SUBSET Channels, NEW b \in BOOLEAN, NEW us \in ChannelUs
  PROVE  {Idle, PartGlobal(u, ct, chans, b), LogIn(u, ct), SetNick(u),
          CleanupChannels(u), EnterStore(u, c, us), EnterJoin(u, c),
          EnterMessages(u, c)}
            \subseteq Calls
  BY DEF Calls

(* Pushing an event keeps a queue of events. *)
LEMMA PushTypes ==
  ASSUME queue \in Seq(Events), NEW e \in Events, Push(e)
  PROVE  queue' \in Seq(Events)
  BY DEF Push

(* Asking keeps what is asked. *)
LEMMA AskTypes ==
  ASSUME asked \in [Users -> [CT -> Asked]], NEW u \in Users, NEW cts,
         NEW what \in Asked, Ask(u, cts, what)
  PROVE  asked' \in [Users -> [CT -> Asked]]
  BY DEF Ask

(* A leave that is asked for: the event, the rest of the call, the wish. *)
LEMMA AskToPartTypes ==
  ASSUME TypeOK, NEW t \in Threads, NEW u \in Users, NEW ct \in CT,
         NEW chans \in SUBSET Channels, NEW b \in BOOLEAN,
         AskToPart(t, u, ct, chans, b)
  PROVE  /\ queue' \in Seq(Events)
         /\ call' \in [Threads -> Calls]
         /\ asked' \in [Users -> [CT -> Asked]]
<1>1. Part(u, ct, chans) \in Events
  BY DEF Events
<1>2. queue' \in Seq(Events)
  BY <1>1, PushTypes DEF AskToPart, TypeOK
<1>3. PartGlobal(u, ct, chans, b) \in Calls
  BY DEF Calls
<1>4. call' \in [Threads -> Calls]
  BY <1>3 DEF AskToPart, TypeOK
<1>5. AskedOut \in Asked /\ AskedMaybe \in Asked
  BY DEF Asked
<1>6. asked' \in [Users -> [CT -> Asked]]
  <2>1. \E what \in Asked : Ask(u, {ct}, what)
    BY <1>5 DEF AskToPart
  <2> QED
    BY <2>1, AskTypes DEF TypeOK
<1> QED
  BY <1>2, <1>4, <1>6

(* A join keeps the types of the chat thread's state. *)
LEMMA JoinTypes ==
  ASSUME TypeOK, NEW u \in Users, NEW ct \in CT, NEW c \in Channels, NEW cl,
         JoinFixLists(u, ct, c, cl)
  PROVE  /\ state' \in [Users -> ChannelUs] /\ global' \in [Users -> ChannelUs]
         /\ usersIn' \subseteq Channels \X Users
         /\ localIn' \subseteq Channels \X Users \X CT
         /\ orphans' \subseteq localIn'
         /\ joinTime' \subseteq Users /\ trash' \subseteq Users
<1> DEFINE us == Joined(state[u], ct, c)
<1>1. us \in ChannelUs
  BY StateOperations DEF TypeOK
<1>2. /\ state' = [state EXCEPT ![u] = us] /\ global' = [global EXCEPT ![u] = us]
      /\ NormalizeUserChannels(u, ct, us, cl)
      /\ HandleStatTCount(u, us)
  BY DEF JoinFixLists
<1> HIDE DEF us
<1>3. state' \in [Users -> ChannelUs] /\ global' \in [Users -> ChannelUs]
  BY <1>1, <1>2 DEF TypeOK
<1>4. /\ usersIn' \subseteq Channels \X Users
      /\ localIn' \subseteq Channels \X Users \X CT
      /\ orphans' \subseteq localIn'
  BY <1>2, NormalizeTypes DEF TypeOK
<1>5. joinTime' \subseteq Users /\ trash' \subseteq Users
  BY <1>2 DEF HandleStatTCount, TypeOK
<1> QED
  BY <1>3, <1>4, <1>5

(* Unloading a user keeps the types. *)
LEMMA UnloadTypes ==
  ASSUME TypeOK, NEW u \in Users, UnloadUser(u)
  PROVE  /\ loaded' \subseteq Users /\ flushed' \subseteq Users
         /\ state' \in [Users -> ChannelUs] /\ global' \in [Users -> ChannelUs]
<1>1. {} \in ChannelUs
  BY DEF ChannelUs
<1> QED
  BY <1>1 DEF UnloadUser, TypeOK

(* The handled event and the rest of the batch. *)
LEMMA TakeTypes ==
  ASSUME TypeOK, NEW type, Take(type)
  PROVE  /\ Head(batch) \in Events /\ Head(batch).type = type
         /\ batch' \in Seq(Events) /\ pc' = pc
         /\ call' = call /\ links' = links /\ made' = made
  BY DEF Take, TypeOK, network

(* Every variable of the rooms, of the queue and of the calls keeps its     *)
(* type, and an orphan stays one of the connections some room holds.        *)
THEOREM TypeCorrect == Spec => []TypeOK
<1>1. Init => TypeOK
  <2> SUFFICES ASSUME Init PROVE TypeOK
    OBVIOUS
  <2>1. {} \in ChannelUs /\ Idle \in Calls /\ Nothing \in Asked
    BY DEF ChannelUs, Calls, Asked
  <2>2. 0 \in 0 .. MaxCalls
    BY MaxCallsAssumption
  <2> QED
    BY <2>1, <2>2 DEF Init, TypeOK
<1>2. TypeOK /\ [Next]_vars => TypeOK'
  <2> SUFFICES ASSUME TypeOK, [Next]_vars PROVE TypeOK'
    OBVIOUS
  <2> USE DEF TypeOK
  <2>1. ASSUME NEW t \in Threads, Begin(t) PROVE made' \in 0 .. MaxCalls
    BY <2>1, MaxCallsAssumption DEF Begin
  <2>2. ASSUME NEW t \in Threads, NEW u \in Users, LogInWww(t, u) \/ LogInIrc(t, u)
        PROVE TypeOK'
    <3>1. Flush(u) \in Events /\ AskedMaybe \in Asked
      BY DEF Events, Asked
    <3>2. queue' \in Seq(Events)
      BY <2>2, <3>1, PushTypes DEF LogInWww, LogInIrc
    <3>3. asked' \in [Users -> [CT -> Asked]]
      BY <2>2, <3>1, AskTypes DEF LogInWww, LogInIrc
    <3>4. LogIn(u, WWW) \in Calls /\ LogIn(u, IRC) \in Calls
      BY DEF Calls, CT
    <3>5. call' \in [Threads -> Calls]
      BY <2>2, <3>4 DEF LogInWww, LogInIrc
    <3>6. links' \subseteq Users \X {"up", "lost"}
      BY <2>2 DEF LogInWww, LogInIrc
    <3> QED
      BY <2>1, <2>2, <3>2, <3>3, <3>5, <3>6 DEF LogInWww, LogInIrc, rooms
  <2>3. ASSUME NEW t \in Threads, NEW u \in Users, LeaveWww(t, u) \/ KilledLeaves(t, u)
        PROVE TypeOK'
    BY <2>1, <2>3, AskToPartTypes DEF LeaveWww, KilledLeaves, rooms, CT
  <2>4. ASSUME NEW t \in Threads, NEW u \in Users, NEW c \in Channels,
               IrcPart(t, u, c)
        PROVE TypeOK'
    <3>1. {c} \in SUBSET Channels
      OBVIOUS
    <3> QED
      BY <2>1, <2>4, <3>1, AskToPartTypes DEF IrcPart, rooms, CT
  <2>5. ASSUME NEW t \in Threads, NEW l \in links, IrcDisconnect(t, l) PROVE TypeOK'
    <3>1. l[1] \in Users /\ links' \subseteq links
      BY <2>5 DEF IrcDisconnect
    <3> QED
      BY <2>1, <2>5, <3>1, AskToPartTypes DEF IrcDisconnect, rooms, CT
  <2>6. ASSUME NEW t \in Threads, PartReturns(t) PROVE TypeOK'
    <3> DEFINE p == call[t]
    <3>1. /\ p.user \in Users /\ p.ct \in CT /\ p.chans \in SUBSET Channels
      BY <2>6, CallFields DEF PartReturns, Idle
    <3>2. PartChannels(global[p.user], p.chans, p.ct) \in ChannelUs
      BY <3>1 DEF ChannelUs, PartChannels
    <3>3. global' \in [Users -> ChannelUs]
      BY <2>6, <3>1, <3>2 DEF PartReturns
    <3>4. sessions' \subseteq Users \X CT
      BY <2>6 DEF PartReturns
    <3>5. Idle \in Calls
      BY DEF Calls
    <3>6. call' \in [Threads -> Calls]
      BY <2>6, <3>5 DEF PartReturns
    <3> QED
      BY <2>6, <3>3, <3>4, <3>6 DEF PartReturns, rooms, history
  <2>7. ASSUME NEW t \in Threads, NEW u \in Users, Inactive(t, u) PROVE TypeOK'
    <3>1. CleanupChannels(u) \in Calls
      BY DEF Calls
    <3> QED
      BY <2>1, <2>7, <3>1 DEF Inactive, rooms, history
  <2>8. ASSUME NEW t \in Threads, InactiveLeaves(t) PROVE TypeOK'
    <3> DEFINE u == call[t].user
    <3>1. u \in Users
      BY <2>8, CallFields DEF InactiveLeaves, Idle
    <3>2. /\ queue' \in Seq(Events)
          /\ call' \in [Threads -> Calls]
          /\ asked' \in [Users -> [CT -> Asked]]
      <4>1. CASE global[u] # {}
        BY <2>8, <3>1, <4>1, AskToPartTypes DEF InactiveLeaves, CT
      <4>2. CASE global[u] = {}
        <5>1. Idle \in Calls
          BY DEF Calls
        <5> QED
          BY <2>8, <4>2, <5>1 DEF InactiveLeaves, history
      <4> QED
        BY <4>1, <4>2
    <3>3. flushed' = flushed /\ voicers' = voicers
      BY <2>8 DEF InactiveLeaves, history
    <3> QED
      BY <2>8, <3>2, <3>3 DEF InactiveLeaves, rooms
  <2>9. ASSUME NEW t \in Threads, NEW u \in Users, NEW c \in Channels,
               EnterReads(t, u, c)
        PROVE TypeOK'
    <3>1. EnterStore(u, c, global[u]) \in Calls
      BY DEF Calls
    <3> QED
      BY <2>1, <2>9, <3>1 DEF EnterReads, shared, rooms, history
  <2>10. ASSUME NEW t \in Threads, EnterStores(t) PROVE TypeOK'
    <3> DEFINE e == call[t]
    <3>1. e.user \in Users /\ e.chan \in Channels /\ e.us \in ChannelUs
      BY <2>10, CallFields DEF EnterStores, Idle
    <3>2. WwwChannelReplace(e.us, e.chan) \in ChannelUs
      BY <3>1 DEF ChannelUs, WwwChannelReplace, CT
    <3>3. EnterJoin(e.user, e.chan) \in Calls
      BY <3>1 DEF Calls
    <3>4. global' \in [Users -> ChannelUs] /\ call' \in [Threads -> Calls]
      BY <2>10, <3>1, <3>2, <3>3 DEF EnterStores
    <3> QED
      BY <2>10, <3>4 DEF EnterStores, rooms, history
  <2>11. ASSUME NEW t \in Threads, EnterJoins(t) PROVE TypeOK'
    <3> DEFINE e == call[t]
    <3>1. e.user \in Users /\ e.chan \in Channels
      BY <2>11, CallFields DEF EnterJoins, Idle
    <3>2. Join(e.user, WWW, e.chan) \in Events
      BY <3>1 DEF Events, CT
    <3>3. AskedIn(e.chan) \in Asked
      BY <3>1 DEF Asked
    <3>4. EnterMessages(e.user, e.chan) \in Calls
      BY <3>1 DEF Calls
    <3>5. queue' \in Seq(Events)
      BY <2>11, <3>2, PushTypes DEF EnterJoins
    <3>6. asked' \in [Users -> [CT -> Asked]]
      BY <2>11, <3>1, <3>3, AskTypes DEF EnterJoins
    <3>7. call' \in [Threads -> Calls]
      BY <2>11, <3>4 DEF EnterJoins
    <3> QED
      BY <2>11, <3>5, <3>6, <3>7 DEF EnterJoins, rooms
  <2>12. ASSUME NEW t \in Threads, EnterAsksPage(t) PROVE TypeOK'
    <3> DEFINE e == call[t]
    <3>1. e.user \in Users /\ e.chan \in Channels
      BY <2>12, CallFields DEF EnterAsksPage, Idle
    <3>2. ChatMessages(e.user, e.chan) \in Events
      BY <3>1 DEF Events
    <3>3. queue' \in Seq(Events)
      BY <2>12, <3>2, PushTypes DEF EnterAsksPage
    <3>4. Idle \in Calls
      BY DEF Calls
    <3>5. call' \in [Threads -> Calls]
      BY <2>12, <3>4 DEF EnterAsksPage
    <3> QED
      BY <2>12, <3>3, <3>5 DEF EnterAsksPage, rooms, history
  <2>13. ASSUME NEW t \in Threads, NEW u \in Users, NEW c \in Channels,
                IrcJoin(t, u, c)
         PROVE TypeOK'
    <3>1. Join(u, IRC, c) \in Events /\ AskedIn(c) \in Asked
      BY DEF Events, Asked, CT
    <3>2. queue' \in Seq(Events)
      BY <2>13, <3>1, PushTypes DEF IrcJoin
    <3>3. asked' \in [Users -> [CT -> Asked]]
      BY <2>13, <3>1, AskTypes DEF IrcJoin
    <3> QED
      BY <2>1, <2>13, <3>2, <3>3 DEF IrcJoin, rooms
  <2>14. ASSUME NEW t \in Threads, NEW u \in Users, AdminKick(t, u) PROVE TypeOK'
    <3>1. Kick(u) \in Events /\ AskedOut \in Asked /\ AskedMaybe \in Asked
      BY DEF Events, Asked
    <3>2. queue' \in Seq(Events)
      BY <2>14, <3>1, PushTypes DEF AdminKick
    <3>3. asked' \in [Users -> [CT -> Asked]]
      BY <2>14, <3>1 DEF AdminKick
    <3> QED
      BY <2>1, <2>14, <3>2, <3>3 DEF AdminKick, rooms
  <2>15. ASSUME NEW t \in Threads, LogInReturns(t) \/ LogInSetsNick(t) PROVE TypeOK'
    <3> DEFINE l == call[t]
    <3>1. l.user \in Users /\ (l.op = "login" => l.ct \in CT)
      BY <2>15, CallFields DEF LogInReturns, LogInSetsNick, Idle
    <3>2. Idle \in Calls /\ SetNick(l.user) \in Calls
      BY <3>1 DEF Calls
    <3>3. call' \in [Threads -> Calls]
      BY <2>15, <3>2 DEF LogInReturns, LogInSetsNick
    <3>4. CASE LogInReturns(t)
      <4>1. sessions' \subseteq Users \X CT /\ links' \subseteq Users \X {"up", "lost"}
        BY <3>1, <3>4 DEF LogInReturns
      <4> QED
        BY <3>3, <3>4, <4>1 DEF LogInReturns, rooms, history
    <3>5. CASE LogInSetsNick(t)
      <4>1. Command(l.user, "nick") \in Events
        BY <3>1 DEF Events, Commands
      <4>2. queue' \in Seq(Events)
        BY <3>5, <4>1, PushTypes DEF LogInSetsNick
      <4> QED
        BY <3>3, <3>5, <4>2 DEF LogInSetsNick, rooms, history
    <3> QED
      BY <2>15, <3>4, <3>5
  <2>16. ASSUME NEW t \in Threads, NEW u \in Users, NEW cmd \in Commands,
                SendCommand(t, u, cmd)
         PROVE TypeOK'
    <3>1. Command(u, cmd) \in Events
      BY DEF Events
    <3>2. queue' \in Seq(Events)
      BY <2>16, <3>1, PushTypes DEF SendCommand
    <3> QED
      BY <2>1, <2>16, <3>2 DEF SendCommand, rooms, history
  <2>17. CASE ExtractAll
    BY <2>17 DEF ExtractAll, rooms, network, history
  <2>18. CASE HandleJoin
    <3> DEFINE e  == Head(batch)
               cl == clients \cup {<<e.user, e.ct>>}
    <3>1. e \in Events /\ e.type = "join" /\ batch' \in Seq(Events)
      BY <2>18, TakeTypes DEF HandleJoin
    <3>2. e.user \in Users /\ e.ct \in CT /\ e.chan \in Channels
      BY <3>1, EventFields
    <3>3. Rejoin(e.user, e.ct, e.chan) \in Events
      BY <3>2 DEF Events
    <3>4. queue' \in Seq(Events)
      BY <2>18, <3>3, PushTypes DEF HandleJoin
    <3>5. JoinFixLists(e.user, e.ct, e.chan, cl) /\ clients' = cl
          /\ loaded' = loaded \cup {e.user} /\ Take("join")
          /\ UNCHANGED <<sessions, history>>
      BY <2>18 DEF HandleJoin
    <3>6. clients' \subseteq Users \X CT /\ loaded' \subseteq Users
      BY <3>2, <3>5
    <3> HIDE DEF cl
    <3> QED
      BY <3>1, <3>2, <3>4, <3>5, <3>6, JoinTypes, TakeTypes DEF history
  <2>19. CASE HandleRejoin
    <3> DEFINE e == Head(batch)
    <3>1. e \in Events /\ e.type = "rejoin" /\ batch' \in Seq(Events)
      BY <2>19, TakeTypes DEF HandleRejoin
    <3>2. e.user \in Users /\ e.ct \in CT /\ e.chan \in Channels
      BY <3>1, EventFields
    <3>3. JoinFixLists(e.user, e.ct, e.chan, clients)
          /\ loaded' = loaded \cup {e.user} /\ Take("rejoin")
          /\ UNCHANGED <<queue, sessions, clients, history>>
      BY <2>19 DEF HandleRejoin
    <3> QED
      BY <3>1, <3>2, <3>3, JoinTypes, TakeTypes DEF history
  <2>20. CASE HandlePart
    <3> DEFINE e  == Head(batch)
               us == PartChannels(state[e.user], e.chans, e.ct)
    <3>1. e \in Events /\ e.type = "part" /\ batch' \in Seq(Events)
      BY <2>20, TakeTypes DEF HandlePart
    <3>2. e.user \in Users /\ e.ct \in CT /\ e.chans \in SUBSET Channels
      BY <3>1, EventFields
    <3>3. us \in ChannelUs
      BY <3>2 DEF ChannelUs, PartChannels
    <3>4. /\ Take("part") /\ loaded' = loaded \cup {e.user}
          /\ state' = [state EXCEPT ![e.user] = us]
          /\ global' = [global EXCEPT ![e.user] = us]
          /\ NormalizeUserChannels(e.user, e.ct, us, clients)
          /\ HandleStatTCount(e.user, us)
          /\ UNCHANGED <<queue, sessions, clients, history>>
      BY <2>20 DEF HandlePart
    <3> HIDE DEF us
    <3>5. state' \in [Users -> ChannelUs] /\ global' \in [Users -> ChannelUs]
      BY <3>3, <3>4
    <3>6. /\ usersIn' \subseteq Channels \X Users
          /\ localIn' \subseteq Channels \X Users \X CT
          /\ orphans' \subseteq localIn'
      BY <3>2, <3>4, NormalizeTypes
    <3>7. joinTime' \subseteq Users /\ trash' \subseteq Users
      BY <3>2, <3>4 DEF HandleStatTCount
    <3> QED
      BY <3>1, <3>2, <3>4, <3>5, <3>6, <3>7, TakeTypes DEF history
  <2>21. CASE HandleKick
    <3>1. {} \in ChannelUs
      BY DEF ChannelUs
    <3> QED
      BY <2>21, <3>1, TakeTypes DEF HandleKick
  <2>22. CASE HandleFlush
    <3>1. Head(batch).user \in Users
      BY <2>22, TakeTypes, EventFields DEF HandleFlush
    <3> QED
      BY <2>22, <3>1, TakeTypes, UnloadTypes DEF HandleFlush
  <2>23. CASE HandleCommand
    <3>1. Head(batch).user \in Users
      BY <2>23, TakeTypes, EventFields DEF HandleCommand
    <3>2. joinTime' \subseteq Users /\ trash' \subseteq Users
      BY <2>23, <3>1 DEF HandleCommand, HandleStatTCount
    <3>3. global' \in [Users -> ChannelUs]
      BY <2>23, <3>1 DEF HandleCommand
    <3> QED
      BY <2>23, <3>1, <3>2, <3>3, TakeTypes DEF HandleCommand, history
  <2>24. CASE HandleChatMessages
    <3> DEFINE u == Head(batch).user
    <3>1. u \in Users
      BY <2>24, TakeTypes, EventFields DEF HandleChatMessages
    <3>2. joinTime' \subseteq Users /\ trash' \subseteq Users
      BY <2>24, <3>1 DEF HandleChatMessages, HandleStatTCount
    <3>3. global' \in [Users -> ChannelUs]
      BY <2>24, <3>1 DEF HandleChatMessages
    <3>4. clients' \subseteq Users \X CT /\ loaded' \subseteq Users
      BY <2>24, <3>1 DEF HandleChatMessages, CT
    <3> QED
      BY <2>24, <3>2, <3>3, <3>4, TakeTypes DEF HandleChatMessages, history
  <2>25. CASE BatchDone
    BY <2>25 DEF BatchDone, shared, rooms, network, history
  <2>26. CASE UpdateContactLists
    <3>1. usersIn' \subseteq Channels \X Users
      BY <2>26 DEF UpdateContactLists, ExportChannels
    <3> QED
      BY <2>26, <3>1 DEF UpdateContactLists, shared, network, history
  <2>27. CASE SkipContactLists
    BY <2>27 DEF SkipContactLists, shared, rooms, network, history
  <2>28. CASE CleanLocalClients
    BY <2>28 DEF CleanLocalClients, shared, network, history
  <2>29. ASSUME NEW u \in Users, EmptyTrash(u) PROVE TypeOK'
    BY <2>29, UnloadTypes DEF EmptyTrash, network
  <2>30. CASE UNCHANGED vars
    BY <2>30 DEF vars, shared, rooms, network, history
  <2>31. ASSUME NEW t \in Threads, NEW u \in Users, NEW z \in Users,
                ChangeVoice(t, u, z)
         PROVE TypeOK'
    <3>1. Voice(u, z) \in Events
      BY DEF Events
    <3>2. queue' \in Seq(Events)
      BY <2>31, <3>1, PushTypes DEF ChangeVoice
    <3> QED
      BY <2>1, <2>31, <3>2 DEF ChangeVoice, rooms, history
  <2>32. CASE HandleVoice
    <3> DEFINE e == Head(batch)
    <3>1. e.user \in Users /\ e.target \in Users
      BY <2>32, TakeTypes, EventFields DEF HandleVoice
    <3>2. global' \in [Users -> ChannelUs]
      BY <2>32, <3>1 DEF HandleVoice
    <3>3. loaded' \subseteq Users /\ voicers' \subseteq Users
      BY <2>32, <3>1 DEF HandleVoice
    <3> QED
      BY <2>32, <3>2, <3>3, TakeTypes DEF HandleVoice
  <2>33. CASE Network
    BY <2>33, <2>2, <2>3, <2>4, <2>5, <2>6, <2>7, <2>8, <2>9, <2>10, <2>11, <2>12,
       <2>13, <2>14, <2>15, <2>16, <2>31 DEF Network
  <2> QED
    BY <2>17, <2>18, <2>19, <2>20, <2>21, <2>22, <2>23, <2>24, <2>25,
       <2>26, <2>27, <2>28, <2>29, <2>30, <2>32, <2>33
       DEF Next, ChatLoop, Handle, Housekeeping
<1> QED
  BY <1>1, <1>2, PTL DEF Spec

-----------------------------------------------------------------------------
(* What a network thread does to the queue.                                 *)
LEMMA NetworkQueue ==
  ASSUME TypeOK, Network
  PROVE  /\ UNCHANGED <<rooms, batch, pc, flushed>>
         /\ queue' = queue \/ \E e \in Events :
                                 e.type # "rejoin" /\ queue' = Append(queue, e)
<1> DEFINE pushes(e) == e \in Events /\ e.type # "rejoin" /\ Push(e)
<1>1. ASSUME NEW t \in Threads, NEW u \in Users, NEW ct \in CT,
             NEW chans \in SUBSET Channels, NEW b, AskToPart(t, u, ct, chans, b)
      PROVE  pushes(Part(u, ct, chans))
  <2>1. Part(u, ct, chans) \in Events
    BY DEF Events
  <2>2. Part(u, ct, chans).type = "part"
    BY DEF Part
  <2>3. Push(Part(u, ct, chans))
    BY <1>1 DEF AskToPart
  <2> QED
    BY <2>1, <2>2, <2>3
<1>2. ASSUME NEW t \in Threads, LogInReturns(t) \/ PartReturns(t) \/ EnterStores(t)
      PROVE  UNCHANGED <<rooms, batch, pc, flushed, queue>>
  BY <1>2 DEF LogInReturns, PartReturns, EnterStores, history
<1>3. ASSUME NEW t \in Threads, InactiveLeaves(t)
      PROVE  /\ UNCHANGED <<rooms, batch, pc, flushed>>
             /\ queue' = queue \/ \E e : pushes(e)
  <2>1. call[t].user \in Users
    BY <1>3, CallFields DEF InactiveLeaves, TypeOK, Idle
  <2>2. UNCHANGED <<rooms, batch, pc, flushed>>
    BY <1>3 DEF InactiveLeaves, history
  <2>3. queue' = queue \/ AskToPart(t, call[t].user, WWW, {}, FALSE)
    BY <1>3 DEF InactiveLeaves
  <2>4. WWW \in CT /\ {} \in SUBSET Channels
    BY DEF CT
  <2> HIDE DEF pushes
  <2> QED
    BY <1>1, <2>1, <2>2, <2>3, <2>4
<1>4. ASSUME NEW t \in Threads, EnterJoins(t)
      PROVE  /\ UNCHANGED <<rooms, batch, pc, flushed>>
             /\ \E e : pushes(e)
  <2>1. call[t].user \in Users /\ call[t].chan \in Channels
    BY <1>4, CallFields DEF EnterJoins, TypeOK, Idle
  <2>2. pushes(Join(call[t].user, WWW, call[t].chan))
    BY <1>4, <2>1 DEF EnterJoins, Join, Events, CT
  <2> QED
    BY <1>4, <2>2 DEF EnterJoins
<1>5. ASSUME NEW t \in Threads, EnterAsksPage(t)
      PROVE  /\ UNCHANGED <<rooms, batch, pc, flushed>>
             /\ \E e : pushes(e)
  <2>1. call[t].user \in Users /\ call[t].chan \in Channels
    BY <1>5, CallFields DEF EnterAsksPage, TypeOK, Idle
  <2>2. pushes(ChatMessages(call[t].user, call[t].chan))
    BY <1>5, <2>1 DEF EnterAsksPage, ChatMessages, Events
  <2> QED
    BY <1>5, <2>2 DEF EnterAsksPage, history
<1>6. ASSUME NEW t \in Threads, NEW u \in Users,
             \/ LeaveWww(t, u) \/ KilledLeaves(t, u)
             \/ \E l \in links : l[1] = u /\ IrcDisconnect(t, l)
      PROVE  /\ UNCHANGED <<rooms, batch, pc, flushed>>
             /\ \E e : pushes(e)
  <2>1. {} \in SUBSET Channels /\ WWW \in CT /\ IRC \in CT
    BY DEF CT
  <2>2. \/ AskToPart(t, u, WWW, {}, FALSE)
        \/ AskToPart(t, u, WWW, {}, TRUE)
        \/ AskToPart(t, u, IRC, {}, TRUE)
    BY <1>6 DEF LeaveWww, KilledLeaves, IrcDisconnect
  <2>3. UNCHANGED <<rooms, batch, pc, flushed>>
    BY <1>6 DEF LeaveWww, KilledLeaves, IrcDisconnect
  <2> HIDE DEF pushes
  <2> QED
    BY <1>1, <2>1, <2>2, <2>3
<1>7. ASSUME NEW t \in Threads, NEW u \in Users, NEW c \in Channels, IrcPart(t, u, c)
      PROVE  /\ UNCHANGED <<rooms, batch, pc, flushed>>
             /\ \E e : pushes(e)
  <2>1. {c} \in SUBSET Channels /\ IRC \in CT
    BY DEF CT
  <2> HIDE DEF pushes
  <2> QED
    BY <1>1, <1>7, <2>1 DEF IrcPart
<1>8. ASSUME NEW t \in Threads, NEW u \in Users,
             \/ AdminKick(t, u) \/ LogInWww(t, u) \/ LogInIrc(t, u)
             \/ \E cmd \in Commands : SendCommand(t, u, cmd)
             \/ \E z \in Users : ChangeVoice(t, u, z)
      PROVE  /\ UNCHANGED <<rooms, batch, pc, flushed>>
             /\ \E e : pushes(e)
  <2>1. CASE AdminKick(t, u)
    <3>1. pushes(Kick(u))
      BY <2>1 DEF AdminKick, Kick, Events
    <3> QED
      BY <2>1, <3>1 DEF AdminKick
  <2>2. CASE LogInWww(t, u) \/ LogInIrc(t, u)
    <3>1. pushes(Flush(u))
      BY <2>2 DEF LogInWww, LogInIrc, Flush, Events
    <3> QED
      BY <2>2, <3>1 DEF LogInWww, LogInIrc
  <2>3. ASSUME NEW cmd \in Commands, SendCommand(t, u, cmd)
        PROVE  /\ UNCHANGED <<rooms, batch, pc, flushed>>
               /\ \E e : pushes(e)
    <3>1. pushes(Command(u, cmd))
      BY <2>3 DEF SendCommand, Command, Events
    <3> QED
      BY <2>3, <3>1 DEF SendCommand, history
  <2>4. ASSUME NEW z \in Users, ChangeVoice(t, u, z)
        PROVE  /\ UNCHANGED <<rooms, batch, pc, flushed>>
               /\ \E e : pushes(e)
    <3>1. pushes(Voice(u, z))
      BY <2>4 DEF ChangeVoice, Voice, Events
    <3> QED
      BY <2>4, <3>1 DEF ChangeVoice, history
  <2> QED
    BY <1>8, <2>1, <2>2, <2>3, <2>4
<1>9. ASSUME NEW t \in Threads, NEW u \in Users, NEW c \in Channels, IrcJoin(t, u, c)
      PROVE  /\ UNCHANGED <<rooms, batch, pc, flushed>>
             /\ \E e : pushes(e)
  <2>1. pushes(Join(u, IRC, c))
    BY <1>9 DEF IrcJoin, Join, Events, CT
  <2> QED
    BY <1>9, <2>1 DEF IrcJoin
<1>10. ASSUME NEW t \in Threads, NEW u \in Users, NEW c \in Channels, EnterReads(t, u, c)
       PROVE  UNCHANGED <<rooms, batch, pc, flushed, queue>>
  BY <1>10 DEF EnterReads, shared, history
<1>11. ASSUME NEW t \in Threads, NEW u \in Users, Inactive(t, u)
       PROVE  UNCHANGED <<rooms, batch, pc, flushed, queue>>
  BY <1>11 DEF Inactive, history
<1>12. ASSUME NEW t \in Threads, LogInSetsNick(t)
       PROVE  /\ UNCHANGED <<rooms, batch, pc, flushed>>
              /\ \E e : pushes(e)
  <2>1. call[t].user \in Users
    BY <1>12, CallFields DEF LogInSetsNick, TypeOK, Idle
  <2>2. pushes(Command(call[t].user, "nick"))
    BY <1>12, <2>1 DEF LogInSetsNick, Command, Commands, Events
  <2> QED
    BY <1>12, <2>2 DEF LogInSetsNick, history
<1>13. /\ UNCHANGED <<rooms, batch, pc, flushed>>
       /\ queue' = queue \/ \E e : pushes(e)
  <2>1. \A l \in links : l[1] \in Users
    BY DEF TypeOK
  <2> HIDE DEF pushes
  <2> QED
    BY <2>1, <1>2, <1>3, <1>4, <1>5, <1>6, <1>7, <1>8, <1>9, <1>10, <1>11, <1>12
       DEF Network
<1> QED
  BY <1>13 DEF Push

-----------------------------------------------------------------------------
(* Presence: a step of the chat thread that changes the rooms of a user     *)
(* books the change in join_time and trash, or makes them empty.            *)
LEMMA PresenceStep ==
  ASSUME TypeOK, [Next]_vars
  PROVE  \/ UNCHANGED <<state, joinTime, trash>>
         \/ \E u \in Users, us \in ChannelUs :
              state' = [state EXCEPT ![u] = us] /\ HandleStatTCount(u, us)
         \/ \E u \in Users :
              /\ state' = [state EXCEPT ![u] = {}] \/ state' = state
              /\ joinTime' = joinTime /\ trash' \subseteq trash
<1> DEFINE same   == UNCHANGED <<state, joinTime, trash>>
           booked == \E u \in Users, us \in ChannelUs :
                       state' = [state EXCEPT ![u] = us] /\ HandleStatTCount(u, us)
           gone   == \E u \in Users :
                       /\ state' = [state EXCEPT ![u] = {}] \/ state' = state
                       /\ joinTime' = joinTime /\ trash' \subseteq trash
<1>1. CASE Network
  <2>1. UNCHANGED rooms
    BY <1>1, NetworkQueue
  <2> QED
    BY <2>1 DEF rooms
<1>3. CASE ExtractAll \/ BatchDone \/ SkipContactLists
  BY <1>3 DEF ExtractAll, BatchDone, SkipContactLists, rooms
<1>4. CASE UpdateContactLists \/ CleanLocalClients
  BY <1>4 DEF UpdateContactLists, CleanLocalClients
<1>5. CASE UNCHANGED vars
  BY <1>5 DEF vars, rooms
<1>6. CASE HandleJoin \/ HandleRejoin
  <2> DEFINE e  == Head(batch)
             us == Joined(state[e.user], e.ct, e.chan)
  <2>1. e \in Events /\ e.type \in {"join", "rejoin"}
    BY <1>6, TakeTypes DEF HandleJoin, HandleRejoin
  <2>2. e.user \in Users /\ e.ct \in CT /\ e.chan \in Channels
    BY <2>1, EventFields
  <2>3. us \in ChannelUs
    BY <2>2, StateOperations DEF TypeOK
  <2>4. state' = [state EXCEPT ![e.user] = us] /\ HandleStatTCount(e.user, us)
    BY <1>6 DEF HandleJoin, HandleRejoin, JoinFixLists
  <2> HIDE DEF us
  <2>5. booked
    BY <2>2, <2>3, <2>4
  <2> QED
    BY <2>5
<1>7. CASE HandlePart
  <2> DEFINE e  == Head(batch)
             us == PartChannels(state[e.user], e.chans, e.ct)
  <2>1. e \in Events /\ e.type = "part"
    BY <1>7, TakeTypes DEF HandlePart
  <2>2. e.user \in Users /\ e.ct \in CT /\ e.chans \in SUBSET Channels
    BY <2>1, EventFields
  <2>3. us \in ChannelUs
    BY <2>2 DEF TypeOK, ChannelUs, PartChannels
  <2>4. state' = [state EXCEPT ![e.user] = us] /\ HandleStatTCount(e.user, us)
    BY <1>7 DEF HandlePart
  <2> HIDE DEF us
  <2>5. booked
    BY <2>2, <2>3, <2>4
  <2> QED
    BY <2>5
<1>8. CASE HandleKick \/ HandleFlush
  <2>1. Head(batch).user \in Users
    BY <1>8, TakeTypes, EventFields DEF HandleKick, HandleFlush
  <2>2. gone
    BY <1>8, <2>1 DEF HandleKick, HandleFlush, UnloadUser
  <2> QED
    BY <2>2
<1>10. CASE HandleCommand \/ HandleChatMessages
  <2> DEFINE u == Head(batch).user
  <2>1. u \in Users
    BY <1>10, TakeTypes, EventFields DEF HandleCommand, HandleChatMessages
  <2>2. state' = state /\ state[u] \in ChannelUs
    BY <1>10, <2>1 DEF HandleCommand, HandleChatMessages, TypeOK
  <2>3. state' = [state EXCEPT ![u] = state[u]]
    BY <2>1, <2>2 DEF TypeOK
  <2>4. CASE UNCHANGED <<joinTime, trash>>
    BY <2>2, <2>4
  <2>5. CASE HandleStatTCount(u, state[u])
    <3>1. booked
      BY <2>1, <2>2, <2>3, <2>5
    <3> QED
      BY <3>1
  <2> QED
    BY <1>10, <2>4, <2>5 DEF HandleCommand, HandleChatMessages
<1>11. ASSUME NEW u \in Users, EmptyTrash(u) PROVE gone
  BY <1>11 DEF EmptyTrash, UnloadUser
<1>12. CASE HandleVoice
  BY <1>12 DEF HandleVoice
<1> QED
  BY <1>1, <1>3, <1>4, <1>5, <1>6, <1>7, <1>8, <1>10, <1>11, <1>12
     DEF Next, ChatLoop, Handle, Housekeeping

(* Only users who are in no room are in trash: unloading them later, when   *)
(* three hours have passed, never takes a user out of a room.               *)
THEOREM TrashAlwaysAbsent == Spec => []TrashIsAbsent
<1>1. Init => TrashIsAbsent
  BY DEF Init, TrashIsAbsent
<1>2. TypeOK /\ TrashIsAbsent /\ [Next]_vars => TrashIsAbsent'
  <2> SUFFICES ASSUME TypeOK, TrashIsAbsent, [Next]_vars PROVE TrashIsAbsent'
    OBVIOUS
  <2>1. CASE UNCHANGED <<state, joinTime, trash>>
    BY <2>1 DEF TrashIsAbsent
  <2>2. ASSUME NEW u \in Users, NEW us \in ChannelUs,
               state' = [state EXCEPT ![u] = us], HandleStatTCount(u, us)
        PROVE TrashIsAbsent'
    BY <2>2 DEF TrashIsAbsent, HandleStatTCount, TypeOK
  <2>3. ASSUME NEW u \in Users, state' = [state EXCEPT ![u] = {}] \/ state' = state,
               trash' \subseteq trash
        PROVE TrashIsAbsent'
    BY <2>3 DEF TrashIsAbsent, TypeOK
  <2> QED
    BY <2>1, <2>2, <2>3, PresenceStep
<1> QED
  BY <1>1, <1>2, TypeCorrect, PTL DEF Spec

(* Every user who is in a room has a join time, also across a kick, which   *)
(* leaves join_time alone, and the replayed join behind it.                 *)
THEOREM AlwaysJoinTimed == Spec => []JoinTimed
<1>1. Init => JoinTimed
  BY DEF Init, JoinTimed
<1>2. TypeOK /\ JoinTimed /\ [Next]_vars => JoinTimed'
  <2> SUFFICES ASSUME TypeOK, JoinTimed, [Next]_vars PROVE JoinTimed'
    OBVIOUS
  <2>1. CASE UNCHANGED <<state, joinTime, trash>>
    BY <2>1 DEF JoinTimed
  <2>2. ASSUME NEW u \in Users, NEW us \in ChannelUs,
               state' = [state EXCEPT ![u] = us], HandleStatTCount(u, us)
        PROVE JoinTimed'
    BY <2>2 DEF JoinTimed, HandleStatTCount, TypeOK
  <2>3. ASSUME NEW u \in Users, state' = [state EXCEPT ![u] = {}] \/ state' = state,
               joinTime' = joinTime
        PROVE JoinTimed'
    BY <2>3 DEF JoinTimed, TypeOK
  <2> QED
    BY <2>1, <2>2, <2>3, PresenceStep
<1> QED
  BY <1>1, <1>2, TypeCorrect, PTL DEF Spec

(* The statistics follow presence: nobody in the trash is in a room, and    *)
(* everybody in a room has a join time.                                     *)
THEOREM AlwaysStatisticsExact == Spec => []StatisticsExact
  BY TrashAlwaysAbsent, AlwaysJoinTimed, PTL DEF StatisticsExact

-----------------------------------------------------------------------------
(* Connections.  First, how the replays in a sequence of events change.     *)
LEMMA ReplaysOfTail ==
  ASSUME NEW s \in Seq(Events), s # <<>>, NEW u, NEW ct
  PROVE  Replays(Tail(s), u, ct) => Replays(s, u, ct)
  BY DEF Replays

(* A replay at the head replays. *)
LEMMA ReplaysOfHead ==
  ASSUME NEW s \in Seq(Events), s # <<>>, Head(s).type = "rejoin"
  PROVE  Replays(s, Head(s).user, Head(s).ct)
  BY DEF Replays

(* An event that is pushed replays nothing else. *)
LEMMA ReplaysOfAppend ==
  ASSUME NEW s \in Seq(Events), NEW e \in Events, NEW u, NEW ct
  PROVE  Replays(Append(s, e), u, ct) =>
           \/ Replays(s, u, ct)
           \/ e.type = "rejoin" /\ e.user = u /\ e.ct = ct
  BY DEF Replays

(* An event of the batch: what is left of the batch replays no more.        *)
LEMMA ReplaysOfTake ==
  ASSUME TypeOK, NEW type, Take(type), NEW u, NEW ct
  PROVE  Replays(batch', u, ct) => Replays(batch, u, ct)
  BY ReplaysOfTail DEF Take, TypeOK

(* What normalize_user_channels does to the connections of each client.     *)
LEMMA NormalizeConnects ==
  ASSUME TypeOK, NEW u \in Users, NEW ct \in CT, NEW us, NEW cl,
         NormalizeUserChannels(u, ct, us, cl)
  PROVE  /\ \A c \in Channels, v \in Users, t \in CT :
              v # u \/ t # ct => (<<c, v, t>> \in localIn' <=> <<c, v, t>> \in localIn)
         /\ \/ <<u, ct>> \in cl
            \/ \A c \in Channels : <<c, ct>> \in us => <<c, u, ct>> \in localIn
            => \A c \in Channels : <<c, u, ct>> \in localIn' <=> <<c, ct>> \in us
         /\ /\ <<u, ct>> \notin cl
            /\ \A c \in Channels : <<c, u, ct>> \notin localIn
            => \A c \in Channels : <<c, u, ct>> \notin localIn'
<1> DEFINE missing == Missing(u, ct, us, cl)
           before  == {c \in Channels : \A m \in missing : c < m}
           mine    == {c \in Channels : <<c, ct>> \in us}
<1>1. localIn' = {p \in localIn : p[2] # u \/ p[3] # ct \/ p[1] \notin before}
                   \cup {<<c, u, ct>> : c \in before \cap mine}
  BY DEF NormalizeUserChannels, GetChannel
<1>2. missing = {c \in mine : <<c, u, ct>> \notin localIn /\ <<u, ct>> \notin cl}
  BY DEF Missing, GetChannel
<1>3. before \subseteq Channels
  OBVIOUS
<1>4. ASSUME \/ <<u, ct>> \in cl
             \/ \A c \in Channels : <<c, ct>> \in us => <<c, u, ct>> \in localIn
      PROVE  before = Channels
  BY <1>2, <1>4
<1>5. ASSUME <<u, ct>> \notin cl, \A c \in Channels : <<c, u, ct>> \notin localIn
      PROVE  before \cap mine = {}
  <2>1. missing = mine
    BY <1>2, <1>5
  <2>2. \A c \in Channels : ~ (c < c)
    BY ChannelsAssumption
  <2> QED
    BY <2>1, <2>2
<1> HIDE DEF before
<1>6. \A c \in Channels, v \in Users, t \in CT :
        v # u \/ t # ct => (<<c, v, t>> \in localIn' <=> <<c, v, t>> \in localIn)
  BY <1>1
<1>7. \A c \in Channels :
        <<c, u, ct>> \in localIn' <=>
          \/ <<c, u, ct>> \in localIn /\ c \notin before
          \/ c \in before \cap mine
  BY <1>1
<1> QED
  BY <1>4, <1>5, <1>6, <1>7

(* A change of the rooms of a user by client type ct, followed by           *)
(* normalize_user_channels, keeps AllOrNone if his client is connected, or  *)
(* no room holds it, or no room was added.                                  *)
LEMMA ChangeKeepsAllOrNone ==
  ASSUME TypeOK, AllOrNone, NEW u \in Users, NEW ct \in CT, NEW us, NEW cl,
         state' = [state EXCEPT ![u] = us],
         NormalizeUserChannels(u, ct, us, cl),
         flushed' = flushed,
         \A c \in Channels, t \in CT \ {ct} : <<c, t>> \in us <=> <<c, t>> \in state[u],
         \/ u \in flushed
         \/ <<u, ct>> \in cl
         \/ \A c \in Channels : <<c, u, ct>> \notin localIn
         \/ \A c \in Channels : <<c, ct>> \in us => <<c, ct>> \in state[u]
  PROVE  AllOrNone'
<1> SUFFICES ASSUME NEW v \in Users \ flushed, NEW t \in CT
             PROVE \/ \A c \in Channels : <<c, v, t>> \notin localIn'
                   \/ \A c \in Channels :
                        <<c, v, t>> \in localIn' <=> <<c, t>> \in state'[v]
  BY DEF AllOrNone
<1>1. state'[v] = IF v = u THEN us ELSE state[v]
  BY DEF TypeOK
<1>2. \/ \A c \in Channels : <<c, v, t>> \notin localIn
      \/ \A c \in Channels : <<c, v, t>> \in localIn <=> <<c, t>> \in state[v]
  BY DEF AllOrNone
<1>3. CASE v # u \/ t # ct
  <2>1. \A c \in Channels : <<c, v, t>> \in localIn' <=> <<c, v, t>> \in localIn
    BY <1>3, NormalizeConnects
  <2>2. \A c \in Channels : <<c, t>> \in state'[v] <=> <<c, t>> \in state[v]
    BY <1>1, <1>3
  <2> QED
    BY <1>2, <2>1, <2>2
<1>4. CASE v = u /\ t = ct
  <2>1. CASE <<u, ct>> \in cl
    BY <1>1, <1>4, <2>1, NormalizeConnects
  <2>2. CASE <<u, ct>> \notin cl /\ \A c \in Channels : <<c, u, ct>> \notin localIn
    BY <1>4, <2>2, NormalizeConnects
  <2>3. CASE \A c \in Channels : <<c, ct>> \in us => <<c, u, ct>> \in localIn
    BY <1>1, <1>4, <2>3, NormalizeConnects
  <2> QED
    BY <1>2, <1>4, <2>1, <2>2, <2>3
<1> QED
  BY <1>3, <1>4

(* The same change keeps ReplayConnected if it adds no replay of a client   *)
(* without a connection.                                                    *)
LEMMA ChangeKeepsReplay ==
  ASSUME TypeOK, ReplayConnected, NEW u \in Users, NEW ct \in CT, NEW us, NEW cl,
         NormalizeUserChannels(u, ct, us, cl),
         flushed' = flushed, clients' = cl, clients \subseteq cl,
         \A v \in Users, t \in CT :
           /\ Replays(batch', v, t) \/ Replays(queue', v, t)
           /\ <<v, t>> \notin cl
           => Replays(batch, v, t) \/ Replays(queue, v, t)
  PROVE  ReplayConnected'
<1> SUFFICES ASSUME NEW v \in Users \ flushed, NEW t \in CT,
                    Replays(batch', v, t) \/ Replays(queue', v, t),
                    <<v, t>> \notin clients'
             PROVE \A c \in Channels : <<c, v, t>> \notin localIn'
  BY DEF ReplayConnected, Replays
<1>1. \A c \in Channels : <<c, v, t>> \notin localIn
  BY DEF ReplayConnected
<1>2. CASE v # u \/ t # ct
  BY <1>1, <1>2, NormalizeConnects
<1>3. CASE v = u /\ t = ct
  BY <1>1, <1>3, NormalizeConnects
<1> QED
  BY <1>2, <1>3

(* A step that neither touches the rooms nor queues a replay.               *)
LEMMA NoReplayQueued ==
  ASSUME TypeOK, ConnectionsInductive,
         UNCHANGED <<rooms, batch, pc, flushed>>,
         queue' = queue \/ \E e \in Events :
                             e.type # "rejoin" /\ queue' = Append(queue, e)
  PROVE  ConnectionsInductive'
<1>1. \A u \in Users, ct \in CT :
        Replays(queue', u, ct) => Replays(queue, u, ct)
  <2>1. queue \in Seq(Events)
    BY DEF TypeOK
  <2>2. CASE queue' = queue
    BY <2>2
  <2>3. ASSUME NEW e \in Events, e.type # "rejoin", queue' = Append(queue, e),
               NEW u \in Users, NEW ct \in CT, Replays(queue', u, ct)
        PROVE  Replays(queue, u, ct)
    <3>1. Replays(Append(queue, e), u, ct)
      BY <2>3
    <3> QED
      BY <2>1, <2>3, <3>1, ReplaysOfAppend
  <2> QED
    BY <2>2, <2>3
<1>2. ReplayConnected'
  <2> SUFFICES ASSUME NEW v \in Users \ flushed, NEW t \in CT,
                      Replays(batch', v, t) \/ Replays(queue', v, t),
                      <<v, t>> \notin clients'
               PROVE \A c \in Channels : <<c, v, t>> \notin localIn'
    BY DEF ReplayConnected, Replays
  <2>1. Replays(batch, v, t) \/ Replays(queue, v, t)
    BY <1>1
  <2> QED
    BY <2>1 DEF ReplayConnected, ConnectionsInductive, rooms
<1>3. AllOrNone' /\ BatchTaken'
  BY DEF ConnectionsInductive, AllOrNone, BatchTaken, rooms
<1> QED
  BY <1>2, <1>3 DEF ConnectionsInductive

(* Unloading a user, with the event taken out of the batch or without one.  *)
LEMMA UnloadKeepsConnections ==
  ASSUME TypeOK, ConnectionsInductive, NEW u \in Users, UnloadUser(u),
         UNCHANGED <<queue, clients, localIn, pc>>,
         batch' = batch \/ (batch # <<>> /\ batch' = Tail(batch)),
         pc = "batch" \/ batch' = batch
  PROVE  ConnectionsInductive'
<1>1. flushed \subseteq flushed'
  BY DEF UnloadUser
<1>2. \A v \in Users, t \in CT : Replays(batch', v, t) => Replays(batch, v, t)
  BY ReplaysOfTail DEF TypeOK
<1>3. ReplayConnected'
  <2> SUFFICES ASSUME NEW v \in Users \ flushed', NEW t \in CT,
                      Replays(batch', v, t) \/ Replays(queue', v, t),
                      <<v, t>> \notin clients'
               PROVE \A c \in Channels : <<c, v, t>> \notin localIn'
    BY DEF ReplayConnected, Replays
  <2>1. Replays(batch, v, t) \/ Replays(queue, v, t)
    BY <1>2
  <2> QED
    BY <1>1, <2>1 DEF ReplayConnected, ConnectionsInductive
<1>4. AllOrNone'
  <2> SUFFICES ASSUME NEW v \in Users \ flushed', NEW t \in CT
               PROVE \/ \A c \in Channels : <<c, v, t>> \notin localIn
                     \/ \A c \in Channels :
                          <<c, v, t>> \in localIn <=> <<c, t>> \in state'[v]
    BY DEF AllOrNone
  <2>1. state'[v] = state[v]
    BY DEF UnloadUser, TypeOK
  <2> QED
    BY <1>1, <2>1 DEF AllOrNone, ConnectionsInductive
<1>5. BatchTaken'
  BY DEF BatchTaken, ConnectionsInductive
<1> QED
  BY <1>3, <1>4, <1>5 DEF ConnectionsInductive

(* The events that leave localIn and the rooms of all users alone.          *)
LEMMA TakeKeepsConnections ==
  ASSUME TypeOK, ConnectionsInductive, NEW type, Take(type),
         UNCHANGED <<queue, state, localIn, flushed>>,
         clients \subseteq clients'
  PROVE  ConnectionsInductive'
<1>1. \A v \in Users, t \in CT : Replays(batch', v, t) => Replays(batch, v, t)
  BY ReplaysOfTake
<1>2. ReplayConnected'
  <2> SUFFICES ASSUME NEW v \in Users \ flushed, NEW t \in CT,
                      Replays(batch', v, t) \/ Replays(queue', v, t),
                      <<v, t>> \notin clients'
               PROVE \A c \in Channels : <<c, v, t>> \notin localIn'
    BY DEF ReplayConnected, Replays
  <2>1. Replays(batch, v, t) \/ Replays(queue, v, t)
    BY <1>1
  <2> QED
    BY <2>1 DEF ReplayConnected, ConnectionsInductive
<1>3. AllOrNone'
  BY DEF AllOrNone, ConnectionsInductive
<1>4. BatchTaken'
  BY DEF BatchTaken, Take
<1> QED
  BY <1>2, <1>3, <1>4 DEF ConnectionsInductive

(* Every step keeps the connections of a client in all its rooms or none.   *)
LEMMA ConnectionsStep ==
  ASSUME TypeOK, ConnectionsInductive, [Next]_vars
  PROVE  ConnectionsInductive'
<1>1. CASE Network
  BY <1>1, NetworkQueue, NoReplayQueued
<1>3. CASE UNCHANGED vars
  BY <1>3, NoReplayQueued DEF vars, shared, history
<1>4. CASE BatchDone \/ SkipContactLists
  <2>1. UNCHANGED <<rooms, queue, batch, flushed>>
    BY <1>4 DEF BatchDone, SkipContactLists, shared, history
  <2>2. BatchTaken'
    BY <1>4 DEF BatchDone, SkipContactLists, BatchTaken, ConnectionsInductive
  <2> QED
    BY <2>1, <2>2 DEF ConnectionsInductive, AllOrNone, ReplayConnected, Replays, rooms
<1>5. CASE UpdateContactLists
  <2>1. UNCHANGED <<queue, batch, flushed, localIn, state, clients>>
    BY <1>5 DEF UpdateContactLists, shared, history
  <2>2. BatchTaken'
    BY <1>5 DEF UpdateContactLists, BatchTaken, ConnectionsInductive
  <2> QED
    BY <2>1, <2>2 DEF ConnectionsInductive, AllOrNone, ReplayConnected, Replays
<1>6. CASE ExtractAll
  <2>1. /\ UNCHANGED <<flushed, localIn, state, clients>>
        /\ batch' = queue /\ queue' = <<>> /\ pc' = "batch"
    BY <1>6 DEF ExtractAll, rooms, history
  <2>2. \A v, t : ~ Replays(queue', v, t)
    BY <2>1 DEF Replays
  <2>3. \A v, t : Replays(batch', v, t) => Replays(queue, v, t)
    BY <2>1 DEF Replays
  <2>4. ReplayConnected'
    <3> SUFFICES ASSUME NEW v \in Users \ flushed, NEW t \in CT,
                        Replays(batch', v, t) \/ Replays(queue', v, t),
                        <<v, t>> \notin clients
                 PROVE \A c \in Channels : <<c, v, t>> \notin localIn
      BY <2>1 DEF ReplayConnected, Replays
    <3>1. Replays(queue, v, t)
      BY <2>2, <2>3
    <3> QED
      BY <3>1 DEF ReplayConnected, ConnectionsInductive
  <2> QED
    BY <2>1, <2>4 DEF ConnectionsInductive, AllOrNone, BatchTaken
<1>7. CASE CleanLocalClients
  <2>1. /\ UNCHANGED <<queue, batch, pc, flushed, localIn, state>>
        /\ queue = <<>> /\ pc = "tail"
    BY <1>7 DEF CleanLocalClients, shared, history
  <2>2. batch = <<>>
    BY <2>1 DEF ConnectionsInductive, BatchTaken
  <2>3. \A v, t : ~ Replays(queue', v, t) /\ ~ Replays(batch', v, t)
    BY <2>1, <2>2 DEF Replays
  <2>4. ReplayConnected'
    <3> SUFFICES ASSUME NEW v \in Users \ flushed, NEW t \in CT,
                        Replays(batch', v, t) \/ Replays(queue', v, t)
                 PROVE FALSE
      BY <2>1 DEF ReplayConnected, Replays
    <3> QED
      BY <2>3
  <2> QED
    BY <2>1, <2>4 DEF ConnectionsInductive, AllOrNone, BatchTaken
<1>8. ASSUME NEW u \in Users, EmptyTrash(u) PROVE ConnectionsInductive'
  BY <1>8, UnloadKeepsConnections DEF EmptyTrash
<1>9. CASE HandleFlush
  <2>1. Head(batch).user \in Users
    BY <1>9, TakeTypes, EventFields DEF HandleFlush
  <2> QED
    BY <1>9, <2>1, UnloadKeepsConnections DEF HandleFlush, Take
<1>10. CASE HandleCommand
  BY <1>10, TakeKeepsConnections DEF HandleCommand, history
<1>11. CASE HandleChatMessages
  BY <1>11, TakeKeepsConnections DEF HandleChatMessages, history
<1>12. CASE HandleJoin
  <2> DEFINE e  == Head(batch)
             cl == clients \cup {<<e.user, e.ct>>}
             us == Joined(state[e.user], e.ct, e.chan)
             r  == Rejoin(e.user, e.ct, e.chan)
  <2>1. e \in Events /\ e.type = "join"
    BY <1>12, TakeTypes DEF HandleJoin
  <2>2. e.user \in Users /\ e.ct \in CT /\ e.chan \in Channels
    BY <2>1, EventFields
  <2>3. /\ Take("join") /\ clients' = cl /\ queue' = Append(queue, r)
        /\ state' = [state EXCEPT ![e.user] = us]
        /\ NormalizeUserChannels(e.user, e.ct, us, cl)
        /\ flushed' = flushed
    BY <1>12 DEF HandleJoin, JoinFixLists, Push, history
  <2>4. \A c \in Channels, t \in CT \ {e.ct} :
          <<c, t>> \in us <=> <<c, t>> \in state[e.user]
    BY <2>2 DEF Joined, ChannelAdd, WwwChannelReplace, CT, WWW, IRC
  <2>5. <<e.user, e.ct>> \in cl /\ clients \subseteq cl
    OBVIOUS
  <2>6. \A v \in Users, t \in CT :
          /\ Replays(batch', v, t) \/ Replays(queue', v, t)
          /\ <<v, t>> \notin cl
          => Replays(batch, v, t) \/ Replays(queue, v, t)
    <3>1. r \in Events /\ queue \in Seq(Events)
      BY <2>2 DEF Events, TypeOK
    <3>2. r.user = e.user /\ r.ct = e.ct
      BY DEF Rejoin
    <3> HIDE DEF r, e
    <3> SUFFICES ASSUME NEW v \in Users, NEW t \in CT,
                        Replays(batch', v, t) \/ Replays(queue', v, t),
                        <<v, t>> \notin cl
                 PROVE  Replays(batch, v, t) \/ Replays(queue, v, t)
      OBVIOUS
    <3>3. CASE Replays(batch', v, t)
      BY <2>3, <3>3, ReplaysOfTake
    <3>4. CASE Replays(queue', v, t)
      <4>1. Replays(Append(queue, r), v, t)
        BY <2>3, <3>4
      <4>2. ~ (r.user = v /\ r.ct = t)
        BY <2>5, <3>2
      <4> QED
        BY <3>1, <4>1, <4>2, ReplaysOfAppend
    <3> QED
      BY <3>3, <3>4
  <2> HIDE DEF us, cl, r, e
  <2>7. AllOrNone'
    BY <2>2, <2>3, <2>4, <2>5, ChangeKeepsAllOrNone DEF ConnectionsInductive
  <2>8. ReplayConnected'
    BY <2>2, <2>3, <2>5, <2>6, ChangeKeepsReplay DEF ConnectionsInductive
  <2>9. BatchTaken'
    BY <2>3 DEF BatchTaken, Take
  <2> QED
    BY <2>7, <2>8, <2>9 DEF ConnectionsInductive
<1>13. CASE HandleRejoin
  <2> DEFINE e  == Head(batch)
             us == Joined(state[e.user], e.ct, e.chan)
  <2>1. e \in Events /\ e.type = "rejoin"
    BY <1>13, TakeTypes DEF HandleRejoin
  <2>2. e.user \in Users /\ e.ct \in CT /\ e.chan \in Channels
    BY <2>1, EventFields
  <2>3. /\ Take("rejoin") /\ clients' = clients /\ queue' = queue
        /\ state' = [state EXCEPT ![e.user] = us]
        /\ NormalizeUserChannels(e.user, e.ct, us, clients)
        /\ flushed' = flushed
    BY <1>13 DEF HandleRejoin, JoinFixLists, history
  <2>4. \A c \in Channels, t \in CT \ {e.ct} :
          <<c, t>> \in us <=> <<c, t>> \in state[e.user]
    BY <2>2 DEF Joined, ChannelAdd, WwwChannelReplace, CT, WWW, IRC
  <2>5. Replays(batch, e.user, e.ct)
    BY <2>1, <2>3, ReplaysOfHead DEF Take, TypeOK
  <2>6. \/ e.user \in flushed
        \/ <<e.user, e.ct>> \in clients
        \/ \A c \in Channels : <<c, e.user, e.ct>> \notin localIn
    BY <2>2, <2>5 DEF ConnectionsInductive, ReplayConnected
  <2>7. \A v \in Users, t \in CT :
          Replays(batch', v, t) \/ Replays(queue', v, t)
          => Replays(batch, v, t) \/ Replays(queue, v, t)
    BY <2>3, ReplaysOfTake
  <2> HIDE DEF us, e
  <2>8. AllOrNone'
    BY <2>2, <2>3, <2>4, <2>6, ChangeKeepsAllOrNone DEF ConnectionsInductive
  <2>9. ReplayConnected'
    BY <2>2, <2>3, <2>7, ChangeKeepsReplay DEF ConnectionsInductive
  <2>10. BatchTaken'
    BY <2>3 DEF BatchTaken, Take
  <2> QED
    BY <2>8, <2>9, <2>10 DEF ConnectionsInductive
<1>14. CASE HandlePart
  <2> DEFINE e  == Head(batch)
             us == PartChannels(state[e.user], e.chans, e.ct)
  <2>1. e \in Events /\ e.type = "part"
    BY <1>14, TakeTypes DEF HandlePart
  <2>2. e.user \in Users /\ e.ct \in CT
    BY <2>1, EventFields
  <2>3. /\ Take("part") /\ clients' = clients /\ queue' = queue
        /\ state' = [state EXCEPT ![e.user] = us]
        /\ NormalizeUserChannels(e.user, e.ct, us, clients)
        /\ flushed' = flushed
    BY <1>14 DEF HandlePart, history
  <2>4. /\ \A c \in Channels, t \in CT \ {e.ct} :
             <<c, t>> \in us <=> <<c, t>> \in state[e.user]
        /\ \A c \in Channels : <<c, e.ct>> \in us => <<c, e.ct>> \in state[e.user]
    BY DEF PartChannels
  <2>5. \A v \in Users, t \in CT :
          Replays(batch', v, t) \/ Replays(queue', v, t)
          => Replays(batch, v, t) \/ Replays(queue, v, t)
    BY <2>3, ReplaysOfTake
  <2> HIDE DEF us, e
  <2>6. AllOrNone'
    BY <2>2, <2>3, <2>4, ChangeKeepsAllOrNone DEF ConnectionsInductive
  <2>7. ReplayConnected'
    BY <2>2, <2>3, <2>5, ChangeKeepsReplay DEF ConnectionsInductive
  <2>8. BatchTaken'
    BY <2>3 DEF BatchTaken, Take
  <2> QED
    BY <2>6, <2>7, <2>8 DEF ConnectionsInductive
<1>15. CASE HandleKick
  <2> DEFINE u == Head(batch).user
  <2>1. /\ Take("kick") /\ queue' = queue
        /\ state' = [state EXCEPT ![u] = {}]
        /\ localIn' = {p \in localIn : p[2] # u}
        /\ clients' = clients \ {<<u, ct>> : ct \in CT}
        /\ flushed' = flushed \ {u}
    BY <1>15 DEF HandleKick
  <2>2. \A v \in Users, t \in CT : Replays(batch', v, t) => Replays(batch, v, t)
    BY <2>1, ReplaysOfTake
  <2> HIDE DEF u
  <2>3. \A c \in Channels, v \in Users, t \in CT :
          <<c, v, t>> \in localIn' <=> <<c, v, t>> \in localIn /\ v # u
    BY <2>1
  <2>4. \A v \in Users \ {u}, t \in CT :
          <<v, t>> \in clients' <=> <<v, t>> \in clients
    BY <2>1
  <2>5. AllOrNone'
    <3> SUFFICES ASSUME NEW v \in Users \ flushed', NEW t \in CT
                 PROVE \/ \A c \in Channels : <<c, v, t>> \notin localIn'
                       \/ \A c \in Channels :
                            <<c, v, t>> \in localIn' <=> <<c, t>> \in state'[v]
      BY DEF AllOrNone
    <3>1. CASE v = u
      BY <2>3, <3>1
    <3>2. CASE v # u
      <4>1. v \notin flushed /\ state'[v] = state[v]
        BY <2>1, <3>2 DEF TypeOK
      <4> QED
        BY <2>3, <3>2, <4>1 DEF ConnectionsInductive, AllOrNone
    <3> QED
      BY <3>1, <3>2
  <2>6. ReplayConnected'
    <3> SUFFICES ASSUME NEW v \in Users \ flushed', NEW t \in CT,
                        Replays(batch', v, t) \/ Replays(queue', v, t),
                        <<v, t>> \notin clients'
                 PROVE \A c \in Channels : <<c, v, t>> \notin localIn'
      BY DEF ReplayConnected, Replays
    <3>1. CASE v = u
      BY <2>3, <3>1
    <3>2. CASE v # u
      <4>1. v \notin flushed /\ <<v, t>> \notin clients
        BY <2>1, <2>4, <3>2
      <4>2. Replays(batch, v, t) \/ Replays(queue, v, t)
        BY <2>1, <2>2
      <4> QED
        BY <2>3, <4>1, <4>2 DEF ConnectionsInductive, ReplayConnected
    <3> QED
      BY <3>1, <3>2
  <2>7. BatchTaken'
    BY <2>1 DEF BatchTaken, Take
  <2> QED
    BY <2>5, <2>6, <2>7 DEF ConnectionsInductive
<1>16. CASE HandleVoice
  BY <1>16, TakeKeepsConnections DEF HandleVoice
<1> QED
  BY <1>1, <1>3, <1>4, <1>5, <1>6, <1>7, <1>8, <1>9, <1>10, <1>11,
     <1>12, <1>13, <1>14, <1>15, <1>16 DEF Next, ChatLoop, Handle, Housekeeping

(* So it always is.                                                         *)
LEMMA ConnectionsInvariant == Spec => []ConnectionsInductive
<1>1. Init => ConnectionsInductive
  BY DEF Init, ConnectionsInductive, BatchTaken, AllOrNone, ReplayConnected, Replays
<1>2. TypeOK /\ ConnectionsInductive /\ [Next]_vars => ConnectionsInductive'
  BY ConnectionsStep
<1> QED
  BY <1>1, <1>2, TypeCorrect, PTL DEF Spec

(* The batch is empty while the chat thread is not handling it.             *)
LEMMA BatchAlwaysTaken == Spec => []BatchTaken
<1>1. ConnectionsInductive => BatchTaken
  BY DEF ConnectionsInductive
<1> QED
  BY <1>1, ConnectionsInvariant, PTL

(* No room ever holds a connection of a user who is not in it with that     *)
(* client, so it sends him none of its messages, whatever the order of      *)
(* joins, replays, leaves, kicks and cleanups was; unless he was unloaded   *)
(* in the room by FLUSH_USER_DATA.                                          *)
THEOREM ConnectionsAlwaysInRooms == Spec => []ConnectionsInRooms
<1>1. TypeOK /\ ConnectionsInductive => ConnectionsInRooms
  <2> SUFFICES ASSUME TypeOK, ConnectionsInductive,
                      NEW p \in localIn, p[2] \notin flushed
               PROVE  <<p[1], p[3]>> \in state[p[2]]
    BY DEF ConnectionsInRooms
  <2>1. p \in Channels \X Users \X CT
    BY DEF TypeOK
  <2>2. PICK c \in Channels, v \in Users, t \in CT : p = <<c, v, t>>
    BY <2>1
  <2>3. <<c, v, t>> \in localIn /\ v \notin flushed
    BY <2>2
  <2>4. <<c, t>> \in state[v]
    BY <2>3 DEF ConnectionsInductive, AllOrNone
  <2> QED
    BY <2>2, <2>4
<1> QED
  BY <1>1, TypeCorrect, ConnectionsInvariant, PTL

-----------------------------------------------------------------------------
(* A browser is in one room at most, in the chat thread's state and in the  *)
(* published one, although url_chat_messages2 stores the latter from a copy *)
(* it read before.                                                          *)
THEOREM AlwaysSingleWwwChannel == Spec => []SingleWwwChannel
<1>1. Init => SingleWwwChannel
  BY DEF Init, SingleWwwChannel, OneWwwChannel, GetChannel
<1>2. TypeOK /\ SingleWwwChannel /\ [Next]_vars => SingleWwwChannel'
  <2> SUFFICES ASSUME TypeOK, SingleWwwChannel, [Next]_vars
               PROVE  SingleWwwChannel'
    OBVIOUS
  <2> DEFINE good(us) == OneWwwChannel(us)
  <2>1. ASSUME NEW us, NEW c \in Channels PROVE good(WwwChannelReplace(us, c))
    BY DEF OneWwwChannel, GetChannel, WwwChannelReplace
  <2>2. ASSUME NEW us, good(us), NEW ct \in CT, NEW c \in Channels
        PROVE  good(Joined(us, ct, c))
    BY <2>1, <2>2 DEF Joined, ChannelAdd, OneWwwChannel, GetChannel, CT, WWW, IRC
  <2>3. ASSUME NEW us, good(us), NEW ct, NEW chans PROVE good(PartChannels(us, chans, ct))
    BY <2>3 DEF OneWwwChannel, GetChannel, PartChannels
  <2>4. good({})
    BY DEF OneWwwChannel, GetChannel
  <2>5. \A u \in Users : good(state[u]) /\ good(global[u])
    BY DEF SingleWwwChannel
  <2> HIDE DEF good
  <2> SUFFICES \A u \in Users : good(state'[u]) /\ good(global'[u])
    BY DEF good, SingleWwwChannel, OneWwwChannel, GetChannel
  <2> SUFFICES \/ UNCHANGED <<state, global>>
               \/ \E u \in Users : \E us, gs :
                    /\ good(us) /\ good(gs)
                    /\ state' = [state EXCEPT ![u] = us]
                    /\ global' = [global EXCEPT ![u] = gs]
    BY <2>5 DEF TypeOK
  <2> DEFINE same == UNCHANGED <<state, global>>
             one  == \E u \in Users : \E us, gs :
                       /\ good(us) /\ good(gs)
                       /\ state' = [state EXCEPT ![u] = us]
                       /\ global' = [global EXCEPT ![u] = gs]
  <2>6. ASSUME NEW u \in Users, state' = state, NEW gs, good(gs),
               global' = [global EXCEPT ![u] = gs]
        PROVE  one
    <3>1. state' = [state EXCEPT ![u] = state[u]] /\ good(state[u])
      BY <2>5, <2>6 DEF TypeOK
    <3> QED
      BY <2>6, <3>1
  <2>7. ASSUME NEW t \in Threads, PartReturns(t) PROVE one
    <3> DEFINE p == call[t]
               gs == PartChannels(global[p.user], p.chans, p.ct)
    <3>1. p.user \in Users
      BY <2>7, CallFields DEF PartReturns, TypeOK, Idle
    <3>2. good(gs)
      BY <2>3, <2>5, <3>1
    <3>3. state' = state /\ global' = [global EXCEPT ![p.user] = gs]
      BY <2>7 DEF PartReturns, rooms
    <3> HIDE DEF gs, one
    <3> QED
      BY <2>6, <3>1, <3>2, <3>3
  <2>8. ASSUME NEW t \in Threads, EnterStores(t) PROVE one
    <3> DEFINE e  == call[t]
               gs == WwwChannelReplace(e.us, e.chan)
    <3>1. e.user \in Users /\ e.chan \in Channels
      BY <2>8, CallFields DEF EnterStores, TypeOK, Idle
    <3>2. good(gs)
      BY <2>1, <3>1
    <3>3. state' = state /\ global' = [global EXCEPT ![e.user] = gs]
      BY <2>8 DEF EnterStores, rooms
    <3> HIDE DEF gs, one
    <3> QED
      BY <2>6, <3>1, <3>2, <3>3
  <2>9. CASE Network
    <3>1. \/ UNCHANGED <<rooms, global>>
          \/ \E t \in Threads : PartReturns(t) \/ EnterStores(t)
      <4>1. ASSUME NEW t \in Threads,
                   \/ LogInReturns(t) \/ LogInSetsNick(t) \/ InactiveLeaves(t)
                   \/ EnterJoins(t) \/ EnterAsksPage(t)
                   \/ \E l \in links : IrcDisconnect(t, l)
            PROVE  UNCHANGED <<rooms, global>>
        BY <4>1 DEF LogInReturns, LogInSetsNick, InactiveLeaves, EnterJoins,
                    EnterAsksPage, IrcDisconnect
      <4>2. ASSUME NEW t, NEW u,
                   \/ LogInWww(t, u) \/ LogInIrc(t, u) \/ LeaveWww(t, u)
                   \/ KilledLeaves(t, u) \/ Inactive(t, u) \/ AdminKick(t, u)
            PROVE  UNCHANGED <<rooms, global>>
        BY <4>2 DEF LogInWww, LogInIrc, LeaveWww, KilledLeaves, Inactive, AdminKick
      <4>3. ASSUME NEW t, NEW u, NEW x, SendCommand(t, u, x) \/ ChangeVoice(t, u, x)
            PROVE  UNCHANGED <<rooms, global>>
        BY <4>3 DEF SendCommand, ChangeVoice
      <4>4. ASSUME NEW t, NEW u, NEW c, IrcPart(t, u, c) \/ EnterReads(t, u, c) \/ IrcJoin(t, u, c)
            PROVE  UNCHANGED <<rooms, global>>
        BY <4>4 DEF IrcPart, EnterReads, IrcJoin, shared
      <4> HIDE DEF one, same
      <4> QED
        BY <2>9, <4>1, <4>2, <4>3, <4>4 DEF Network
    <3> HIDE DEF one
    <3>2. same \/ one
      BY <2>7, <2>8, <3>1 DEF rooms
    <3> QED
      BY <3>2 DEF one
  <2>10. ASSUME \/ ExtractAll \/ BatchDone \/ SkipContactLists
                \/ UpdateContactLists \/ CleanLocalClients
                \/ UNCHANGED vars
         PROVE  same
    BY <2>10 DEF ExtractAll, BatchDone, SkipContactLists, UpdateContactLists,
       CleanLocalClients, vars, shared, rooms
  <2>11. CASE HandleJoin \/ HandleRejoin
    <3> DEFINE e  == Head(batch)
               us == Joined(state[e.user], e.ct, e.chan)
    <3>1. e \in Events /\ e.type \in {"join", "rejoin"}
      BY <2>11, TakeTypes DEF HandleJoin, HandleRejoin
    <3>2. e.user \in Users /\ e.ct \in CT /\ e.chan \in Channels
      BY <3>1, EventFields
    <3>3. good(us)
      BY <2>2, <2>5, <3>2
    <3>4. state' = [state EXCEPT ![e.user] = us] /\ global' = [global EXCEPT ![e.user] = us]
      BY <2>11 DEF HandleJoin, HandleRejoin, JoinFixLists
    <3> HIDE DEF us, e
    <3> QED
      BY <3>2, <3>3, <3>4
  <2>12. CASE HandlePart
    <3> DEFINE e  == Head(batch)
               us == PartChannels(state[e.user], e.chans, e.ct)
    <3>1. e.user \in Users
      BY <2>12, TakeTypes, EventFields DEF HandlePart
    <3>2. good(us)
      BY <2>3, <2>5, <3>1
    <3>3. state' = [state EXCEPT ![e.user] = us] /\ global' = [global EXCEPT ![e.user] = us]
      BY <2>12 DEF HandlePart
    <3> HIDE DEF us, e
    <3> QED
      BY <3>1, <3>2, <3>3
  <2>13. CASE HandleKick
    <3>1. Head(batch).user \in Users
      BY <2>13, TakeTypes, EventFields DEF HandleKick
    <3> QED
      BY <2>4, <2>13, <3>1 DEF HandleKick
  <2>14. ASSUME NEW u \in Users, UnloadUser(u) PROVE same \/ one
    BY <2>4, <2>14 DEF UnloadUser
  <2>15. CASE HandleFlush
    <3>1. Head(batch).user \in Users
      BY <2>15, TakeTypes, EventFields DEF HandleFlush
    <3> QED
      BY <2>14, <2>15, <3>1 DEF HandleFlush
  <2>16. CASE HandleCommand \/ HandleChatMessages
    <3> DEFINE u == Head(batch).user
    <3>1. u \in Users
      BY <2>16, TakeTypes, EventFields DEF HandleCommand, HandleChatMessages
    <3>2. PICK gs \in {global[u], state[u]} :
            state' = state /\ global' = [global EXCEPT ![u] = gs]
      <4>1. CASE HandleCommand
        BY <4>1 DEF HandleCommand
      <4>2. CASE HandleChatMessages
        BY <4>2 DEF HandleChatMessages
      <4> QED
        BY <2>16, <4>1, <4>2
    <3>3. good(gs)
      BY <2>5, <3>1, <3>2
    <3> HIDE DEF one
    <3>4. one
      BY <2>6, <3>1, <3>2, <3>3
    <3> QED
      BY <3>4 DEF one
  <2>17. ASSUME NEW u \in Users, EmptyTrash(u) PROVE same \/ one
    BY <2>14, <2>17 DEF EmptyTrash
  <2>18. CASE HandleVoice
    <3> DEFINE e == Head(batch)
    <3>1. e.user \in Users /\ e.target \in Users
      BY <2>18, TakeTypes, EventFields DEF HandleVoice
    <3>2. PICK gs \in {global[e.user], state[e.user], state[e.target]} :
            state' = state /\ global' = [global EXCEPT ![e.user] = gs]
      BY <2>18 DEF HandleVoice
    <3>3. good(gs)
      BY <2>5, <3>1, <3>2
    <3> HIDE DEF one
    <3>4. one
      BY <2>6, <3>1, <3>2, <3>3
    <3> QED
      BY <3>4 DEF one
  <2> HIDE DEF good
  <2> QED
    BY <2>9, <2>10, <2>11, <2>12, <2>13, <2>15, <2>16, <2>17, <2>18
       DEF Next, ChatLoop, Handle, Housekeeping
<1> QED
  BY <1>1, <1>2, TypeCorrect, PTL DEF Spec

-----------------------------------------------------------------------------
(* The index of users per room, on the users loaded or not: one who is not  *)
(* loaded is in no room, and outside of `flushed' the rooms of the index    *)
(* are his rooms unless one of them lacks his connection.                   *)
IndexOf(u) == {c \in Channels : <<c, u>> \in usersIn}

Reached(u) ==
  \A c \in Channels, ct \in CT : <<c, ct>> \in state[u] => <<c, u, ct>> \in localIn

UnloadedAbsent == \A u \in Users \ loaded : state[u] = {}

IndexComplete ==
  \A u \in Users \ flushed : Reached(u) => IndexOf(u) = ExportChannels(state[u])

IndexInductive == UnloadedAbsent /\ IndexComplete

(* Only users who are loaded have rooms.                                    *)
LEMMA UnloadedAbsentStep ==
  ASSUME TypeOK, UnloadedAbsent, [Next]_vars
  PROVE  UnloadedAbsent'
<1>1. CASE Network
  BY <1>1, NetworkQueue DEF rooms, UnloadedAbsent
<1>2. CASE ExtractAll \/ BatchDone \/ SkipContactLists \/ UpdateContactLists
            \/ CleanLocalClients \/ UNCHANGED vars
  BY <1>2 DEF ExtractAll, BatchDone, SkipContactLists, UpdateContactLists,
     CleanLocalClients, vars, rooms, UnloadedAbsent
<1>3. CASE HandleJoin \/ HandleRejoin
  <2> DEFINE e == Head(batch)
             us == Joined(state[e.user], e.ct, e.chan)
  <2>1. /\ loaded' = loaded \cup {e.user}
        /\ state' = [state EXCEPT ![e.user] = us]
    BY <1>3 DEF HandleJoin, HandleRejoin, JoinFixLists
  <2> HIDE DEF us, e
  <2> QED
    BY <2>1 DEF UnloadedAbsent, TypeOK
<1>4. CASE HandlePart
  <2> DEFINE e == Head(batch)
             us == PartChannels(state[e.user], e.chans, e.ct)
  <2>1. /\ loaded' = loaded \cup {e.user}
        /\ state' = [state EXCEPT ![e.user] = us]
    BY <1>4 DEF HandlePart
  <2> HIDE DEF us, e
  <2> QED
    BY <2>1 DEF UnloadedAbsent, TypeOK
<1>5. CASE HandleKick
  BY <1>5 DEF HandleKick, UnloadedAbsent, TypeOK
<1>6. ASSUME NEW u, UnloadUser(u) PROVE UnloadedAbsent'
  BY <1>6 DEF UnloadUser, UnloadedAbsent, TypeOK
<1>7. CASE HandleCommand \/ HandleChatMessages \/ HandleVoice
  BY <1>7 DEF HandleCommand, HandleChatMessages, HandleVoice, UnloadedAbsent
<1> QED
  BY <1>1, <1>2, <1>3, <1>4, <1>5, <1>6, <1>7
     DEF Next, ChatLoop, Handle, Housekeeping, HandleFlush, EmptyTrash

(* normalize_user_channels leaves the rooms of other users alone, and lists *)
(* its user in exactly his rooms unless it stops at one without connection. *)
LEMMA NormalizeIndexes ==
  ASSUME TypeOK, NEW u \in Users, NEW ct \in CT, NEW us \in ChannelUs, NEW cl,
         NormalizeUserChannels(u, ct, us, cl)
  PROVE  /\ \A v \in Users : v # u => IndexOf(v)' = IndexOf(v)
         /\ (\A c \in Channels, t \in CT : <<c, t>> \in us => <<c, u, t>> \in localIn')
              => IndexOf(u)' = ExportChannels(us)
<1> DEFINE missing == Missing(u, ct, us, cl)
           reached == {c \in Channels : \A m \in missing : c <= m}
           before  == {c \in Channels : \A m \in missing : c < m}
           all     == ExportChannels(us)
<1>1. /\ usersIn' = {p \in usersIn : p[2] # u \/ p[1] \notin reached}
                       \cup {<<c, u>> : c \in reached \cap all}
      /\ localIn' = {p \in localIn : p[2] # u \/ p[3] # ct \/ p[1] \notin before}
                       \cup {<<c, u, ct>> : c \in before \cap GetChannel(us, ct)}
  BY DEF NormalizeUserChannels
<1>2. all \subseteq Channels
  BY DEF ExportChannels
<1>3. usersIn \subseteq Channels \X Users
  BY DEF TypeOK
<1>4. ASSUME missing = {}
      PROVE  IndexOf(u)' = all
  <2>1. reached = Channels
    BY <1>4
  <2> HIDE DEF reached, all
  <2> QED
    BY <1>1, <1>2, <1>3, <2>1 DEF IndexOf
<1>5. ASSUME NEW m \in missing
      PROVE  m \in Channels /\ <<m, ct>> \in us /\ <<m, u, ct>> \notin localIn'
  <2>1. <<m, ct>> \in us /\ <<m, u, ct>> \notin localIn /\ m \in Channels
    BY DEF Missing, GetChannel
  <2>2. m \notin before
    <3>1. ~(m < m)
      BY <2>1, ChannelsAssumption
    <3> QED
      BY <3>1
  <2> HIDE DEF before
  <2> QED
    BY <1>1, <2>1, <2>2
<1>6. ASSUME NEW v \in Users, v # u
      PROVE  IndexOf(v)' = IndexOf(v)
  <2> HIDE DEF reached, all
  <2> QED
    BY <1>1, <1>3, <1>6 DEF IndexOf
<1> HIDE DEF missing
<1>7. ASSUME \A c \in Channels, t \in CT : <<c, t>> \in us => <<c, u, t>> \in localIn'
      PROVE  missing = {}
  BY <1>5, <1>7
<1> QED
  BY <1>4, <1>6, <1>7

(* A change of the rooms of one user, normalized, keeps the index.          *)
LEMMA ChangeKeepsIndex ==
  ASSUME TypeOK, IndexComplete, NEW u \in Users, NEW ct \in CT,
         NEW us \in ChannelUs, NEW cl,
         state' = [state EXCEPT ![u] = us],
         NormalizeUserChannels(u, ct, us, cl),
         flushed' = flushed
  PROVE  IndexComplete'
<1> SUFFICES ASSUME NEW v \in Users \ flushed, Reached(v)'
             PROVE  IndexOf(v)' = ExportChannels(state'[v])
  BY DEF IndexComplete
<1>1. CASE v = u
  <2>1. state'[v] = us
    BY <1>1 DEF TypeOK
  <2> QED
    BY <1>1, <2>1, NormalizeIndexes DEF Reached
<1>2. CASE v # u
  <2>1. state'[v] = state[v] /\ state[v] \subseteq Channels \X CT
    BY <1>2 DEF TypeOK, ChannelUs
  <2>2. Reached(v)
    BY <1>2, <2>1, NormalizeConnects DEF Reached
  <2> QED
    BY <1>2, <2>1, <2>2, NormalizeIndexes DEF IndexComplete
<1> QED
  BY <1>1, <1>2

(* Every step keeps the index of users per room.                            *)
LEMMA IndexStep ==
  ASSUME TypeOK, IndexInductive, [Next]_vars
  PROVE  IndexInductive'
<1> USE DEF IndexInductive
<1>1. UnloadedAbsent'
  BY UnloadedAbsentStep
<1>2. CASE Network
  BY <1>1, <1>2, NetworkQueue DEF rooms, IndexComplete, IndexOf, Reached
<1>3. CASE ExtractAll \/ BatchDone \/ SkipContactLists \/ CleanLocalClients
            \/ UNCHANGED vars
  BY <1>1, <1>3 DEF ExtractAll, BatchDone, SkipContactLists, CleanLocalClients, vars, rooms,
     history, IndexComplete, IndexOf, Reached
<1>4. CASE UpdateContactLists
  <2> SUFFICES ASSUME NEW u \in Users
               PROVE  IndexOf(u)' = ExportChannels(state[u])
    BY <1>1, <1>4 DEF UpdateContactLists, history, IndexComplete
  <2>1. usersIn' = UNION {{<<c, v>> : c \in ExportChannels(state[v])} : v \in loaded}
    BY <1>4 DEF UpdateContactLists
  <2>2. ExportChannels({}) = {}
    BY DEF ExportChannels
  <2>3. \A c : <<c, u>> \in usersIn' <=> u \in loaded /\ c \in ExportChannels(state[u])
    BY <2>1
  <2>4. ExportChannels(state[u]) \subseteq Channels
    BY DEF ExportChannels
  <2> QED
    BY <2>2, <2>3, <2>4 DEF IndexOf, UnloadedAbsent
<1>5. CASE HandleJoin \/ HandleRejoin
  <2> DEFINE e == Head(batch)
             us == Joined(state[e.user], e.ct, e.chan)
  <2>1. e \in Events /\ e.type \in {"join", "rejoin"}
    BY <1>5, TakeTypes DEF HandleJoin, HandleRejoin
  <2>2. e.user \in Users /\ e.ct \in CT /\ e.chan \in Channels
    BY <2>1, EventFields
  <2>3. us \in ChannelUs
    BY <2>2, StateOperations DEF TypeOK
  <2>4. /\ state' = [state EXCEPT ![e.user] = us]
        /\ \E cl : NormalizeUserChannels(e.user, e.ct, us, cl)
        /\ flushed' = flushed
    BY <1>5 DEF HandleJoin, HandleRejoin, JoinFixLists, history
  <2> HIDE DEF us, e
  <2>5. IndexComplete'
    BY <2>2, <2>3, <2>4, ChangeKeepsIndex
  <2> QED
    BY <1>1, <2>5
<1>6. CASE HandlePart
  <2> DEFINE e == Head(batch)
             us == PartChannels(state[e.user], e.chans, e.ct)
  <2>1. e \in Events /\ e.type = "part"
    BY <1>6, TakeTypes DEF HandlePart
  <2>2. e.user \in Users /\ e.ct \in CT /\ e.chans \in SUBSET Channels
    BY <2>1, EventFields
  <2>3. us \in ChannelUs
    BY <2>2 DEF TypeOK, ChannelUs, PartChannels
  <2>4. /\ state' = [state EXCEPT ![e.user] = us]
        /\ NormalizeUserChannels(e.user, e.ct, us, clients)
        /\ flushed' = flushed
    BY <1>6 DEF HandlePart, history
  <2> HIDE DEF us, e
  <2>5. IndexComplete'
    BY <2>2, <2>3, <2>4, ChangeKeepsIndex
  <2> QED
    BY <1>1, <2>5
<1>7. CASE HandleKick
  <2> DEFINE u == Head(batch).user
  <2>1. u \in Users
    BY <1>7, TakeTypes, EventFields DEF HandleKick
  <2>2. /\ state' = [state EXCEPT ![u] = {}]
        /\ usersIn' = {p \in usersIn : p[2] # u}
        /\ localIn' = {p \in localIn : p[2] # u}
        /\ flushed' = flushed \ {u}
    BY <1>7 DEF HandleKick
  <2> HIDE DEF u
  <2> SUFFICES ASSUME NEW v \in Users \ flushed', Reached(v)'
               PROVE  IndexOf(v)' = ExportChannels(state'[v])
    BY <1>1 DEF IndexComplete
  <2>3. CASE v = u
    <3>1. IndexOf(v)' = {} /\ state'[v] = {}
      BY <2>1, <2>2, <2>3 DEF IndexOf, TypeOK
    <3> QED
      BY <3>1 DEF ExportChannels
  <2>4. CASE v # u
    <3>1. IndexOf(v)' = IndexOf(v) /\ state'[v] = state[v] /\ v \notin flushed
      BY <2>2, <2>4 DEF IndexOf, TypeOK
    <3>2. Reached(v)
      BY <2>2, <3>1 DEF Reached
    <3> QED
      BY <3>1, <3>2 DEF IndexComplete
  <2> QED
    BY <2>3, <2>4
<1>8. ASSUME NEW u \in Users, UnloadUser(u), UNCHANGED <<usersIn, localIn>>
      PROVE  IndexComplete'
  <2> SUFFICES ASSUME NEW v \in Users \ flushed', Reached(v)'
               PROVE  IndexOf(v)' = ExportChannels(state'[v])
    BY DEF IndexComplete
  <2>1. state'[v] = state[v] /\ v \notin flushed
    BY <1>8 DEF UnloadUser, TypeOK
  <2> QED
    BY <1>8, <2>1 DEF IndexComplete, IndexOf, Reached
<1>9. CASE HandleCommand \/ HandleChatMessages \/ HandleVoice
  BY <1>1, <1>9 DEF HandleCommand, HandleChatMessages, HandleVoice, history,
     IndexComplete, IndexOf, Reached
<1>10. CASE HandleFlush
  <2>1. Head(batch).user \in Users
    BY <1>10, TakeTypes, EventFields DEF HandleFlush
  <2> QED
    BY <1>1, <1>8, <1>10, <2>1 DEF HandleFlush
<1>11. ASSUME NEW u \in Users, EmptyTrash(u) PROVE IndexInductive'
  BY <1>1, <1>8, <1>11 DEF EmptyTrash
<1> QED
  BY <1>2, <1>3, <1>4, <1>5, <1>6, <1>7, <1>9, <1>10, <1>11
     DEF Next, ChatLoop, Handle, Housekeeping

(* __users_in_channels$ lists a user in exactly the rooms he is in whenever *)
(* each of them has his connection, and nobody unloaded in a room has       *)
(* come back.                                                               *)
THEOREM IndexAlwaysExact == Spec => []IndexExact
<1>1. Init => IndexInductive
  <2> SUFFICES ASSUME Init PROVE IndexInductive
    OBVIOUS
  <2>1. ExportChannels({}) = {}
    BY DEF ExportChannels
  <2> QED
    BY <2>1 DEF Init, IndexInductive, UnloadedAbsent, IndexComplete, IndexOf
<1>2. TypeOK /\ IndexInductive /\ [Next]_vars => IndexInductive'
  BY IndexStep
<1>3. TypeOK /\ IndexInductive => IndexExact
  <2> SUFFICES ASSUME TypeOK, IndexInductive, NEW u \in loaded \ flushed,
                      \A p \in state[u] : <<p[1], u, p[2]>> \in localIn
               PROVE  {p[1] : p \in {q \in usersIn : q[2] = u}} = ExportChannels(state[u])
    BY DEF IndexExact
  <2>1. u \in Users /\ usersIn \subseteq Channels \X Users
    BY DEF TypeOK
  <2>2. Reached(u)
    BY DEF Reached
  <2>3. {p[1] : p \in {q \in usersIn : q[2] = u}} = IndexOf(u)
    BY <2>1 DEF IndexOf
  <2> QED
    BY <2>1, <2>2, <2>3 DEF IndexInductive, IndexComplete
<1> QED
  BY <1>1, <1>2, <1>3, TypeCorrect, PTL DEF Spec

-----------------------------------------------------------------------------
(* The events that wait: the rest of the batch and the queue behind it.     *)
Waiting == batch \o queue

(* They are events, and none wait when the batch and the queue are empty.   *)
LEMMA WaitingTypes ==
  ASSUME TypeOK
  PROVE  Waiting \in Seq(Events) /\ (Waiting = <<>> <=> batch = <<>> /\ queue = <<>>)
  BY ConcatProperties, ConcatEqualIffEmpty DEF TypeOK, Waiting

(* A push appends to what waits.                                            *)
LEMMA WaitingPush ==
  ASSUME TypeOK, NEW e \in Events, batch' = batch, queue' = Append(queue, e)
  PROVE  Waiting' = Append(Waiting, e)
<1>1. /\ batch \in Seq(Events) /\ queue \in Seq(Events) /\ <<e>> \in Seq(Events)
      /\ batch \o queue \in Seq(Events)
  BY ConcatProperties DEF TypeOK
<1>2. queue' = queue \o <<e>> /\ Append(batch \o queue, e) = (batch \o queue) \o <<e>>
  BY <1>1, AppendIsConcat
<1>3. (batch \o queue) \o <<e>> = batch \o (queue \o <<e>>)
  BY <1>1, ConcatAssociative
<1> QED
  BY <1>2, <1>3 DEF Waiting

(* A handled event is the head of what waits.                               *)
LEMMA WaitingTake ==
  ASSUME TypeOK, batch # <<>>, batch' = Tail(batch)
  PROVE  /\ Waiting # <<>> /\ Head(Waiting) = Head(batch)
         /\ batch' \o queue = Tail(Waiting)
         /\ Tail(Waiting) \in Seq(Events)
         /\ \A e \in Events :
              queue' = Append(queue, e) => Waiting' = Append(Tail(Waiting), e)
<1> DEFINE E == Events
<1>1. batch \in Seq(E) /\ queue \in Seq(E) /\ Tail(batch) \in Seq(E)
  BY HeadTailProperties DEF TypeOK
<1>2. /\ Waiting \in Seq(E) /\ Waiting # <<>>
      /\ Len(batch) \in Nat \ {0} /\ Len(queue) \in Nat
      /\ Len(Waiting) = Len(batch) + Len(queue)
  BY <1>1, WaitingTypes, ConcatProperties, EmptySeq, LenProperties DEF Waiting
<1>3. Head(Waiting) = Head(batch)
  <2>1. Waiting[1] = batch[1]
    BY <1>1, <1>2, ConcatProperties DEF Waiting
  <2> QED
    BY <1>1, <1>2, <2>1
<1>4. Tail(batch) \o queue = Tail(Waiting)
  <2> DEFINE s == Tail(batch) \o queue
             t == Tail(Waiting)
  <2>1. /\ Len(Tail(batch)) = Len(batch) - 1
        /\ \A i \in 1 .. Len(batch) - 1 : Tail(batch)[i] = batch[i + 1]
    BY <1>1, HeadTailProperties
  <2>2. /\ s \in Seq(E) /\ Len(s) = (Len(batch) - 1) + Len(queue)
        /\ \A i \in 1 .. (Len(batch) - 1) + Len(queue) :
             s[i] = IF i <= Len(batch) - 1 THEN Tail(batch)[i]
                    ELSE queue[i - (Len(batch) - 1)]
    BY <1>1, <2>1, ConcatProperties
  <2>3. /\ t \in Seq(E) /\ Len(t) = Len(Waiting) - 1
        /\ \A i \in 1 .. Len(Waiting) - 1 : t[i] = Waiting[i + 1]
    BY <1>2, HeadTailProperties
  <2>4. \A i \in 1 .. Len(batch) + Len(queue) :
          Waiting[i] = IF i <= Len(batch) THEN batch[i] ELSE queue[i - Len(batch)]
    BY <1>1, ConcatProperties DEF Waiting
  <2> HIDE DEF s, t
  <2>5. ASSUME NEW i \in 1 .. Len(s) PROVE s[i] = t[i]
    <3>1. i + 1 \in 1 .. Len(batch) + Len(queue) /\ t[i] = Waiting[i + 1]
      BY <1>2, <2>2, <2>3
    <3>2. CASE i <= Len(batch) - 1
      <4>1. s[i] = batch[i + 1]
        BY <1>2, <2>1, <2>2, <3>2
      <4>2. Waiting[i + 1] = batch[i + 1]
        BY <1>2, <2>4, <3>1, <3>2
      <4> QED
        BY <3>1, <4>1, <4>2
    <3>3. CASE ~(i <= Len(batch) - 1)
      <4>1. s[i] = queue[i - (Len(batch) - 1)]
        BY <1>2, <2>2, <3>3
      <4>2. Waiting[i + 1] = queue[(i + 1) - Len(batch)]
        BY <1>2, <2>4, <3>1, <3>3
      <4>3. i - (Len(batch) - 1) = (i + 1) - Len(batch)
        BY <1>2
      <4> QED
        BY <3>1, <4>1, <4>2, <4>3
    <3> QED
      BY <3>2, <3>3
  <2>6. s = t
    BY <1>2, <2>2, <2>3, <2>5, SeqEqual
  <2> QED
    BY <2>6 DEF s, t
<1>5. ASSUME NEW e \in E, queue' = Append(queue, e)
      PROVE  Waiting' = Append(Tail(Waiting), e)
  <2>1. queue' = queue \o <<e>> /\ <<e>> \in Seq(E)
    BY <1>1, <1>5, AppendIsConcat
  <2>2. Tail(batch) \o (queue \o <<e>>) = (Tail(batch) \o queue) \o <<e>>
    BY <1>1, <2>1, ConcatAssociative
  <2>3. Tail(Waiting) \in Seq(E)
    BY <1>2, HeadTailProperties
  <2>4. Append(Tail(Waiting), e) = Tail(Waiting) \o <<e>>
    BY <2>3, AppendIsConcat
  <2>5. Waiting' = Tail(batch) \o queue'
    BY DEF Waiting
  <2> QED
    BY <1>4, <2>1, <2>2, <2>4, <2>5
<1>6. Tail(Waiting) \in Seq(E)
  BY <1>2, HeadTailProperties
<1> QED
  BY <1>2, <1>3, <1>4, <1>5, <1>6

-----------------------------------------------------------------------------
(* What the network threads ask for, and the event that carries it.         *)
LEMMA NetworkAsks ==
  ASSUME TypeOK, Network
  PROVE  \/ queue' = queue /\ asked' = asked
         \/ \E e \in Events :
              /\ e.type \in {"command", "messages", "voice"}
              /\ queue' = Append(queue, e) /\ asked' = asked
         \/ \E u \in Users, ct \in CT, c \in Channels :
              Push(Join(u, ct, c)) /\ Ask(u, {ct}, AskedIn(c))
         \/ \E u \in Users, ct \in CT, chans \in SUBSET Channels :
              /\ Push(Part(u, ct, chans))
              /\ Ask(u, {ct}, IF chans = {} /\ ~InFlight(u, ct) THEN AskedOut
                                                               ELSE AskedMaybe)
         \/ \E u \in Users :
              /\ Push(Kick(u))
              /\ asked' = [asked EXCEPT ![u] =
                   [ct \in CT |-> IF InFlight(u, ct) THEN AskedMaybe ELSE AskedOut]]
         \/ \E u \in Users : Push(Flush(u)) /\ Ask(u, CT, AskedMaybe)
<1> DEFINE still == queue' = queue /\ asked' = asked
           other == \E e \in Events :
                      /\ e.type \in {"command", "messages", "voice"}
                      /\ queue' = Append(queue, e) /\ asked' = asked
           joins == \E u \in Users, ct \in CT, c \in Channels :
                      Push(Join(u, ct, c)) /\ Ask(u, {ct}, AskedIn(c))
           parts == \E u \in Users, ct \in CT, chans \in SUBSET Channels :
                      /\ Push(Part(u, ct, chans))
                      /\ Ask(u, {ct}, IF chans = {} /\ ~InFlight(u, ct) THEN AskedOut
                                                                 ELSE AskedMaybe)
           kicks == \E u \in Users :
                      /\ Push(Kick(u))
                      /\ asked' = [asked EXCEPT ![u] =
                           [ct \in CT |-> IF InFlight(u, ct) THEN AskedMaybe
                                                             ELSE AskedOut]]
           flushes == \E u \in Users : Push(Flush(u)) /\ Ask(u, CT, AskedMaybe)
<1>1. WWW \in CT /\ IRC \in CT /\ {} \in SUBSET Channels
  BY DEF CT
<1>2. ASSUME NEW t \in Threads, NEW u \in Users, NEW ct \in CT,
             NEW chans \in SUBSET Channels, NEW b, AskToPart(t, u, ct, chans, b)
      PROVE  parts
  BY <1>2 DEF AskToPart
<1>3. ASSUME NEW t \in Threads,
             \/ LogInReturns(t) \/ PartReturns(t) \/ EnterStores(t)
             \/ \E u \in Users : Inactive(t, u)
             \/ \E u \in Users, c \in Channels : EnterReads(t, u, c)
      PROVE  still
  BY <1>3 DEF LogInReturns, PartReturns, EnterStores, Inactive, EnterReads, history, shared
<1>4. ASSUME NEW t \in Threads, InactiveLeaves(t)
      PROVE  still \/ parts
  <2>1. call[t].user \in Users
    BY <1>4, CallFields DEF InactiveLeaves, TypeOK, Idle
  <2>2. still \/ AskToPart(t, call[t].user, WWW, {}, FALSE)
    BY <1>4 DEF InactiveLeaves, history
  <2> HIDE DEF still, parts
  <2> QED
    BY <1>1, <1>2, <2>1, <2>2
<1>5. ASSUME NEW t \in Threads, NEW u \in Users,
             \/ LeaveWww(t, u) \/ KilledLeaves(t, u)
             \/ \E l \in links : l[1] = u /\ IrcDisconnect(t, l)
             \/ \E c \in Channels : IrcPart(t, u, c)
      PROVE  parts
  <2>1. \E ct \in CT, chans \in SUBSET Channels, b \in BOOLEAN :
          AskToPart(t, u, ct, chans, b)
    <3>1. CASE LeaveWww(t, u) \/ KilledLeaves(t, u)
      BY <1>1, <3>1 DEF LeaveWww, KilledLeaves
    <3>2. CASE \E l \in links : l[1] = u /\ IrcDisconnect(t, l)
      BY <1>1, <3>2 DEF IrcDisconnect
    <3>3. ASSUME NEW c \in Channels, IrcPart(t, u, c)
          PROVE  AskToPart(t, u, IRC, {c}, FALSE) /\ {c} \in SUBSET Channels
      BY <3>3 DEF IrcPart
    <3> QED
      BY <1>1, <1>5, <3>1, <3>2, <3>3
  <2> HIDE DEF parts
  <2> QED
    BY <1>2, <2>1
<1>6. ASSUME NEW t \in Threads, EnterJoins(t)
      PROVE  joins
  <2>1. call[t].user \in Users /\ call[t].chan \in Channels
    BY <1>6, CallFields DEF EnterJoins, TypeOK, Idle
  <2> QED
    BY <1>1, <1>6, <2>1 DEF EnterJoins
<1>7. ASSUME NEW t \in Threads, NEW u \in Users, NEW c \in Channels, IrcJoin(t, u, c)
      PROVE  joins
  BY <1>1, <1>7 DEF IrcJoin
<1>8. ASSUME NEW t \in Threads, NEW u \in Users, LogInWww(t, u) \/ LogInIrc(t, u)
      PROVE  flushes
  BY <1>8 DEF LogInWww, LogInIrc
<1>9. ASSUME NEW t \in Threads, NEW u \in Users, AdminKick(t, u)
      PROVE  kicks
  BY <1>9 DEF AdminKick
<1>10. ASSUME NEW t \in Threads, EnterAsksPage(t) \/ LogInSetsNick(t)
       PROVE  other
  <2>1. CASE EnterAsksPage(t)
    <3>1. call[t].user \in Users /\ call[t].chan \in Channels
      BY <2>1, CallFields DEF EnterAsksPage, TypeOK, Idle
    <3>2. /\ ChatMessages(call[t].user, call[t].chan) \in Events
          /\ ChatMessages(call[t].user, call[t].chan).type = "messages"
      BY <3>1 DEF Events, ChatMessages
    <3> QED
      BY <2>1, <3>2 DEF EnterAsksPage, Push, history
  <2>2. CASE LogInSetsNick(t)
    <3>1. call[t].user \in Users
      BY <2>2, CallFields DEF LogInSetsNick, TypeOK, Idle
    <3>2. /\ Command(call[t].user, "nick") \in Events
          /\ Command(call[t].user, "nick").type = "command"
      BY <3>1 DEF Events, Command, Commands
    <3> QED
      BY <2>2, <3>2 DEF LogInSetsNick, Push, history
  <2> QED
    BY <1>10, <2>1, <2>2
<1>11. ASSUME NEW t \in Threads, NEW u \in Users,
              \/ \E cmd \in Commands : SendCommand(t, u, cmd)
              \/ \E z \in Users : ChangeVoice(t, u, z)
       PROVE  other
  <2>1. ASSUME NEW cmd \in Commands, SendCommand(t, u, cmd) PROVE other
    <3>1. Command(u, cmd) \in Events /\ Command(u, cmd).type = "command"
      BY DEF Events, Command
    <3> QED
      BY <2>1, <3>1 DEF SendCommand, Push, history
  <2>2. ASSUME NEW z \in Users, ChangeVoice(t, u, z) PROVE other
    <3>1. Voice(u, z) \in Events /\ Voice(u, z).type = "voice"
      BY DEF Events, Voice
    <3> QED
      BY <2>2, <3>1 DEF ChangeVoice, Push, history
  <2> QED
    BY <1>11, <2>1, <2>2
<1>12. \A l \in links : l[1] \in Users
  BY DEF TypeOK
<1> HIDE DEF still, other, joins, parts, kicks, flushes
<1>13. still \/ other \/ joins \/ parts \/ kicks \/ flushes
  BY <1>3, <1>4, <1>5, <1>6, <1>7, <1>8, <1>9, <1>10, <1>11, <1>12 DEF Network
<1> QED
  BY <1>13 DEF still, other, joins, parts, kicks, flushes

-----------------------------------------------------------------------------
(* The events that bear on a session: those that end its stay or put        *)
(* another join in its place, and the replays of its joins.                 *)
Ends(e, u, ct) ==
  \/ e.type \in {"join", "part"} /\ e.user = u /\ e.ct = ct
  \/ e.type \in {"kick", "flush"} /\ e.user = u

IsReplay(e, u, ct) == e.type = "rejoin" /\ e.user = u /\ e.ct = ct

(* A step leaves the rooms, the connection and the places of a session.     *)
SameRooms(u, ct) ==
  /\ GetChannel(state'[u], ct) = GetChannel(state[u], ct)
  /\ \A c \in Channels : <<c, u, ct>> \in localIn' <=> <<c, u, ct>> \in localIn
  /\ <<u, ct>> \in clients => <<u, ct>> \in clients'

(* What the chat thread makes of an event.                                  *)
HandledAs(e) ==
  /\ e \in Events /\ batch # <<>> /\ e = Head(batch)
  /\ batch' = Tail(batch) /\ pc = "batch" /\ pc' = pc
  /\ asked' = asked /\ call' = call
  /\ e.type = "join" => queue' = Append(queue, Rejoin(e.user, e.ct, e.chan))
  /\ e.type # "join" => queue' = queue
  /\ \A v \in Users, t \in CT :
       ~Ends(e, v, t) /\ ~IsReplay(e, v, t) => SameRooms(v, t)
  /\ e.type \in {"part", "kick", "flush"} =>
       \A v \in Users, t \in CT :
         GetChannel(state'[v], t) \subseteq GetChannel(state[v], t)
  /\ e.type = "part" /\ e.chans = {} => GetChannel(state'[e.user], e.ct) = {}
  /\ e.type = "kick" => \A t \in CT : GetChannel(state'[e.user], t) = {}
  /\ e.type = "join" => <<e.user, e.ct>> \in clients'
  /\ e.type \in {"join", "rejoin"} =>
       /\ <<e.chan, e.ct>> \in state'[e.user]
       /\ <<e.user, e.ct>> \in clients => <<e.user, e.ct>> \in clients'
       /\ <<e.user, e.ct>> \in clients' => <<e.chan, e.user, e.ct>> \in localIn'

(* The rooms by the other client are not changed by a join or a leave.      *)
LEMMA OtherClient ==
  ASSUME NEW us, NEW ct \in CT, NEW t \in CT, t # ct, NEW c, NEW chans
  PROVE  /\ GetChannel(Joined(us, ct, c), t) = GetChannel(us, t)
         /\ GetChannel(PartChannels(us, chans, ct), t) = GetChannel(us, t)
  BY DEF GetChannel, Joined, PartChannels, ChannelAdd, WwwChannelReplace, CT, WWW, IRC

(* normalize_user_channels leaves the connections of others alone.          *)
LEMMA NormalizeOthers ==
  ASSUME TypeOK, NEW u \in Users, NEW ct \in CT, NEW us, NEW cl,
         NormalizeUserChannels(u, ct, us, cl)
  PROVE  \A c \in Channels, v \in Users, t \in CT :
           v # u \/ t # ct => (<<c, v, t>> \in localIn' <=> <<c, v, t>> \in localIn)
  BY NormalizeConnects

(* A change of the rooms of a user by ct leaves all other sessions alone.   *)
LEMMA ChangeSameRooms ==
  ASSUME NEW u \in Users, NEW ct \in CT,
         \A c \in Channels, v \in Users, t \in CT :
           v # u \/ t # ct => (<<c, v, t>> \in localIn' <=> <<c, v, t>> \in localIn),
         \A v \in Users : v # u => state'[v] = state[v],
         \A t \in CT : t # ct => GetChannel(state'[u], t) = GetChannel(state[u], t),
         clients \subseteq clients'
  PROVE  \A v \in Users, t \in CT : v # u \/ t # ct => SameRooms(v, t)
<1>1. \A v \in Users, t \in CT :
        v # u \/ t # ct => GetChannel(state'[v], t) = GetChannel(state[v], t)
  OBVIOUS
<1> QED
  BY <1>1 DEF SameRooms

(* A join, new or replayed.                                                 *)
LEMMA JoinIsHandled ==
  ASSUME TypeOK, HandleJoin \/ HandleRejoin
  PROVE  HandledAs(Head(batch))
<1> DEFINE e == Head(batch)
           us == Joined(state[e.user], e.ct, e.chan)
           cl == IF e.type = "join" THEN clients \cup {<<e.user, e.ct>>} ELSE clients
<1>1. /\ e \in Events /\ batch # <<>> /\ pc = "batch" /\ pc' = pc
      /\ batch' = Tail(batch) /\ e.type \in {"join", "rejoin"}
      /\ asked' = asked /\ call' = call
      /\ e.type = "join" => queue' = Append(queue, Rejoin(e.user, e.ct, e.chan))
      /\ e.type # "join" => queue' = queue
  BY TakeTypes DEF HandleJoin, HandleRejoin, Take, Push, history
<1>2. e.user \in Users /\ e.ct \in CT /\ e.chan \in Channels
  BY <1>1, EventFields
<1>3. /\ state' = [state EXCEPT ![e.user] = us]
      /\ NormalizeUserChannels(e.user, e.ct, us, cl)
      /\ clients' = cl
  BY DEF HandleJoin, HandleRejoin, JoinFixLists, Take
<1>4. <<e.chan, e.ct>> \in us
  BY <1>2 DEF Joined, ChannelAdd, WwwChannelReplace, CT, WWW, IRC
<1>5. \A t \in CT : t # e.ct => GetChannel(us, t) = GetChannel(state[e.user], t)
  BY <1>2, OtherClient
<1>6. clients \subseteq cl
  OBVIOUS
<1>7. e.type = "join" => <<e.user, e.ct>> \in cl
  OBVIOUS
<1> HIDE DEF e, us, cl
<1>8. ASSUME NEW v \in Users, NEW t \in CT, ~Ends(e, v, t), ~IsReplay(e, v, t)
      PROVE  SameRooms(v, t)
  <2>1. v # e.user \/ t # e.ct
    BY <1>1, <1>8 DEF Ends, IsReplay
  <2>2. /\ \A w \in Users : w # e.user => state'[w] = state[w]
        /\ \A s \in CT : s # e.ct =>
             GetChannel(state'[e.user], s) = GetChannel(state[e.user], s)
        /\ clients \subseteq clients'
    BY <1>2, <1>3, <1>5, <1>6 DEF TypeOK
  <2>3. \A c \in Channels, w \in Users, s \in CT :
          w # e.user \/ s # e.ct
            => (<<c, w, s>> \in localIn' <=> <<c, w, s>> \in localIn)
    BY <1>2, <1>3, NormalizeOthers
  <2>4. \A w \in Users, s \in CT : w # e.user \/ s # e.ct => SameRooms(w, s)
    BY <1>2, <2>2, <2>3, ChangeSameRooms
  <2> QED
    BY <2>1, <2>4
<1>9. /\ <<e.chan, e.ct>> \in state'[e.user]
      /\ <<e.user, e.ct>> \in clients => <<e.user, e.ct>> \in clients'
      /\ <<e.user, e.ct>> \in clients' => <<e.chan, e.user, e.ct>> \in localIn'
  <2>1. state'[e.user] = us
    BY <1>2, <1>3 DEF TypeOK
  <2>2. ASSUME <<e.user, e.ct>> \in cl
        PROVE  <<e.chan, e.user, e.ct>> \in localIn'
    BY <1>2, <1>3, <1>4, <2>2, NormalizeConnects
  <2> QED
    BY <1>3, <1>4, <1>6, <2>1, <2>2
<1>10. e.type \notin {"part", "kick", "flush"}
  BY <1>1
<1> QED
  BY <1>1, <1>3, <1>7, <1>8, <1>9, <1>10 DEF HandledAs, e

(* A leave.                                                                 *)
LEMMA PartIsHandled ==
  ASSUME TypeOK, HandlePart
  PROVE  HandledAs(Head(batch))
<1> DEFINE e == Head(batch)
           us == PartChannels(state[e.user], e.chans, e.ct)
<1>1. /\ e \in Events /\ batch # <<>> /\ pc = "batch" /\ pc' = pc
      /\ batch' = Tail(batch) /\ e.type = "part"
      /\ asked' = asked /\ call' = call /\ queue' = queue
  BY TakeTypes DEF HandlePart, Take, history
<1>2. e.user \in Users /\ e.ct \in CT /\ e.chans \in SUBSET Channels
  BY <1>1, EventFields
<1>3. /\ state' = [state EXCEPT ![e.user] = us]
      /\ NormalizeUserChannels(e.user, e.ct, us, clients)
      /\ clients' = clients
  BY DEF HandlePart
<1>4. \A t \in CT : t # e.ct => GetChannel(us, t) = GetChannel(state[e.user], t)
  BY <1>2, OtherClient
<1>5. /\ \A t \in CT : GetChannel(us, t) \subseteq GetChannel(state[e.user], t)
      /\ e.chans = {} => GetChannel(us, e.ct) = {}
  BY DEF GetChannel, PartChannels
<1> HIDE DEF e, us
<1>6. ASSUME NEW v \in Users, NEW t \in CT, ~Ends(e, v, t)
      PROVE  SameRooms(v, t)
  <2>1. v # e.user \/ t # e.ct
    BY <1>1, <1>6 DEF Ends
  <2>2. /\ \A w \in Users : w # e.user => state'[w] = state[w]
        /\ \A s \in CT : s # e.ct =>
             GetChannel(state'[e.user], s) = GetChannel(state[e.user], s)
        /\ clients \subseteq clients'
    BY <1>2, <1>3, <1>4 DEF TypeOK
  <2>3. \A c \in Channels, w \in Users, s \in CT :
          w # e.user \/ s # e.ct
            => (<<c, w, s>> \in localIn' <=> <<c, w, s>> \in localIn)
    BY <1>2, <1>3, NormalizeOthers
  <2>4. \A w \in Users, s \in CT : w # e.user \/ s # e.ct => SameRooms(w, s)
    BY <1>2, <2>2, <2>3, ChangeSameRooms
  <2> QED
    BY <2>1, <2>4
<1>7. \A v \in Users, t \in CT :
        /\ GetChannel(state'[v], t) \subseteq GetChannel(state[v], t)
        /\ v = e.user => GetChannel(state'[v], t) = GetChannel(us, t)
  <2> SUFFICES ASSUME NEW v \in Users, NEW t \in CT
               PROVE  /\ GetChannel(state'[v], t) \subseteq GetChannel(state[v], t)
                      /\ v = e.user => GetChannel(state'[v], t) = GetChannel(us, t)
    OBVIOUS
  <2>1. state'[v] = IF v = e.user THEN us ELSE state[v]
    BY <1>2, <1>3 DEF TypeOK
  <2> QED
    BY <1>5, <2>1
<1> QED
  BY <1>1, <1>2, <1>5, <1>6, <1>7 DEF HandledAs, e

(* A kick and a flush.                                                      *)
LEMMA EndIsHandled ==
  ASSUME TypeOK, HandleKick \/ HandleFlush
  PROVE  HandledAs(Head(batch))
<1> DEFINE e == Head(batch)
<1>1. /\ e \in Events /\ batch # <<>> /\ pc = "batch" /\ pc' = pc
      /\ batch' = Tail(batch) /\ e.type \in {"kick", "flush"}
      /\ asked' = asked /\ call' = call /\ queue' = queue
  BY TakeTypes DEF HandleKick, HandleFlush, Take
<1>2. e.user \in Users
  BY <1>1, EventFields
<1>3. /\ state' = [state EXCEPT ![e.user] = {}] \/ (e.type = "flush" /\ state' = state)
      /\ clients' = clients \ {<<e.user, ct>> : ct \in CT} \/ clients' = clients
      /\ localIn' = {p \in localIn : p[2] # e.user} \/ localIn' = localIn
  BY <1>1 DEF HandleKick, HandleFlush, UnloadUser, Take
<1> HIDE DEF e
<1>4. ASSUME NEW v \in Users, NEW t \in CT
      PROVE  /\ GetChannel(state'[v], t) \subseteq GetChannel(state[v], t)
             /\ v = e.user /\ e.type = "kick" => GetChannel(state'[v], t) = {}
             /\ v # e.user => SameRooms(v, t)
  <2>1. /\ state'[v] = state[v] \/ (v = e.user /\ state'[v] = {})
        /\ v = e.user /\ e.type = "kick" => state'[v] = {}
    BY <1>1, <1>2, <1>3 DEF TypeOK
  <2>2. GetChannel({}, t) = {}
    BY DEF GetChannel
  <2>3. v # e.user =>
          /\ \A c \in Channels : <<c, v, t>> \in localIn' <=> <<c, v, t>> \in localIn
          /\ <<v, t>> \in clients => <<v, t>> \in clients'
    BY <1>3
  <2> QED
    BY <2>1, <2>2, <2>3 DEF SameRooms
<1>5. \A v \in Users, t \in CT : ~Ends(e, v, t) => v # e.user
  BY <1>1 DEF Ends
<1> QED
  BY <1>1, <1>2, <1>4, <1>5 DEF HandledAs, e

(* Every handler of the chat thread does to the rooms what its event says.  *)
LEMMA EventIsHandled ==
  ASSUME TypeOK, Handle
  PROVE  HandledAs(Head(batch))
<1>1. CASE HandleCommand \/ HandleChatMessages \/ HandleVoice
  <2> DEFINE e == Head(batch)
  <2>1. /\ e \in Events /\ batch # <<>> /\ pc = "batch" /\ pc' = pc
        /\ batch' = Tail(batch) /\ e.type \in {"command", "messages", "voice"}
        /\ asked' = asked /\ call' = call /\ queue' = queue
    BY <1>1, TakeTypes
       DEF HandleCommand, HandleChatMessages, HandleVoice, Take, history
  <2>2. state' = state /\ localIn' = localIn /\ clients \subseteq clients'
    BY <1>1 DEF HandleCommand, HandleChatMessages, HandleVoice
  <2> HIDE DEF e
  <2>3. \A v \in Users, t \in CT : SameRooms(v, t)
    BY <2>2 DEF SameRooms, GetChannel
  <2> QED
    BY <2>1, <2>3 DEF HandledAs, e
<1> QED
  BY <1>1, JoinIsHandled, PartIsHandled, EndIsHandled DEF Handle

(* The steps of the chat thread between the batches, and the emptying of a  *)
(* trash of absent users, leave every session alone; connections are only   *)
(* cleaned when nothing waits.                                              *)
LEMMA OtherStep ==
  ASSUME TypeOK, BatchTaken, TrashIsAbsent, [Next]_vars, ~Network, ~Handle
  PROVE  /\ Waiting' = Waiting /\ asked' = asked /\ call' = call
         /\ state' = state /\ localIn' = localIn
         /\ Waiting # <<>> => clients' = clients
<1> DEFINE goal == /\ Waiting' = Waiting /\ asked' = asked /\ call' = call
                   /\ state' = state /\ localIn' = localIn
                   /\ Waiting # <<>> => clients' = clients
<1>1. CASE ExtractAll
  <2>1. batch = <<>> /\ batch' = queue /\ queue' = <<>>
    BY <1>1 DEF ExtractAll, BatchTaken
  <2>2. queue \o <<>> = queue /\ <<>> \o queue = queue
    BY ConcatEmptySeq DEF TypeOK
  <2>3. Waiting' = Waiting
    BY <2>1, <2>2 DEF Waiting
  <2> QED
    BY <1>1, <2>3 DEF ExtractAll, rooms, network, history
<1>2. CASE BatchDone \/ SkipContactLists \/ UpdateContactLists
  BY <1>2 DEF BatchDone, SkipContactLists, UpdateContactLists, rooms, network, history,
     shared, Waiting
<1>3. CASE CleanLocalClients
  <2>1. batch = <<>> /\ queue = <<>>
    BY <1>3 DEF CleanLocalClients, BatchTaken
  <2>2. Waiting = <<>>
    BY <2>1, WaitingTypes
  <2> QED
    BY <1>3, <2>2 DEF CleanLocalClients, network, history, shared, Waiting
<1>4. ASSUME NEW u \in Users, EmptyTrash(u)
      PROVE  goal
  <2>1. state[u] = {}
    BY <1>4 DEF EmptyTrash, TrashIsAbsent
  <2>2. state' = state
    <3>1. [state EXCEPT ![u] = {}] = state
      BY <2>1 DEF TypeOK
    <3> QED
      BY <1>4, <3>1 DEF EmptyTrash, UnloadUser
  <2> QED
    BY <1>4, <2>2 DEF EmptyTrash, network, Waiting
<1>5. CASE UNCHANGED vars
  BY <1>5 DEF vars, rooms, network, history, shared, Waiting
<1> QED
  BY <1>1, <1>2, <1>3, <1>4, <1>5 DEF Next, ChatLoop, Housekeeping

-----------------------------------------------------------------------------
(* Leaves.  As long as the last thing asked for a session is a leave behind *)
(* no join, no join or replay of it waits, and it is in no room or the      *)
(* leave itself or a kick is still waiting.                                 *)
Joins(e, u, ct) == e.type \in {"join", "rejoin"} /\ e.user = u /\ e.ct = ct

NoJoin(events, u, ct) == \A i \in DOMAIN events : ~Joins(events[i], u, ct)

Among(e, events) == \E i \in DOMAIN events : events[i] = e

LeaveInductive ==
  \A u \in Users, ct \in CT : asked[u][ct] = AskedOut =>
    /\ NoJoin(Waiting, u, ct)
    /\ \/ GetChannel(state[u], ct) = {}
       \/ Among(Part(u, ct, {}), Waiting)
       \/ Among(Kick(u), Waiting)

(* What is among the events when one is pushed ...                          *)
LEMMA EventsPushed ==
  ASSUME NEW s \in Seq(Events), NEW e \in Events, NEW u, NEW ct
  PROVE  /\ NoJoin(s, u, ct) /\ ~Joins(e, u, ct) => NoJoin(Append(s, e), u, ct)
         /\ \A d : Among(d, s) => Among(d, Append(s, e))
         /\ Among(e, Append(s, e))
  BY AppendProperties DEF NoJoin, Among

(* ... and when the first one is taken.                                     *)
LEMMA EventsTaken ==
  ASSUME NEW s \in Seq(Events), s # <<>>, NEW u, NEW ct
  PROVE  /\ NoJoin(s, u, ct) => NoJoin(Tail(s), u, ct) /\ ~Joins(Head(s), u, ct)
         /\ \A d : Among(d, s) => Among(d, Tail(s)) \/ d = Head(s)
<1>1. /\ Tail(s) \in Seq(Events) /\ Len(s) \in Nat \ {0}
      /\ Len(Tail(s)) = Len(s) - 1
      /\ \A i \in 1 .. Len(Tail(s)) : Tail(s)[i] = s[i + 1]
      /\ DOMAIN s = 1 .. Len(s) /\ DOMAIN Tail(s) = 1 .. Len(Tail(s))
      /\ Head(s) = s[1]
  BY HeadTailProperties, LenProperties, EmptySeq
<1>2. \A i \in DOMAIN Tail(s) : i + 1 \in DOMAIN s /\ Tail(s)[i] = s[i + 1]
  BY <1>1
<1>3. \A j \in DOMAIN s : j = 1 \/ (j - 1 \in DOMAIN Tail(s) /\ Tail(s)[j - 1] = s[j])
  BY <1>1
<1>4. 1 \in DOMAIN s
  BY <1>1
<1> QED
  BY <1>1, <1>2, <1>3, <1>4 DEF NoJoin, Among

(* The values of asked are different ones.                                  *)
LEMMA AskedDiffer ==
  /\ AskedMaybe # AskedOut /\ Nothing # AskedOut
  /\ \A c : AskedIn(c) # AskedOut /\ AskedIn(c) # AskedMaybe /\ AskedIn(c) # Nothing
  /\ \A c, d : AskedIn(c) = AskedIn(d) => c = d
<1>1. /\ AskedMaybe.type = "maybe" /\ AskedOut.type = "out" /\ Nothing.type = "nothing"
      /\ \A c : AskedIn(c).type = "in" /\ AskedIn(c).chan = c
  BY DEF AskedMaybe, AskedOut, Nothing, AskedIn
<1> QED
  BY <1>1

(* What Ask leaves as it was and what it sets.                              *)
LEMMA AskSets ==
  ASSUME TypeOK, NEW u \in Users, NEW cts, NEW what, Ask(u, cts, what)
  PROVE  \A v \in Users, t \in CT :
           asked'[v][t] = IF v = u /\ t \in cts THEN what ELSE asked[v][t]
  BY DEF Ask, TypeOK

(* A network thread asks.                                                   *)
LEMMA NetworkKeepsLeaves ==
  ASSUME TypeOK, LeaveInductive, Network
  PROVE  LeaveInductive'
<1>1. state' = state /\ batch' = batch /\ Waiting \in Seq(Events)
  BY NetworkQueue, WaitingTypes DEF rooms
<1>2. CASE queue' = queue /\ asked' = asked
  BY <1>1, <1>2 DEF LeaveInductive, Waiting
<1>3. ASSUME NEW e \in Events, queue' = Append(queue, e),
             NEW v \in Users, NEW t \in CT, asked'[v][t] = AskedOut,
             asked[v][t] = AskedOut, ~Joins(e, v, t)
      PROVE  /\ NoJoin(Waiting', v, t)
             /\ \/ GetChannel(state'[v], t) = {}
                \/ Among(Part(v, t, {}), Waiting') \/ Among(Kick(v), Waiting')
  <2>1. Waiting' = Append(Waiting, e)
    BY <1>1, <1>3, WaitingPush
  <2> QED
    BY <1>1, <1>3, <2>1, EventsPushed DEF LeaveInductive
<1>4. ASSUME NEW e \in Events, e.type \in {"command", "messages", "voice"},
             queue' = Append(queue, e), asked' = asked
      PROVE  LeaveInductive'
  <2>1. \A v, t : ~Joins(e, v, t)
    BY <1>4 DEF Joins
  <2> QED
    BY <1>3, <1>4, <2>1 DEF LeaveInductive
<1>5. ASSUME NEW u \in Users, NEW ct \in CT, NEW c \in Channels,
             Push(Join(u, ct, c)), Ask(u, {ct}, AskedIn(c))
      PROVE  LeaveInductive'
  <2> DEFINE e == Join(u, ct, c)
  <2>1. e \in Events /\ queue' = Append(queue, e)
    BY <1>5 DEF Events, Push
  <2>2. e.type = "join" /\ e.user = u /\ e.ct = ct
    BY DEF Join
  <2>3. \A v \in Users, t \in CT :
          asked'[v][t] = IF v = u /\ t \in {ct} THEN AskedIn(c) ELSE asked[v][t]
    BY <1>5, AskSets
  <2> HIDE DEF e
  <2>4. ASSUME NEW v \in Users, NEW t \in CT, asked'[v][t] = AskedOut
        PROVE  asked[v][t] = AskedOut /\ ~Joins(e, v, t)
    BY <2>2, <2>3, <2>4, AskedDiffer DEF Joins
  <2> QED
    BY <1>3, <2>1, <2>4 DEF LeaveInductive
<1>6. ASSUME NEW v \in Users, NEW t \in CT, ~InFlight(v, t)
      PROVE  NoJoin(Waiting, v, t)
  BY <1>6 DEF InFlight, NoJoin, Joins, Waiting
<1>7. ASSUME NEW u \in Users, NEW ct \in CT, NEW chans \in SUBSET Channels,
             Push(Part(u, ct, chans)),
             Ask(u, {ct}, IF chans = {} /\ ~InFlight(u, ct) THEN AskedOut
                                                           ELSE AskedMaybe)
      PROVE  LeaveInductive'
  <2> DEFINE e == Part(u, ct, chans)
             what == IF chans = {} /\ ~InFlight(u, ct) THEN AskedOut ELSE AskedMaybe
  <2>1. e \in Events /\ queue' = Append(queue, e) /\ e.type = "part"
    <3>1. e \in Events
      BY DEF Events
    <3>2. e.type = "part"
      BY DEF Part
    <3> QED
      BY <1>7, <3>1, <3>2 DEF Push
  <2>2. \A v \in Users, t \in CT :
          asked'[v][t] = IF v = u /\ t \in {ct} THEN what ELSE asked[v][t]
    BY <1>7, AskSets
  <2>3. what = AskedOut => e = Part(u, ct, {}) /\ ~InFlight(u, ct)
    BY AskedDiffer
  <2>4. Waiting' = Append(Waiting, e)
    BY <1>1, <2>1, WaitingPush
  <2> HIDE DEF e, what
  <2>5. \A v, t : ~Joins(e, v, t)
    BY <2>1 DEF Joins
  <2>6. ASSUME NEW v \in Users, NEW t \in CT, asked'[v][t] = AskedOut, v = u /\ t = ct
        PROVE  NoJoin(Waiting', v, t) /\ Among(Part(v, t, {}), Waiting')
    <3>1. what = AskedOut
      BY <2>2, <2>6
    <3>2. NoJoin(Waiting, v, t)
      BY <1>6, <2>3, <2>6, <3>1
    <3>3. e = Part(v, t, {})
      BY <2>3, <2>6, <3>1
    <3> QED
      BY <1>1, <2>1, <2>4, <2>5, <3>2, <3>3, EventsPushed
  <2>7. ASSUME NEW v \in Users, NEW t \in CT, asked'[v][t] = AskedOut,
               ~(v = u /\ t = ct)
        PROVE  asked[v][t] = AskedOut
    BY <2>2, <2>7
  <2> QED
    BY <1>3, <2>1, <2>5, <2>6, <2>7 DEF LeaveInductive
<1>8. ASSUME NEW u \in Users, Push(Kick(u)),
             asked' = [asked EXCEPT ![u] =
               [ct \in CT |-> IF InFlight(u, ct) THEN AskedMaybe ELSE AskedOut]]
      PROVE  LeaveInductive'
  <2> DEFINE e == Kick(u)
  <2>1. e \in Events /\ queue' = Append(queue, e) /\ e.type = "kick"
    BY <1>8 DEF Events, Push, Kick
  <2>2. \A v \in Users, t \in CT :
          asked'[v][t] = IF v = u
                         THEN IF InFlight(u, t) THEN AskedMaybe ELSE AskedOut
                         ELSE asked[v][t]
    BY <1>8 DEF TypeOK
  <2>3. Waiting' = Append(Waiting, e)
    BY <1>1, <2>1, WaitingPush
  <2>4. e = Kick(u)
    OBVIOUS
  <2> HIDE DEF e
  <2>5. \A v, t : ~Joins(e, v, t)
    BY <2>1 DEF Joins
  <2>6. ASSUME NEW v \in Users, NEW t \in CT, asked'[v][t] = AskedOut, v = u
        PROVE  NoJoin(Waiting', v, t) /\ Among(Kick(v), Waiting')
    <3>1. NoJoin(Waiting, v, t)
      BY <1>6, <2>2, <2>6, AskedDiffer
    <3> QED
      BY <1>1, <2>1, <2>3, <2>4, <2>5, <2>6, <3>1, EventsPushed
  <2>7. ASSUME NEW v \in Users, NEW t \in CT, asked'[v][t] = AskedOut, v # u
        PROVE  asked[v][t] = AskedOut
    BY <2>2, <2>7
  <2> QED
    BY <1>3, <2>1, <2>5, <2>6, <2>7 DEF LeaveInductive
<1>9. ASSUME NEW u \in Users, Push(Flush(u)), Ask(u, CT, AskedMaybe)
      PROVE  LeaveInductive'
  <2> DEFINE e == Flush(u)
  <2>1. e \in Events /\ queue' = Append(queue, e) /\ e.type = "flush"
    BY <1>9 DEF Events, Push, Flush
  <2>2. \A v \in Users, t \in CT :
          asked'[v][t] = IF v = u /\ t \in CT THEN AskedMaybe ELSE asked[v][t]
    BY <1>9, AskSets
  <2> HIDE DEF e
  <2>3. \A v, t : ~Joins(e, v, t)
    BY <2>1 DEF Joins
  <2>4. ASSUME NEW v \in Users, NEW t \in CT, asked'[v][t] = AskedOut
        PROVE  asked[v][t] = AskedOut
    BY <2>2, <2>4, AskedDiffer
  <2> QED
    BY <1>3, <2>1, <2>3, <2>4 DEF LeaveInductive
<1> QED
  BY <1>2, <1>4, <1>5, <1>7, <1>8, <1>9, NetworkAsks

(* The chat thread handles an event.                                        *)
LEMMA HandleKeepsLeaves ==
  ASSUME TypeOK, LeaveInductive, Handle
  PROVE  LeaveInductive'
<1> DEFINE e == Head(batch)
<1>1. HandledAs(e)
  BY EventIsHandled
<1>2. /\ e \in Events /\ asked' = asked /\ batch # <<>> /\ batch' = Tail(batch)
  BY <1>1 DEF HandledAs
<1>3. /\ Waiting # <<>> /\ Head(Waiting) = e /\ Waiting \in Seq(Events)
      /\ batch' \o queue = Tail(Waiting) /\ Tail(Waiting) \in Seq(Events)
      /\ \A d \in Events : queue' = Append(queue, d) => Waiting' = Append(Tail(Waiting), d)
  BY <1>2, WaitingTake, WaitingTypes
<1> HIDE DEF e
<1> SUFFICES ASSUME NEW v \in Users, NEW t \in CT, asked[v][t] = AskedOut
             PROVE  /\ NoJoin(Waiting', v, t)
                    /\ \/ GetChannel(state'[v], t) = {}
                       \/ Among(Part(v, t, {}), Waiting') \/ Among(Kick(v), Waiting')
  BY <1>2 DEF LeaveInductive
<1>4. /\ NoJoin(Waiting, v, t)
      /\ \/ GetChannel(state[v], t) = {}
         \/ Among(Part(v, t, {}), Waiting) \/ Among(Kick(v), Waiting)
  BY DEF LeaveInductive
<1>5. NoJoin(Tail(Waiting), v, t) /\ ~Joins(e, v, t)
  BY <1>3, <1>4, EventsTaken
<1>6. /\ NoJoin(Waiting', v, t)
      /\ \A d : Among(d, Tail(Waiting)) => Among(d, Waiting')
  <2>1. CASE e.type = "join"
    <3> DEFINE r == Rejoin(e.user, e.ct, e.chan)
    <3>1. r \in Events
      BY <1>2, <2>1, EventFields DEF Events
    <3>2. Waiting' = Append(Tail(Waiting), r)
      BY <1>1, <1>3, <2>1, <3>1 DEF HandledAs
    <3>3. r.user = e.user /\ r.ct = e.ct
      BY DEF Rejoin
    <3> HIDE DEF r
    <3>4. ~Joins(r, v, t)
      BY <1>5, <2>1, <3>3 DEF Joins
    <3> QED
      BY <1>3, <1>5, <3>1, <3>2, <3>4, EventsPushed
  <2>2. CASE e.type # "join"
    <3>1. Waiting' = Tail(Waiting)
      BY <1>1, <1>3, <2>2 DEF HandledAs, Waiting
    <3> QED
      BY <1>5, <3>1
  <2> QED
    BY <2>1, <2>2
<1>7. ASSUME GetChannel(state[v], t) = {}
      PROVE  GetChannel(state'[v], t) = {}
  <2>1. CASE e.type \in {"part", "kick", "flush"}
    BY <1>1, <1>7, <2>1 DEF HandledAs
  <2>2. CASE e.type \notin {"part", "kick", "flush"}
    <3>1. ~Ends(e, v, t) /\ ~IsReplay(e, v, t)
      BY <1>5, <2>2 DEF Ends, IsReplay, Joins
    <3> QED
      BY <1>1, <1>7, <3>1 DEF HandledAs, SameRooms
  <2> QED
    BY <2>1, <2>2
<1>8. ASSUME Among(Part(v, t, {}), Waiting)
      PROVE  GetChannel(state'[v], t) = {} \/ Among(Part(v, t, {}), Waiting')
  <2>1. Among(Part(v, t, {}), Tail(Waiting)) \/ Part(v, t, {}) = e
    BY <1>3, <1>8, EventsTaken
  <2>2. ASSUME Part(v, t, {}) = e PROVE GetChannel(state'[v], t) = {}
    <3>1. e.type = "part" /\ e.user = v /\ e.ct = t /\ e.chans = {}
      BY <2>2 DEF Part
    <3> QED
      BY <1>1, <3>1 DEF HandledAs
  <2> QED
    BY <1>6, <2>1, <2>2
<1>9. ASSUME Among(Kick(v), Waiting)
      PROVE  GetChannel(state'[v], t) = {} \/ Among(Kick(v), Waiting')
  <2>1. Among(Kick(v), Tail(Waiting)) \/ Kick(v) = e
    BY <1>3, <1>9, EventsTaken
  <2>2. ASSUME Kick(v) = e PROVE GetChannel(state'[v], t) = {}
    <3>1. e.type = "kick" /\ e.user = v
      BY <2>2 DEF Kick
    <3> QED
      BY <1>1, <3>1 DEF HandledAs
  <2> QED
    BY <1>6, <2>1, <2>2
<1> QED
  BY <1>4, <1>6, <1>7, <1>8, <1>9

(* Whoever left or was kicked when no join of his was under way is out when *)
(* all events are handled, whatever other events came in between.           *)
THEOREM LeavesHonoured == Spec => []LeaveHonoured
<1>1. Init => LeaveInductive
  BY AskedDiffer DEF Init, LeaveInductive
<1>2. TypeOK /\ BatchTaken /\ TrashIsAbsent /\ LeaveInductive /\ [Next]_vars
        => LeaveInductive'
  <2> SUFFICES ASSUME TypeOK, BatchTaken, TrashIsAbsent, LeaveInductive, [Next]_vars
               PROVE  LeaveInductive'
    OBVIOUS
  <2>1. CASE ~Network /\ ~Handle
    BY <2>1, OtherStep DEF LeaveInductive
  <2> QED
    BY <2>1, NetworkKeepsLeaves, HandleKeepsLeaves
<1>3. TypeOK /\ LeaveInductive => LeaveHonoured
  <2> SUFFICES ASSUME TypeOK, LeaveInductive, Quiet,
                      NEW u \in Users, NEW ct \in CT, asked[u][ct] = AskedOut
               PROVE  GetChannel(state[u], ct) = {}
    BY DEF LeaveHonoured
  <2>1. Waiting = <<>>
    BY WaitingTypes DEF Quiet
  <2>2. \A d : ~Among(d, Waiting)
    BY <2>1 DEF Among
  <2> QED
    BY <2>2 DEF LeaveInductive
<1> QED
  BY <1>1, <1>2, <1>3, TypeCorrect, BatchAlwaysTaken, TrashAlwaysAbsent, PTL DEF Spec

-----------------------------------------------------------------------------
(* Joins.  As long as the last thing asked for a session is to be in room   *)
(* c, its join waits with nothing behind it that bears on the session; or   *)
(* the join was handled, its replay waits as the last one, and the session  *)
(* has its connection; or all of it is done and nothing waits.              *)
NoneEnds(events, u, ct) == \A i \in DOMAIN events : ~Ends(events[i], u, ct)

NoneReplays(events, u, ct) == \A i \in DOMAIN events : ~IsReplay(events[i], u, ct)

JoinWaits(events, u, ct, c) ==
  \E i \in DOMAIN events :
    /\ events[i] = Join(u, ct, c)
    /\ \A j \in DOMAIN events : i < j => ~Ends(events[j], u, ct)

ReplayWaits(events, u, ct, c) ==
  \E i \in DOMAIN events :
    /\ events[i] = Rejoin(u, ct, c)
    /\ \A j \in DOMAIN events : i < j => ~IsReplay(events[j], u, ct)

JoinUnderWay(u, ct, c) ==
  \/ JoinWaits(Waiting, u, ct, c)
  \/ /\ ReplayWaits(Waiting, u, ct, c)
     /\ NoneEnds(Waiting, u, ct)
     /\ <<u, ct>> \in clients
  \/ /\ NoneReplays(Waiting, u, ct) /\ NoneEnds(Waiting, u, ct)
     /\ <<c, ct>> \in state[u] /\ <<c, u, ct>> \in localIn

JoinInductive ==
  \A u \in Users, ct \in CT, c \in Channels :
    asked[u][ct] = AskedIn(c) => JoinUnderWay(u, ct, c)

(* The end of a sequence of events, when one is pushed ...                  *)
LEMMA JoinPushed ==
  ASSUME NEW s \in Seq(Events), NEW e \in Events, NEW u, NEW ct, NEW c,
         ~Ends(e, u, ct)
  PROVE  /\ NoneEnds(s, u, ct) => NoneEnds(Append(s, e), u, ct)
         /\ JoinWaits(s, u, ct, c) => JoinWaits(Append(s, e), u, ct, c)
         /\ ~IsReplay(e, u, ct) =>
              /\ NoneReplays(s, u, ct) => NoneReplays(Append(s, e), u, ct)
              /\ ReplayWaits(s, u, ct, c) => ReplayWaits(Append(s, e), u, ct, c)
         /\ e = Rejoin(u, ct, c) => ReplayWaits(Append(s, e), u, ct, c)
<1> DEFINE t == Append(s, e)
           n == Len(s) + 1
<1>1. /\ n \in Nat \ {0} /\ DOMAIN s = 1 .. n - 1 /\ DOMAIN t = 1 .. n
      /\ t[n] = e /\ \A i \in 1 .. n - 1 : t[i] = s[i]
  BY AppendProperties, LenProperties
<1> HIDE DEF t, n
<1>2. NoneEnds(s, u, ct) => NoneEnds(t, u, ct)
  BY <1>1 DEF NoneEnds
<1>3. JoinWaits(s, u, ct, c) => JoinWaits(t, u, ct, c)
  BY <1>1 DEF JoinWaits
<1>4. ASSUME ~IsReplay(e, u, ct)
      PROVE  /\ NoneReplays(s, u, ct) => NoneReplays(t, u, ct)
             /\ ReplayWaits(s, u, ct, c) => ReplayWaits(t, u, ct, c)
  BY <1>1, <1>4 DEF NoneReplays, ReplayWaits
<1>5. ASSUME e = Rejoin(u, ct, c)
      PROVE  ReplayWaits(t, u, ct, c)
  <2>1. n \in DOMAIN t /\ t[n] = Rejoin(u, ct, c) /\ \A j \in DOMAIN t : ~(n < j)
    BY <1>1, <1>5
  <2> QED
    BY <2>1 DEF ReplayWaits
<1> QED
  BY <1>2, <1>3, <1>4, <1>5 DEF t

(* ... a join, which then is the last event ...                             *)
LEMMA JoinIsLast ==
  ASSUME NEW s \in Seq(Events), NEW u, NEW ct, NEW c, Join(u, ct, c) \in Events
  PROVE  JoinWaits(Append(s, Join(u, ct, c)), u, ct, c)
<1> DEFINE e == Join(u, ct, c)
           t == Append(s, e)
           n == Len(s) + 1
<1>1. n \in Nat \ {0} /\ DOMAIN t = 1 .. n /\ t[n] = e
  BY AppendProperties, LenProperties
<1> HIDE DEF t, n
<1>2. n \in DOMAIN t /\ t[n] = e /\ \A j \in DOMAIN t : ~(n < j)
  BY <1>1
<1> QED
  BY <1>2 DEF JoinWaits, t

(* ... and when the first one is taken.                                     *)
LEMMA JoinTaken ==
  ASSUME NEW s \in Seq(Events), s # <<>>, NEW u, NEW ct, NEW c
  PROVE  /\ NoneEnds(s, u, ct) => NoneEnds(Tail(s), u, ct) /\ ~Ends(Head(s), u, ct)
         /\ NoneReplays(s, u, ct) =>
              NoneReplays(Tail(s), u, ct) /\ ~IsReplay(Head(s), u, ct)
         /\ JoinWaits(s, u, ct, c) =>
              \/ JoinWaits(Tail(s), u, ct, c)
              \/ Head(s) = Join(u, ct, c) /\ NoneEnds(Tail(s), u, ct)
         /\ ReplayWaits(s, u, ct, c) =>
              \/ ReplayWaits(Tail(s), u, ct, c)
              \/ Head(s) = Rejoin(u, ct, c) /\ NoneReplays(Tail(s), u, ct)
<1> DEFINE t == Tail(s)
           n == Len(s)
<1>1. /\ n \in Nat \ {0} /\ DOMAIN s = 1 .. n /\ DOMAIN t = 1 .. n - 1
      /\ \A i \in 1 .. n - 1 : t[i] = s[i + 1]
      /\ Head(s) = s[1]
  BY HeadTailProperties, LenProperties, EmptySeq
<1> HIDE DEF t, n
<1>2. \A i \in DOMAIN t : i \in Int /\ i + 1 \in DOMAIN s /\ 1 < i + 1 /\ t[i] = s[i + 1]
  BY <1>1
<1>3. 1 \in DOMAIN s /\ \A i \in DOMAIN s : i \in Int
  BY <1>1
<1>4. /\ NoneEnds(s, u, ct) => NoneEnds(t, u, ct) /\ ~Ends(Head(s), u, ct)
      /\ NoneReplays(s, u, ct) => NoneReplays(t, u, ct) /\ ~IsReplay(Head(s), u, ct)
  BY <1>1, <1>2, <1>3 DEF NoneEnds, NoneReplays
<1>5. ASSUME NEW i \in DOMAIN s, i # 1
      PROVE  /\ i - 1 \in DOMAIN t /\ t[i - 1] = s[i]
             /\ \A j \in DOMAIN t : i - 1 < j => i < j + 1
  BY <1>1, <1>5
<1>6. ASSUME JoinWaits(s, u, ct, c)
      PROVE  JoinWaits(t, u, ct, c) \/ (Head(s) = Join(u, ct, c) /\ NoneEnds(t, u, ct))
  <2>1. PICK i \in DOMAIN s : /\ s[i] = Join(u, ct, c)
                              /\ \A j \in DOMAIN s : i < j => ~Ends(s[j], u, ct)
    BY <1>6 DEF JoinWaits
  <2>2. CASE i = 1
    BY <1>1, <1>2, <2>1, <2>2 DEF NoneEnds
  <2>3. CASE i # 1
    BY <1>2, <1>5, <2>1, <2>3 DEF JoinWaits
  <2> QED
    BY <2>2, <2>3
<1>7. ASSUME ReplayWaits(s, u, ct, c)
      PROVE  \/ ReplayWaits(t, u, ct, c)
             \/ Head(s) = Rejoin(u, ct, c) /\ NoneReplays(t, u, ct)
  <2>1. PICK i \in DOMAIN s : /\ s[i] = Rejoin(u, ct, c)
                              /\ \A j \in DOMAIN s : i < j => ~IsReplay(s[j], u, ct)
    BY <1>7 DEF ReplayWaits
  <2>2. CASE i = 1
    BY <1>1, <1>2, <2>1, <2>2 DEF NoneReplays
  <2>3. CASE i # 1
    BY <1>2, <1>5, <2>1, <2>3 DEF ReplayWaits
  <2> QED
    BY <2>2, <2>3
<1> QED
  BY <1>4, <1>6, <1>7 DEF t

(* A push that does not bear on a session leaves its join under way.        *)
LEMMA PushKeepsJoin ==
  ASSUME TypeOK, NEW e \in Events, NEW u \in Users, NEW ct \in CT, NEW c \in Channels,
         UNCHANGED <<rooms, batch>>, queue' = Append(queue, e),
         ~Ends(e, u, ct), ~IsReplay(e, u, ct), JoinUnderWay(u, ct, c)
  PROVE  JoinUnderWay(u, ct, c)'
<1>1. Waiting' = Append(Waiting, e) /\ Waiting \in Seq(Events)
  BY WaitingPush, WaitingTypes
<1>2. /\ NoneEnds(Waiting, u, ct) => NoneEnds(Waiting', u, ct)
      /\ JoinWaits(Waiting, u, ct, c) => JoinWaits(Waiting', u, ct, c)
      /\ NoneReplays(Waiting, u, ct) => NoneReplays(Waiting', u, ct)
      /\ ReplayWaits(Waiting, u, ct, c) => ReplayWaits(Waiting', u, ct, c)
  BY <1>1, JoinPushed
<1>3. state' = state /\ localIn' = localIn /\ clients' = clients
  BY DEF rooms
<1> QED
  BY <1>2, <1>3 DEF JoinUnderWay

(* A network thread asks.                                                   *)
LEMMA NetworkKeepsJoins ==
  ASSUME TypeOK, JoinInductive, Network
  PROVE  JoinInductive'
<1>1. UNCHANGED <<rooms, batch>> /\ Waiting \in Seq(Events)
  BY NetworkQueue, WaitingTypes
<1>2. CASE queue' = queue /\ asked' = asked
  BY <1>1, <1>2 DEF rooms, JoinInductive, JoinUnderWay, Waiting
<1>3. ASSUME NEW e \in Events, queue' = Append(queue, e), e.type # "rejoin",
             \A u \in Users, ct \in CT, c \in Channels :
               asked'[u][ct] = AskedIn(c) =>
                 \/ asked[u][ct] = AskedIn(c) /\ ~Ends(e, u, ct)
                 \/ e = Join(u, ct, c)
      PROVE  JoinInductive'
  <2> SUFFICES ASSUME NEW u \in Users, NEW ct \in CT, NEW c \in Channels,
                      asked'[u][ct] = AskedIn(c)
               PROVE  JoinUnderWay(u, ct, c)'
    BY DEF JoinInductive
  <2>1. CASE asked[u][ct] = AskedIn(c) /\ ~Ends(e, u, ct)
    <3>1. ~IsReplay(e, u, ct) /\ JoinUnderWay(u, ct, c)
      BY <1>3, <2>1 DEF IsReplay, JoinInductive
    <3> QED
      BY <1>1, <1>3, <2>1, <3>1, PushKeepsJoin
  <2>2. CASE e = Join(u, ct, c)
    <3>1. Waiting' = Append(Waiting, Join(u, ct, c))
      BY <1>1, <1>3, <2>2, WaitingPush
    <3>2. JoinWaits(Waiting', u, ct, c)
      BY <1>1, <1>3, <2>2, <3>1, JoinIsLast
    <3> QED
      BY <3>2 DEF JoinUnderWay
  <2> QED
    BY <1>3, <2>1, <2>2
<1>4. ASSUME NEW e \in Events, e.type \in {"command", "messages", "voice"},
             queue' = Append(queue, e), asked' = asked
      PROVE  JoinInductive'
  <2>1. e.type # "rejoin" /\ \A u, ct : ~Ends(e, u, ct)
    BY <1>4 DEF Ends
  <2> QED
    BY <1>3, <1>4, <2>1
<1>5. ASSUME NEW u \in Users, NEW ct \in CT, NEW c \in Channels,
             Push(Join(u, ct, c)), Ask(u, {ct}, AskedIn(c))
      PROVE  JoinInductive'
  <2> DEFINE e == Join(u, ct, c)
  <2>1. e \in Events
    BY DEF Events
  <2>2. e.type = "join" /\ e.user = u /\ e.ct = ct
    BY DEF Join
  <2>3. \A v \in Users, t \in CT :
          asked'[v][t] = IF v = u /\ t \in {ct} THEN AskedIn(c) ELSE asked[v][t]
    BY <1>5, AskSets
  <2>4. queue' = Append(queue, e)
    BY <1>5 DEF Push
  <2>5. e = Join(u, ct, c)
    OBVIOUS
  <2> HIDE DEF e
  <2>6. ASSUME NEW v \in Users, NEW t \in CT, NEW d \in Channels,
               asked'[v][t] = AskedIn(d)
        PROVE  \/ asked[v][t] = AskedIn(d) /\ ~Ends(e, v, t)
               \/ e = Join(v, t, d)
    <3>1. CASE v = u /\ t = ct
      <4>1. AskedIn(c) = AskedIn(d)
        BY <2>3, <2>6, <3>1
      <4>2. c = d
        BY <4>1, AskedDiffer
      <4> QED
        BY <2>5, <3>1, <4>2
    <3>2. CASE ~(v = u /\ t = ct)
      BY <2>2, <2>3, <2>6, <3>2 DEF Ends
    <3> QED
      BY <3>1, <3>2
  <2> QED
    BY <1>3, <2>1, <2>2, <2>4, <2>6
<1>6. ASSUME NEW e \in Events, queue' = Append(queue, e),
             NEW u \in Users, e.user = u, e.type \in {"part", "kick", "flush"},
             \A v \in Users, t \in CT :
               \/ asked'[v][t] = asked[v][t] /\ (v # u \/ (e.type = "part" /\ t # e.ct))
               \/ asked'[v][t] \in {AskedOut, AskedMaybe}
      PROVE  JoinInductive'
  <2>1. \A v \in Users, t \in CT, d \in Channels :
          asked'[v][t] = AskedIn(d) => asked[v][t] = AskedIn(d) /\ ~Ends(e, v, t)
    BY <1>6, AskedDiffer DEF Ends
  <2> QED
    BY <1>3, <1>6, <2>1
<1>7. ASSUME NEW u \in Users, NEW ct \in CT, NEW chans \in SUBSET Channels,
             Push(Part(u, ct, chans)),
             Ask(u, {ct}, IF chans = {} /\ ~InFlight(u, ct) THEN AskedOut
                                                           ELSE AskedMaybe)
      PROVE  JoinInductive'
  <2> DEFINE e == Part(u, ct, chans)
             what == IF chans = {} /\ ~InFlight(u, ct) THEN AskedOut ELSE AskedMaybe
  <2>1. e \in Events
    BY DEF Events
  <2>2. e.type = "part" /\ e.user = u /\ e.ct = ct
    BY DEF Part
  <2>3. \A v \in Users, t \in CT :
          asked'[v][t] = IF v = u /\ t \in {ct} THEN what ELSE asked[v][t]
    BY <1>7, AskSets
  <2>4. what \in {AskedOut, AskedMaybe}
    OBVIOUS
  <2>5. queue' = Append(queue, e)
    BY <1>7 DEF Push
  <2> HIDE DEF e, what
  <2> QED
    BY <1>6, <2>1, <2>2, <2>3, <2>4, <2>5
<1>8. ASSUME NEW u \in Users, Push(Kick(u)),
             asked' = [asked EXCEPT ![u] =
               [ct \in CT |-> IF InFlight(u, ct) THEN AskedMaybe ELSE AskedOut]]
      PROVE  JoinInductive'
  <2> DEFINE e == Kick(u)
  <2>1. e \in Events
    BY DEF Events
  <2>2. e.type = "kick" /\ e.user = u
    BY DEF Kick
  <2>3. \A v \in Users, t \in CT :
          asked'[v][t] = IF v = u
                         THEN IF InFlight(u, t) THEN AskedMaybe ELSE AskedOut
                         ELSE asked[v][t]
    BY <1>8 DEF TypeOK
  <2>4. queue' = Append(queue, e)
    BY <1>8 DEF Push
  <2> HIDE DEF e
  <2> QED
    BY <1>6, <2>1, <2>2, <2>3, <2>4
<1>9. ASSUME NEW u \in Users, Push(Flush(u)), Ask(u, CT, AskedMaybe)
      PROVE  JoinInductive'
  <2> DEFINE e == Flush(u)
  <2>1. e \in Events
    BY DEF Events
  <2>2. e.type = "flush" /\ e.user = u
    BY DEF Flush
  <2>3. \A v \in Users, t \in CT :
          asked'[v][t] = IF v = u /\ t \in CT THEN AskedMaybe ELSE asked[v][t]
    BY <1>9, AskSets
  <2>4. queue' = Append(queue, e)
    BY <1>9 DEF Push
  <2> HIDE DEF e
  <2> QED
    BY <1>6, <2>1, <2>2, <2>3, <2>4
<1> QED
  BY <1>2, <1>4, <1>5, <1>7, <1>8, <1>9, NetworkAsks

(* The chat thread handles an event.                                        *)
LEMMA HandleKeepsJoins ==
  ASSUME TypeOK, JoinInductive, Handle
  PROVE  JoinInductive'
<1> DEFINE e == Head(batch)
<1>1. HandledAs(e)
  BY EventIsHandled
<1>2. /\ e \in Events /\ asked' = asked /\ batch # <<>> /\ batch' = Tail(batch)
  BY <1>1 DEF HandledAs
<1>3. /\ Waiting # <<>> /\ Head(Waiting) = e /\ Waiting \in Seq(Events)
      /\ batch' \o queue = Tail(Waiting) /\ Tail(Waiting) \in Seq(Events)
      /\ \A d \in Events : queue' = Append(queue, d) => Waiting' = Append(Tail(Waiting), d)
  BY <1>2, WaitingTake, WaitingTypes
<1> HIDE DEF e
<1>4. CASE e.type = "join"
  <2> DEFINE r == Rejoin(e.user, e.ct, e.chan)
  <2>1. e.user \in Users /\ e.ct \in CT /\ e.chan \in Channels
    BY <1>2, <1>4, EventFields
  <2>2. r \in Events
    BY <2>1 DEF Events
  <2>3. Waiting' = Append(Tail(Waiting), r)
    BY <1>1, <1>3, <1>4, <2>2 DEF HandledAs
  <2>4. r.type = "rejoin" /\ r.user = e.user /\ r.ct = e.ct
    BY DEF Rejoin
  <2>5. r = Rejoin(e.user, e.ct, e.chan)
    OBVIOUS
  <2> HIDE DEF r
  <2>6. \A u, ct : ~Ends(r, u, ct)
    BY <2>4 DEF Ends
  <2> SUFFICES ASSUME NEW u \in Users, NEW ct \in CT, NEW c \in Channels,
                      asked[u][ct] = AskedIn(c)
               PROVE  JoinUnderWay(u, ct, c)'
    BY <1>2 DEF JoinInductive
  <2>7. JoinUnderWay(u, ct, c)
    BY DEF JoinInductive
  <2>8. CASE JoinWaits(Tail(Waiting), u, ct, c)
    <3>1. JoinWaits(Waiting', u, ct, c)
      BY <1>3, <2>2, <2>3, <2>6, <2>8, JoinPushed
    <3> QED
      BY <3>1 DEF JoinUnderWay
  <2>9. CASE e = Join(u, ct, c) /\ NoneEnds(Tail(Waiting), u, ct)
    <3>1. e.user = u /\ e.ct = ct /\ e.chan = c
      BY <2>9 DEF Join
    <3>2. ReplayWaits(Waiting', u, ct, c) /\ NoneEnds(Waiting', u, ct)
      BY <1>3, <2>2, <2>3, <2>5, <2>6, <2>9, <3>1, JoinPushed
    <3>3. <<u, ct>> \in clients'
      BY <1>1, <1>4, <3>1 DEF HandledAs
    <3> QED
      BY <3>2, <3>3 DEF JoinUnderWay
  <2>10. CASE NoneEnds(Waiting, u, ct)
    <3>1. ~Ends(e, u, ct) /\ NoneEnds(Tail(Waiting), u, ct)
      BY <1>3, <2>10, JoinTaken
    <3>2. ~IsReplay(e, u, ct) /\ ~IsReplay(r, u, ct)
      BY <1>4, <2>4, <3>1 DEF Ends, IsReplay
    <3>3. SameRooms(u, ct)
      BY <1>1, <3>1, <3>2 DEF HandledAs
    <3>4. NoneEnds(Waiting', u, ct)
      BY <1>3, <2>2, <2>3, <2>6, <3>1, JoinPushed
    <3>5. ASSUME ReplayWaits(Waiting, u, ct, c), <<u, ct>> \in clients
          PROVE  JoinUnderWay(u, ct, c)'
      <4>1. e # Rejoin(u, ct, c)
        BY <1>4 DEF Rejoin
      <4>2. ReplayWaits(Tail(Waiting), u, ct, c)
        BY <1>3, <3>5, <4>1, JoinTaken
      <4>3. ReplayWaits(Waiting', u, ct, c)
        BY <1>3, <2>2, <2>3, <2>6, <3>2, <4>2, JoinPushed
      <4>4. <<u, ct>> \in clients'
        BY <3>3, <3>5 DEF SameRooms
      <4> QED
        BY <3>4, <4>3, <4>4 DEF JoinUnderWay
    <3>6. ASSUME NoneReplays(Waiting, u, ct), <<c, ct>> \in state[u],
                 <<c, u, ct>> \in localIn
          PROVE  JoinUnderWay(u, ct, c)'
      <4>1. NoneReplays(Tail(Waiting), u, ct)
        BY <1>3, <3>6, JoinTaken
      <4>2. NoneReplays(Waiting', u, ct)
        BY <1>3, <2>2, <2>3, <2>6, <3>2, <4>1, JoinPushed
      <4>3. <<c, ct>> \in state'[u] /\ <<c, u, ct>> \in localIn'
        BY <3>3, <3>6 DEF SameRooms, GetChannel
      <4> QED
        BY <3>4, <4>2, <4>3 DEF JoinUnderWay
    <3>7. JoinWaits(Waiting, u, ct, c) =>
            \/ JoinWaits(Tail(Waiting), u, ct, c)
            \/ e = Join(u, ct, c) /\ NoneEnds(Tail(Waiting), u, ct)
      BY <1>3, JoinTaken
    <3> QED
      BY <2>7, <2>8, <2>9, <3>5, <3>6, <3>7 DEF JoinUnderWay
  <2>11. JoinWaits(Waiting, u, ct, c) =>
           \/ JoinWaits(Tail(Waiting), u, ct, c)
           \/ e = Join(u, ct, c) /\ NoneEnds(Tail(Waiting), u, ct)
    BY <1>3, JoinTaken
  <2> QED
    BY <2>7, <2>8, <2>9, <2>10, <2>11 DEF JoinUnderWay
<1>5. CASE e.type # "join"
  <2>1. Waiting' = Tail(Waiting)
    BY <1>1, <1>3, <1>5 DEF HandledAs, Waiting
  <2> SUFFICES ASSUME NEW u \in Users, NEW ct \in CT, NEW c \in Channels,
                      asked[u][ct] = AskedIn(c)
               PROVE  JoinUnderWay(u, ct, c)'
    BY <1>2 DEF JoinInductive
  <2>2. JoinUnderWay(u, ct, c)
    BY DEF JoinInductive
  <2>3. CASE JoinWaits(Waiting, u, ct, c)
    <3>1. e # Join(u, ct, c)
      BY <1>5 DEF Join
    <3>2. JoinWaits(Waiting', u, ct, c)
      BY <1>3, <2>1, <2>3, <3>1, JoinTaken
    <3> QED
      BY <3>2 DEF JoinUnderWay
  <2>4. CASE ReplayWaits(Waiting, u, ct, c) /\ NoneEnds(Waiting, u, ct)
               /\ <<u, ct>> \in clients
    <3>1. NoneEnds(Waiting', u, ct) /\ ~Ends(e, u, ct)
      BY <1>3, <2>1, <2>4, JoinTaken
    <3>2. <<u, ct>> \in clients'
      <4>1. CASE IsReplay(e, u, ct)
        BY <1>1, <2>4, <4>1 DEF HandledAs, IsReplay
      <4>2. CASE ~IsReplay(e, u, ct)
        BY <1>1, <2>4, <3>1, <4>2 DEF HandledAs, SameRooms
      <4> QED
        BY <4>1, <4>2
    <3>3. CASE ReplayWaits(Tail(Waiting), u, ct, c)
      BY <2>1, <3>1, <3>2, <3>3 DEF JoinUnderWay
    <3>4. CASE e = Rejoin(u, ct, c) /\ NoneReplays(Tail(Waiting), u, ct)
      <4>1. e.type = "rejoin" /\ e.user = u /\ e.ct = ct /\ e.chan = c
        BY <3>4 DEF Rejoin
      <4>2. <<c, ct>> \in state'[u] /\ <<c, u, ct>> \in localIn'
        BY <1>1, <3>2, <4>1 DEF HandledAs
      <4> QED
        BY <2>1, <3>1, <3>4, <4>2 DEF JoinUnderWay
    <3> QED
      BY <1>3, <2>4, <3>3, <3>4, JoinTaken
  <2>5. CASE /\ NoneReplays(Waiting, u, ct) /\ NoneEnds(Waiting, u, ct)
             /\ <<c, ct>> \in state[u] /\ <<c, u, ct>> \in localIn
    <3>1. /\ NoneReplays(Waiting', u, ct) /\ NoneEnds(Waiting', u, ct)
          /\ ~Ends(e, u, ct) /\ ~IsReplay(e, u, ct)
      BY <1>3, <2>1, <2>5, JoinTaken
    <3>2. SameRooms(u, ct)
      BY <1>1, <3>1 DEF HandledAs
    <3>3. <<c, ct>> \in state'[u] /\ <<c, u, ct>> \in localIn'
      BY <2>5, <3>2 DEF SameRooms, GetChannel
    <3> QED
      BY <3>1, <3>3 DEF JoinUnderWay
  <2> QED
    BY <2>2, <2>3, <2>4, <2>5 DEF JoinUnderWay
<1> QED
  BY <1>4, <1>5

(* Whoever asked last to be in a room is in it when all events are handled, *)
(* and the room has a connection of his: the replay of an earlier join and  *)
(* the events of others never cost him the place.                           *)
THEOREM JoinsNotLost == Spec => []JoinNotLost
<1>1. Init => JoinInductive
  BY AskedDiffer DEF Init, JoinInductive
<1>2. TypeOK /\ BatchTaken /\ TrashIsAbsent /\ JoinInductive /\ [Next]_vars
        => JoinInductive'
  <2> SUFFICES ASSUME TypeOK, BatchTaken, TrashIsAbsent, JoinInductive, [Next]_vars
               PROVE  JoinInductive'
    OBVIOUS
  <2>1. CASE ~Network /\ ~Handle
    <3>1. /\ Waiting' = Waiting /\ asked' = asked
          /\ state' = state /\ localIn' = localIn
          /\ Waiting # <<>> => clients' = clients
      BY <2>1, OtherStep
    <3>2. \A u, ct, c : ReplayWaits(Waiting, u, ct, c) => Waiting # <<>>
      BY DEF ReplayWaits
    <3> QED
      BY <3>1, <3>2 DEF JoinInductive, JoinUnderWay
  <2> QED
    BY <2>1, NetworkKeepsJoins, HandleKeepsJoins
<1>3. TypeOK /\ JoinInductive => JoinNotLost
  <2> SUFFICES ASSUME TypeOK, JoinInductive, Quiet,
                      NEW u \in Users, NEW ct \in CT, NEW c \in Channels,
                      asked[u][ct] = AskedIn(c)
               PROVE  <<c, ct>> \in state[u] /\ <<c, u, ct>> \in localIn
    BY DEF JoinNotLost
  <2>1. Waiting = <<>>
    BY WaitingTypes DEF Quiet
  <2>2. ~JoinWaits(Waiting, u, ct, c) /\ ~ReplayWaits(Waiting, u, ct, c)
    BY <2>1 DEF JoinWaits, ReplayWaits
  <2> QED
    BY <2>2 DEF JoinInductive, JoinUnderWay
<1> QED
  BY <1>1, <1>2, <1>3, TypeCorrect, BatchAlwaysTaken, TrashAlwaysAbsent, PTL DEF Spec

-----------------------------------------------------------------------------
(* The shared copy.  It is ahead of the chat thread's state only while the  *)
(* join that makes up for it is about to be pushed or waits.                *)
HasJoin(events, u) == \E i \in DOMAIN events : events[i].type = "join" /\ events[i].user = u

JoinCalled(u) == \E t \in Threads : call[t].op = "join" /\ call[t].user = u

JoinComes(u) == JoinCalled(u) \/ HasJoin(Waiting, u)

GlobalInductive ==
  \A u \in Users \ voicers : global[u] \subseteq state[u] \/ JoinComes(u)

(* Joins among the events when one is pushed ...                            *)
LEMMA HasJoinPushed ==
  ASSUME NEW s \in Seq(Events), NEW e \in Events, NEW u
  PROVE  /\ HasJoin(s, u) => HasJoin(Append(s, e), u)
         /\ e.type = "join" /\ e.user = u => HasJoin(Append(s, e), u)
<1>1. /\ Len(s) \in Nat /\ DOMAIN s = 1 .. Len(s)
      /\ DOMAIN Append(s, e) = 1 .. Len(s) + 1
      /\ \A i \in 1 .. Len(s) : Append(s, e)[i] = s[i]
      /\ Append(s, e)[Len(s) + 1] = e
  BY AppendProperties, LenProperties
<1> QED
  BY <1>1 DEF HasJoin

(* ... and when the first one is taken.                                     *)
LEMMA HasJoinTaken ==
  ASSUME NEW s \in Seq(Events), s # <<>>, NEW u, HasJoin(s, u)
  PROVE  HasJoin(Tail(s), u) \/ (Head(s).type = "join" /\ Head(s).user = u)
<1>1. /\ Tail(s) \in Seq(Events) /\ Len(s) \in Nat \ {0}
      /\ DOMAIN s = 1 .. Len(s) /\ DOMAIN Tail(s) = 1 .. Len(s) - 1
      /\ \A i \in 1 .. Len(s) - 1 : Tail(s)[i] = s[i + 1]
      /\ Head(s) = s[1]
  BY HeadTailProperties, LenProperties, EmptySeq
<1>2. \A j \in DOMAIN s : j = 1 \/ (j - 1 \in DOMAIN Tail(s) /\ Tail(s)[j - 1] = s[j])
  BY <1>1
<1> QED
  BY <1>1, <1>2 DEF HasJoin

(* A network thread that makes the copy larger goes on to push the join.    *)
LEMMA NetworkPublishes ==
  ASSUME TypeOK, Network, NEW u \in Users
  PROVE  /\ voicers' = voicers /\ state' = state
         /\ global'[u] \subseteq global[u] \/ JoinCalled(u)'
         /\ JoinCalled(u) =>
              JoinCalled(u)' \/ queue' \in {Append(queue, Join(u, WWW, c)) : c \in Channels}
<1> DEFINE goal == /\ voicers' = voicers
                   /\ global'[u] \subseteq global[u] \/ JoinCalled(u)'
                   /\ JoinCalled(u) =>
                        \/ JoinCalled(u)'
                        \/ \E c \in Channels : queue' = Append(queue, Join(u, WWW, c))
<1>1. state' = state
  BY NetworkQueue DEF rooms
<1>2. ASSUME NEW t \in Threads, NEW k, call' = [call EXCEPT ![t] = k],
             call[t].op # "join", JoinCalled(u)
      PROVE  JoinCalled(u)'
  <2>1. PICK s \in Threads : call[s].op = "join" /\ call[s].user = u
    BY <1>2 DEF JoinCalled
  <2>2. call'[s] = call[s]
    BY <1>2, <2>1 DEF TypeOK
  <2> QED
    BY <2>1, <2>2 DEF JoinCalled
<1>3. Idle.op # "join"
  BY DEF Idle
<1>4. ASSUME NEW t \in Threads, NEW k, call' = [call EXCEPT ![t] = k],
             call[t].op # "join", voicers' = voicers, global' = global
      PROVE  goal
  BY <1>2, <1>4
<1>5. ASSUME NEW t \in Threads, NEW v, NEW ct, NEW chans, NEW b, Begin(t),
             AskToPart(t, v, ct, chans, b), voicers' = voicers, global' = global
      PROVE  goal
  <2>1. call' = [call EXCEPT ![t] = PartGlobal(v, ct, chans, b)]
    BY <1>5 DEF AskToPart
  <2>2. call[t].op # "join"
    BY <1>3, <1>5 DEF Begin
  <2> HIDE DEF goal
  <2> QED
    BY <1>4, <1>5, <2>1, <2>2
<1>6. ASSUME NEW t \in Threads, NEW v \in Users,
             \/ LeaveWww(t, v) \/ KilledLeaves(t, v)
             \/ \E l \in links : IrcDisconnect(t, l)
             \/ \E c \in Channels : IrcPart(t, v, c)
      PROVE  goal
  <2>1. \E w, ct, chans, b : AskToPart(t, w, ct, chans, b)
    BY <1>6 DEF LeaveWww, KilledLeaves, IrcDisconnect, IrcPart
  <2>2. Begin(t) /\ voicers' = voicers /\ global' = global
    BY <1>6 DEF LeaveWww, KilledLeaves, IrcDisconnect, IrcPart
  <2> HIDE DEF goal
  <2> QED
    BY <1>5, <2>1, <2>2
<1>7. ASSUME NEW t \in Threads, NEW v \in Users,
             \/ LogInWww(t, v) \/ LogInIrc(t, v) \/ Inactive(t, v)
             \/ \E c \in Channels : EnterReads(t, v, c)
      PROVE  goal
  <2>1. \E k : call' = [call EXCEPT ![t] = k]
    BY <1>7 DEF LogInWww, LogInIrc, Inactive, EnterReads
  <2>2. call[t].op # "join" /\ voicers' = voicers /\ global' = global
    BY <1>3, <1>7 DEF LogInWww, LogInIrc, Inactive, EnterReads, Begin, history, shared
  <2> HIDE DEF goal
  <2> QED
    BY <1>4, <2>1, <2>2
<1>8. ASSUME NEW t \in Threads, NEW v \in Users,
             \/ AdminKick(t, v)
             \/ \E c \in Channels : IrcJoin(t, v, c)
             \/ \E cmd \in Commands : SendCommand(t, v, cmd)
             \/ \E z \in Users : ChangeVoice(t, v, z)
      PROVE  goal
  <2>1. call' = call /\ voicers' = voicers /\ global' = global
    BY <1>8 DEF AdminKick, IrcJoin, SendCommand, ChangeVoice, history
  <2> QED
    BY <2>1 DEF JoinCalled
<1>9. ASSUME NEW t \in Threads,
             LogInReturns(t) \/ LogInSetsNick(t) \/ EnterAsksPage(t)
      PROVE  goal
  <2>1. \E k : call' = [call EXCEPT ![t] = k]
    BY <1>9 DEF LogInReturns, LogInSetsNick, EnterAsksPage
  <2>2. call[t].op # "join" /\ voicers' = voicers /\ global' = global
    BY <1>9 DEF LogInReturns, LogInSetsNick, EnterAsksPage, history
  <2> HIDE DEF goal
  <2> QED
    BY <1>4, <2>1, <2>2
<1>10. ASSUME NEW t \in Threads, InactiveLeaves(t)
       PROVE  goal
  <2>1. \E k : call' = [call EXCEPT ![t] = k]
    BY <1>10 DEF InactiveLeaves, AskToPart
  <2>2. call[t].op # "join" /\ voicers' = voicers /\ global' = global
    BY <1>10 DEF InactiveLeaves, history
  <2> HIDE DEF goal
  <2> QED
    BY <1>4, <2>1, <2>2
<1>11. ASSUME NEW t \in Threads, PartReturns(t)
       PROVE  goal
  <2> DEFINE p == call[t]
  <2>1. /\ global' = [global EXCEPT ![p.user] = PartChannels(@, p.chans, p.ct)]
        /\ call' = [call EXCEPT ![t] = Idle] /\ call[t].op # "join"
        /\ voicers' = voicers
    BY <1>11 DEF PartReturns, history
  <2>2. global'[u] \subseteq global[u]
    BY <2>1 DEF TypeOK, PartChannels
  <2> QED
    BY <1>2, <2>1, <2>2
<1>12. ASSUME NEW t \in Threads, EnterStores(t)
       PROVE  goal
  <2> DEFINE e == call[t]
             us == WwwChannelReplace(e.us, e.chan)
             k == EnterJoin(e.user, e.chan)
  <2>1. /\ global' = [global EXCEPT ![e.user] = us]
        /\ call' = [call EXCEPT ![t] = k]
        /\ call[t].op # "join" /\ voicers' = voicers
    BY <1>12 DEF EnterStores, history
  <2>2. k.op = "join" /\ k.user = e.user
    BY DEF EnterJoin
  <2> HIDE DEF e, us, k
  <2>3. call'[t] = k
    BY <2>1 DEF TypeOK
  <2>4. CASE e.user = u
    BY <2>1, <2>2, <2>3, <2>4 DEF JoinCalled
  <2>5. CASE e.user # u
    <3>1. global'[u] = global[u]
      BY <2>1, <2>5 DEF TypeOK
    <3> QED
      BY <1>2, <2>1, <3>1
  <2> QED
    BY <2>4, <2>5
<1>13. ASSUME NEW t \in Threads, EnterJoins(t)
       PROVE  goal
  <2> DEFINE e == call[t]
             k == EnterMessages(e.user, e.chan)
  <2>1. /\ e.user \in Users /\ e.chan \in Channels
    BY <1>13, CallFields DEF EnterJoins, TypeOK, Idle
  <2>2. /\ queue' = Append(queue, Join(e.user, WWW, e.chan))
        /\ call' = [call EXCEPT ![t] = k]
        /\ voicers' = voicers /\ global' = global
    BY <1>13 DEF EnterJoins, Push
  <2> HIDE DEF k
  <2>3. ASSUME NEW s \in Threads, call[s].op = "join", call[s].user = u, e.user # u
        PROVE  JoinCalled(u)'
    <3>1. call'[s] = call[s]
      BY <2>2, <2>3 DEF TypeOK
    <3> QED
      BY <2>3, <3>1 DEF JoinCalled
  <2>4. e.user = u => \E c \in Channels : queue' = Append(queue, Join(u, WWW, c))
    BY <2>1, <2>2
  <2> HIDE DEF e
  <2>5. JoinCalled(u) =>
          JoinCalled(u)' \/ \E c \in Channels : queue' = Append(queue, Join(u, WWW, c))
    BY <2>3, <2>4 DEF JoinCalled
  <2> QED
    BY <2>2, <2>5
<1> HIDE DEF goal
<1>14. goal
  BY <1>6, <1>7, <1>8, <1>9, <1>10, <1>11, <1>12, <1>13 DEF Network
<1> QED
  BY <1>1, <1>14 DEF goal

(* A network thread keeps the copy behind, or a join comes.                 *)
LEMMA NetworkKeepsGlobal ==
  ASSUME TypeOK, GlobalInductive, Network
  PROVE  GlobalInductive'
<1> SUFFICES ASSUME NEW u \in Users \ voicers'
             PROVE  global'[u] \subseteq state'[u] \/ JoinComes(u)'
  BY DEF GlobalInductive
<1>1. Waiting \in Seq(Events) /\ batch' = batch
  BY WaitingTypes, NetworkQueue
<1>2. /\ u \notin voicers /\ state' = state
      /\ global'[u] \subseteq global[u] \/ JoinCalled(u)'
      /\ JoinCalled(u) =>
           JoinCalled(u)' \/ queue' \in {Append(queue, Join(u, WWW, c)) : c \in Channels}
  BY NetworkPublishes
<1>3. global[u] \subseteq state[u] \/ JoinCalled(u) \/ HasJoin(Waiting, u)
  BY <1>2 DEF GlobalInductive, JoinComes
<1>4. ASSUME HasJoin(Waiting, u)
      PROVE  HasJoin(Waiting', u)
  <2>1. CASE queue' = queue
    BY <1>1, <1>4, <2>1 DEF Waiting
  <2>2. ASSUME NEW e \in Events, queue' = Append(queue, e)
        PROVE  HasJoin(Waiting', u)
    <3>1. Waiting' = Append(Waiting, e)
      BY <1>1, <2>2, WaitingPush
    <3> QED
      BY <1>1, <1>4, <3>1, HasJoinPushed
  <2> QED
    BY <2>1, <2>2, NetworkQueue
<1>5. ASSUME NEW c \in Channels, queue' = Append(queue, Join(u, WWW, c))
      PROVE  HasJoin(Waiting', u)
  <2>1. Join(u, WWW, c) \in Events
    BY DEF Events, CT
  <2>2. Waiting' = Append(Waiting, Join(u, WWW, c))
    BY <1>1, <1>5, <2>1, WaitingPush
  <2>3. Join(u, WWW, c).type = "join" /\ Join(u, WWW, c).user = u
    BY DEF Join
  <2> QED
    BY <1>1, <2>1, <2>2, <2>3, HasJoinPushed
<1> QED
  BY <1>2, <1>3, <1>4, <1>5 DEF JoinComes

(* A handler publishes the state it computes, or changes neither.           *)
LEMMA HandlePublishes ==
  ASSUME TypeOK, Handle, NEW u \in Users
  PROVE  /\ voicers \subseteq voicers'
         /\ \/ global'[u] = state'[u]
            \/ /\ global'[u] = global[u] /\ state'[u] = state[u]
               /\ ~(Head(batch).type = "join" /\ Head(batch).user = u)
            \/ u \in voicers'
<1> DEFINE e == Head(batch)
           goal == /\ voicers \subseteq voicers'
                   /\ \/ global'[u] = state'[u]
                      \/ /\ global'[u] = global[u] /\ state'[u] = state[u]
                         /\ ~(e.type = "join" /\ e.user = u)
                      \/ u \in voicers'
<1>1. ASSUME NEW v, NEW us, state' = [state EXCEPT ![v] = us],
             global' = [global EXCEPT ![v] = us],
             voicers' = voicers, e.type = "join" => e.user = v
      PROVE  goal
  BY <1>1 DEF TypeOK
<1>2. ASSUME HandleJoin \/ HandleRejoin PROVE goal
  <2> HIDE DEF goal
  <2>1. \E us : /\ state' = [state EXCEPT ![e.user] = us]
                /\ global' = [global EXCEPT ![e.user] = us]
    BY <1>2 DEF HandleJoin, HandleRejoin, JoinFixLists
  <2>2. voicers' = voicers
    BY <1>2 DEF HandleJoin, HandleRejoin, history
  <2> QED
    BY <1>1, <2>1, <2>2
<1>3. ASSUME HandlePart PROVE goal
  <2> HIDE DEF goal
  <2>1. \E us : /\ state' = [state EXCEPT ![e.user] = us]
                /\ global' = [global EXCEPT ![e.user] = us]
    BY <1>3 DEF HandlePart
  <2>2. voicers' = voicers
    BY <1>3 DEF HandlePart, history
  <2> QED
    BY <1>1, <2>1, <2>2
<1>4. ASSUME HandleKick PROVE goal
  <2> HIDE DEF goal
  <2>1. /\ state' = [state EXCEPT ![e.user] = {}]
        /\ global' = [global EXCEPT ![e.user] = {}]
        /\ voicers' = voicers
    BY <1>4 DEF HandleKick
  <2> QED
    BY <1>1, <2>1
<1>5. ASSUME HandleFlush PROVE goal
  <2>1. e.type = "flush" /\ voicers' = voicers /\ UnloadUser(e.user)
    BY <1>5 DEF HandleFlush, Take
  <2> QED
    BY <2>1 DEF UnloadUser, TypeOK
<1>6. ASSUME HandleCommand \/ HandleChatMessages PROVE goal
  <2>1. /\ e.type \in {"command", "messages"} /\ state' = state /\ voicers' = voicers
        /\ \E us \in {state[e.user], global[e.user]} :
             global' = [global EXCEPT ![e.user] = us]
    BY <1>6 DEF HandleCommand, HandleChatMessages, Take, history
  <2> QED
    BY <2>1 DEF TypeOK
<1>7. ASSUME HandleVoice PROVE goal
  <2> DEFINE done == e.user \in Admins /\ e.target \in loaded \cup {e.user}
  <2>1. /\ e.type = "voice" /\ state' = state
        /\ voicers' = IF done /\ e.target # e.user THEN voicers \cup {e.user}
                                                  ELSE voicers
        /\ global' = [global EXCEPT ![e.user] = IF done THEN state[e.target]
                                               ELSE IF e.user \in loaded THEN @
                                               ELSE state[e.user]]
    BY <1>7 DEF HandleVoice, Take
  <2> HIDE DEF done, e
  <2>2. CASE u # e.user
    <3>1. global'[u] = global[u]
      BY <2>1, <2>2 DEF TypeOK
    <3> QED
      BY <2>1, <3>1
  <2>3. CASE u = e.user
    <3>1. global'[u] = IF done THEN state[e.target]
                       ELSE IF u \in loaded THEN global[u] ELSE state[u]
      BY <2>1, <2>3 DEF TypeOK
    <3>2. CASE done /\ e.target # e.user
      BY <2>1, <2>3, <3>2
    <3>3. CASE ~(done /\ e.target # e.user)
      BY <2>1, <2>3, <3>1, <3>3
    <3> QED
      BY <3>2, <3>3
  <2> QED
    BY <2>2, <2>3
<1> HIDE DEF goal
<1>8. goal
  BY <1>2, <1>3, <1>4, <1>5, <1>6, <1>7 DEF Handle
<1> QED
  BY <1>8 DEF goal

(* The chat thread handles an event.                                        *)
LEMMA HandleKeepsGlobal ==
  ASSUME TypeOK, GlobalInductive, Handle
  PROVE  GlobalInductive'
<1> SUFFICES ASSUME NEW u \in Users \ voicers'
             PROVE  global'[u] \subseteq state'[u] \/ JoinComes(u)'
  BY DEF GlobalInductive
<1> DEFINE e == Head(batch)
<1>1. HandledAs(e)
  BY EventIsHandled
<1>2. /\ e \in Events /\ call' = call /\ batch # <<>> /\ batch' = Tail(batch)
  BY <1>1 DEF HandledAs
<1>3. /\ Waiting # <<>> /\ Head(Waiting) = e /\ Waiting \in Seq(Events)
      /\ batch' \o queue = Tail(Waiting) /\ Tail(Waiting) \in Seq(Events)
      /\ \A d \in Events : queue' = Append(queue, d) => Waiting' = Append(Tail(Waiting), d)
  BY <1>2, WaitingTake, WaitingTypes
<1>4. /\ u \notin voicers
      /\ \/ global'[u] = state'[u]
         \/ /\ global'[u] = global[u] /\ state'[u] = state[u]
            /\ ~(e.type = "join" /\ e.user = u)
  BY HandlePublishes
<1> HIDE DEF e
<1>5. ASSUME HasJoin(Tail(Waiting), u)
      PROVE  HasJoin(Waiting', u)
  <2>1. CASE e.type = "join"
    <3> DEFINE r == Rejoin(e.user, e.ct, e.chan)
    <3>1. r \in Events
      BY <1>2, <2>1, EventFields DEF Events
    <3>2. Waiting' = Append(Tail(Waiting), r)
      BY <1>1, <1>3, <2>1, <3>1 DEF HandledAs
    <3> HIDE DEF r
    <3> QED
      BY <1>3, <1>5, <3>1, <3>2, HasJoinPushed
  <2>2. CASE e.type # "join"
    BY <1>1, <1>3, <1>5, <2>2 DEF HandledAs, Waiting
  <2> QED
    BY <2>1, <2>2
<1>6. JoinCalled(u) => JoinCalled(u)'
  BY <1>2 DEF JoinCalled
<1>7. CASE global'[u] = state'[u]
  BY <1>7
<1>8. CASE /\ global'[u] = global[u] /\ state'[u] = state[u]
           /\ ~(e.type = "join" /\ e.user = u)
  <2>1. global[u] \subseteq state[u] \/ JoinCalled(u) \/ HasJoin(Waiting, u)
    BY <1>4 DEF GlobalInductive, JoinComes
  <2>2. HasJoin(Waiting, u) => HasJoin(Tail(Waiting), u)
    BY <1>3, <1>8, HasJoinTaken
  <2> QED
    BY <1>5, <1>6, <1>8, <2>1, <2>2 DEF JoinComes
<1> QED
  BY <1>4, <1>7, <1>8

(* global_state shows nobody in a room he is not in, when all events are    *)
(* handled and no call is half done; an administrator who has given or      *)
(* taken a voice is the exception.                                          *)
THEOREM GlobalIsNeverAhead == Spec => []GlobalNeverAhead
<1>1. Init => GlobalInductive
  BY DEF Init, GlobalInductive
<1>2. TypeOK /\ BatchTaken /\ TrashIsAbsent /\ GlobalInductive /\ [Next]_vars
        => GlobalInductive'
  <2> SUFFICES ASSUME TypeOK, BatchTaken, TrashIsAbsent, GlobalInductive, [Next]_vars
               PROVE  GlobalInductive'
    OBVIOUS
  <2>1. CASE ~Network /\ ~Handle
    <3>1. Waiting' = Waiting /\ call' = call /\ state' = state
      BY <2>1, OtherStep
    <3>2. voicers' = voicers /\ \A u \in Users : global'[u] \subseteq global[u]
      <4>1. CASE \E u \in Users : EmptyTrash(u)
        BY <4>1 DEF EmptyTrash, UnloadUser, TypeOK
      <4>2. CASE global' = global /\ voicers' = voicers
        BY <4>2
      <4> QED
        BY <2>1, <4>1, <4>2
           DEF Next, ChatLoop, Housekeeping, ExtractAll, BatchDone, SkipContactLists,
               UpdateContactLists, CleanLocalClients, vars, shared, history
    <3> QED
      BY <3>1, <3>2 DEF GlobalInductive, JoinComes, JoinCalled
  <2> QED
    BY <2>1, NetworkKeepsGlobal, HandleKeepsGlobal
<1>3. TypeOK /\ GlobalInductive => GlobalNeverAhead
  <2> SUFFICES ASSUME TypeOK, GlobalInductive, AtRest, NEW u \in Users \ voicers
               PROVE  global[u] \subseteq state[u]
    BY DEF GlobalNeverAhead
  <2>1. Waiting = <<>>
    BY WaitingTypes DEF AtRest, Quiet
  <2>2. ~HasJoin(Waiting, u)
    BY <2>1 DEF HasJoin
  <2>3. ~JoinCalled(u)
    BY DEF AtRest, JoinCalled, Idle
  <2> QED
    BY <2>2, <2>3 DEF GlobalInductive, JoinComes
<1> QED
  BY <1>1, <1>2, <1>3, TypeCorrect, BatchAlwaysTaken, TrashAlwaysAbsent, PTL DEF Spec

-----------------------------------------------------------------------------
(* The shared copy of the user states and its cache. *)

(* The operations on the channels of one user state stay in ChannelUs.      *)
LEMMA UserStateTypes ==
  ASSUME NEW us \in ChannelUs, NEW ct \in CT, NEW chans
  PROVE  /\ GetChannel(us, ct) \in SUBSET Channels
         /\ PartChannels(us, chans, ct) \in ChannelUs
  BY DEF ChannelUs, GetChannel, PartChannels

(* Type correctness of the shared copy of the user states.                  *)
THEOREM SharedTyped == SharedSpec => []SharedTypeOK
<1>1. SharedInit => SharedTypeOK
  BY DEF SharedInit, SharedTypeOK, Answers, ChannelUs, NoQuery
<1>2. SharedTypeOK /\ [SharedNext]_sharedVars => SharedTypeOK'
  <2> SUFFICES ASSUME SharedTypeOK, [SharedNext]_sharedVars PROVE SharedTypeOK'
    OBVIOUS
  <2> USE DEF SharedTypeOK
  <2>1. ASSUME NEW u \in Users, NEW us \in ChannelUs, SetUserState(u, us)
        PROVE SharedTypeOK'
    BY <2>1 DEF SetUserState, DropCache
  <2>2. ASSUME NEW u \in Users, NEW chans \in SUBSET Channels, NEW ct \in CT,
               PartChannelsOf(u, chans, ct)
        PROVE SharedTypeOK'
    <3>1. PartChannels(user_states[u], chans, ct) \in ChannelUs
      BY UserStateTypes
    <3>2. user_states' \in [Users -> ChannelUs]
      BY <2>2, <3>1 DEF PartChannelsOf
    <3>3. \A v \in Users \ known' : user_states'[v] = {}
      BY <2>2 DEF PartChannelsOf
    <3> QED
      BY <2>2, <3>2, <3>3 DEF PartChannelsOf, DropCache
  <2>3. ASSUME NEW u \in Users, Remove(u) PROVE SharedTypeOK'
    BY <2>3 DEF Remove, DropCache, ChannelUs
  <2>4. ASSUME NEW u \in Users, Touch(u) PROVE SharedTypeOK'
    BY <2>4 DEF Touch
  <2>5. ASSUME NEW u \in Users, NEW ct \in CT, Query(u, ct) PROVE SharedTypeOK'
    <3> DEFINE channels == IF tmpc__[u][ct] # Unfilled THEN tmpc__[u][ct]
                           ELSE GetChannel(user_states[u], ct)
    <3>1. channels \in SUBSET Channels
      BY UserStateTypes
    <3>2. answer' = [user |-> u, ct |-> ct, channels |-> channels]
      BY <2>5 DEF Query
    <3>3. answer' \in Answers
      BY <3>1, <3>2 DEF Answers
    <3>4. tmpc__' = [tmpc__ EXCEPT ![u][ct] = channels]
      BY <2>5 DEF Query
    <3>5. tmpc__' \in [Users -> [CT -> (SUBSET Channels) \cup {Unfilled}]]
      <4> HIDE DEF channels
      <4> QED BY <3>1, <3>4
    <3> QED
      BY <2>5, <3>3, <3>5 DEF Query
  <2>6. CASE UNCHANGED sharedVars
    BY <2>6 DEF sharedVars
  <2> QED
    BY <2>1, <2>2, <2>3, <2>4, <2>5, <2>6 DEF SharedNext
<1> QED
  BY <1>1, <1>2, PTL DEF SharedSpec

(* No stale list of channels is ever cached: a step that changes the        *)
(* channels of a user drops both of the user's slots, a query fills a slot  *)
(* with what user_states says.                                              *)
THEOREM CacheAlwaysCoherent == SharedSpec => []CacheCoherent
<1>1. SharedInit => CacheCoherent
  BY DEF SharedInit, CacheCoherent
<1>2. SharedTypeOK /\ CacheCoherent /\ [SharedNext]_sharedVars => CacheCoherent'
  <2> SUFFICES ASSUME SharedTypeOK, CacheCoherent, [SharedNext]_sharedVars PROVE CacheCoherent'
    OBVIOUS
  <2> USE DEF SharedTypeOK, CacheCoherent
  <2>1. ASSUME NEW u \in Users, NEW us \in ChannelUs, SetUserState(u, us)
        PROVE CacheCoherent'
    BY <2>1 DEF SetUserState, DropCache
  <2>2. ASSUME NEW u \in Users, NEW chans \in SUBSET Channels, NEW ct \in CT,
               PartChannelsOf(u, chans, ct)
        PROVE CacheCoherent'
    BY <2>2 DEF PartChannelsOf, DropCache
  <2>3. ASSUME NEW u \in Users, Remove(u) PROVE CacheCoherent'
    BY <2>3 DEF Remove, DropCache
  <2>4. ASSUME NEW u \in Users, Touch(u) PROVE CacheCoherent'
    BY <2>4 DEF Touch
  <2>5. ASSUME NEW u \in Users, NEW ct \in CT, Query(u, ct)
        PROVE CacheCoherent'
    <3>1. tmpc__' = [tmpc__ EXCEPT ![u][ct] = GetChannel(user_states[u], ct)]
      BY <2>5 DEF Query
    <3> QED
      BY <2>5, <3>1 DEF Query
  <2>6. CASE UNCHANGED sharedVars
    BY <2>6 DEF sharedVars, GetChannel
  <2> QED
    BY <2>1, <2>2, <2>3, <2>4, <2>5, <2>6 DEF SharedNext
<1> QED
  BY <1>1, <1>2, SharedTyped, PTL DEF SharedSpec

(* The shared copy with its cache implements the directory without one: a   *)
(* query returns the channels of that moment, every other step is an update *)
(* of one user or a stutter.                                                *)
THEOREM DirectoryImplemented == SharedSpec => ImplementsDirectory
<1>1. SharedInit => Directory!Init
  BY DEF SharedInit, Directory!Init, NoQuery, Directory!NoQuery
<1>2. SharedTypeOK /\ CacheCoherent /\ [SharedNext]_sharedVars => [Directory!Next]_Directory!vars
  <2> SUFFICES ASSUME SharedTypeOK, CacheCoherent, [SharedNext]_sharedVars
               PROVE  Directory!Next \/ UNCHANGED <<user_states, answer>>
    BY DEF Directory!vars
  <2> USE DEF SharedTypeOK
  <2>1. ASSUME NEW u \in Users, NEW us \in ChannelUs, SetUserState(u, us)
        PROVE Directory!Update(u)
    BY <2>1 DEF SetUserState, Directory!Update, Directory!ChannelUs, ChannelUs,
                CT, Directory!CT, WWW, IRC, Directory!WWW, Directory!IRC
  <2>2. ASSUME NEW u \in Users, NEW chans \in SUBSET Channels, NEW ct \in CT,
               PartChannelsOf(u, chans, ct)
        PROVE Directory!Update(u) \/ UNCHANGED <<user_states, answer>>
    <3>1. PartChannels(user_states[u], chans, ct) \in ChannelUs
      BY UserStateTypes
    <3> QED
      BY <2>2, <3>1 DEF PartChannelsOf, Directory!Update, Directory!ChannelUs,
            ChannelUs, CT, Directory!CT, WWW, IRC, Directory!WWW, Directory!IRC
  <2>3. ASSUME NEW u \in Users, Remove(u) PROVE Directory!Update(u)
    BY <2>3 DEF Remove, Directory!Update, Directory!ChannelUs
  <2>4. ASSUME NEW u \in Users, Touch(u)
        PROVE UNCHANGED <<user_states, answer>>
    BY <2>4 DEF Touch
  <2>5. ASSUME NEW u \in Users, NEW ct \in CT, Query(u, ct)
        PROVE Directory!Query(u, ct)
    BY <2>5 DEF Query, Directory!Query, CacheCoherent, GetChannel,
                Directory!GetChannel
  <2>6. CASE UNCHANGED sharedVars
    BY <2>6 DEF sharedVars
  <2> QED
    BY <2>1, <2>2, <2>3, <2>4, <2>5, <2>6
       DEF SharedNext, Directory!Next, CT, Directory!CT, WWW, IRC, Directory!WWW,
           Directory!IRC
<1> QED
  BY <1>1, <1>2, SharedTyped, CacheAlwaysCoherent, PTL
     DEF SharedSpec, ImplementsDirectory, Directory!Spec
==============================================================================
