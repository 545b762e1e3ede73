-------------------------- MODULE IgnoreLists_proofs ---------------------------
(***************************************************************************)
(* What holds of the four copies of a list for every set of users, of      *)
(* handlers, and of those who can be ignored.                              *)
(***************************************************************************)
EXTENDS IgnoreLists, SequenceTheorems, TLAPS

(* What a thread has in hand, by where it is. *)
HandlersReady ==
  \A h \in Handlers :
    /\ pc[h] \in {"find", "load", "insert", "use", "change", "push"}
         => work[h].other \in Others
    /\ pc[h] \in {"change", "push"} => work[h].what \in {"add", "remove"}

ThreadsReady ==
  \A t \in Threads :
    /\ pc[t] # "idle" => work[t].user \in Users
    /\ pc[t] \in {"insert", "use", "change"} <=> row[t] # 0

UpdaterReady ==
  /\ updater = "idle" <=> batch = <<>>
  /\ updater = "apply" => found # 0
  /\ updater \notin {"apply", "write"} => found = 0

ChatReady == pc[Chat] \in {"idle", "find", "load", "insert", "use"}

Ready == HandlersReady /\ ThreadsReady /\ UpdaterReady /\ ChatReady

ListsInv == TypeOK /\ Ready

EventSet == [flush : Users] \cup [update : Change]

Steps == {"idle", "find", "load", "insert", "use", "change", "push", "clear"}
Works == [user : Users \cup {None}, other : Others \cup {None},
          what : {"add", "remove", None}]

(* What an event says it is about. *)
LEMMA EventKinds ==
  ASSUME NEW e \in EventSet
  PROVE  /\ "update" \in DOMAIN e => e.update \in Change
         /\ "flush" \in DOMAIN e => e.flush \in Users
         /\ "update" \in DOMAIN e <=> ~("flush" \in DOMAIN e)
<1>1. CASE e \in [flush : Users]
  BY <1>1
<1>2. CASE e \in [update : Change]
  BY <1>2
<1> QED
  BY <1>1, <1>2 DEF EventSet

(* The two kinds of event that are made.                                   *)
LEMMA MadeEvents ==
  /\ \A u \in Users : Flush(u) \in EventSet /\ DOMAIN Flush(u) = {"flush"}
  /\ \A c \in Change : /\ Update(c) \in EventSet /\ DOMAIN Update(c) = {"update"}
                       /\ Update(c).update = c
<1>1. ASSUME NEW u \in Users PROVE Flush(u) \in EventSet /\ DOMAIN Flush(u) = {"flush"}
  BY DEF Flush, EventSet
<1>2. ASSUME NEW c \in Change
      PROVE  /\ Update(c) \in EventSet /\ DOMAIN Update(c) = {"update"}
             /\ Update(c).update = c
  BY DEF Update, EventSet
<1> QED
  BY <1>1, <1>2

(* A changed list is a list; a change touches only the one it is about.    *)
LEMMA ChangedList ==
  ASSUME NEW l \in SUBSET Others, NEW c, c.other \in Others
  PROVE  /\ Changed(l, c) \in SUBSET Others
         /\ \A z : z # c.other => (z \in Changed(l, c) <=> z \in l)
         /\ c.other \in Changed(l, c) <=> c.what = "add"
  BY DEF Changed

(* The work of a handler that has decided is a change.                     *)
LEMMA PushedChange ==
  ASSUME ListsInv, NEW h \in Handlers, pc[h] \in {"change", "push"}
  PROVE  work[h] \in Change
<1>1. work[h] \in Works /\ h \in Threads
  BY DEF ListsInv, TypeOK, Works, Threads
<1>2. /\ work[h].user \in Users /\ work[h].other \in Others
      /\ work[h].what \in {"add", "remove"}
  BY <1>1 DEF ListsInv, Ready, HandlersReady, ThreadsReady
<1> QED
  BY <1>1, <1>2 DEF Works, Change

(* What the updater has extracted: the first command and the rest.         *)
LEMMA BatchFirst ==
  ASSUME ListsInv, batch # <<>>
  PROVE  /\ batch[1] \in Change /\ Len(batch) \in Nat /\ Len(batch) > 0
         /\ batch[1].user \in Users /\ batch[1].other \in Others
         /\ Tail(batch) \in Seq(Change) /\ Len(Tail(batch)) = Len(batch) - 1
         /\ \A i \in 1..Len(Tail(batch)) : Tail(batch)[i] = batch[i + 1]
<1>1. batch \in Seq(Change)
  BY DEF ListsInv, TypeOK
<1>2. /\ Head(batch) \in Change /\ Tail(batch) \in Seq(Change) /\ Len(batch) \in Nat
      /\ Len(batch) # 0 /\ Len(Tail(batch)) = Len(batch) - 1 /\ Head(batch) = batch[1]
      /\ \A i \in 1..Len(Tail(batch)) : Tail(batch)[i] = batch[i + 1]
  BY <1>1, HeadTailProperties, EmptySeq
<1> QED
  BY <1>2 DEF Change

(* What the chat thread takes, and what it leaves.                         *)
LEMMA EventFirst ==
  ASSUME ListsInv, events # <<>>
  PROVE  /\ Head(events) \in EventSet /\ Tail(events) \in Seq(EventSet)
         /\ Len(events) \in Nat /\ Len(events) > 0 /\ Head(events) = events[1]
         /\ Len(Tail(events)) = Len(events) - 1
         /\ \A i \in 1..Len(Tail(events)) : Tail(events)[i] = events[i + 1]
<1>1. events \in Seq(EventSet)
  BY DEF ListsInv, TypeOK, EventSet
<1> QED
  BY <1>1, HeadTailProperties, EmptySeq

(* A row that a thread or the updater has in hand.                         *)
LEMMA RowInHand ==
  ASSUME ListsInv
  PROVE  /\ Len(rows) \in Nat
         /\ \A t \in Threads : row[t] # 0 =>
              row[t] \in 1..Len(rows) /\ rows[row[t]] \in SUBSET Others
         /\ \A u \in Users : cache[u] # 0 =>
              cache[u] \in 1..Len(rows) /\ rows[cache[u]] \in SUBSET Others
         /\ found # 0 => found \in 1..Len(rows) /\ rows[found] \in SUBSET Others
<1>1. rows \in Seq(SUBSET Others) /\ Len(rows) \in Nat
  BY DEF ListsInv, TypeOK
<1>2. \A i \in 1..Len(rows) : rows[i] \in SUBSET Others
  BY <1>1, ElementOfSeq
<1>3. /\ \A t \in Threads : row[t] \in 0..Len(rows)
      /\ \A u \in Users : cache[u] \in 0..Len(rows)
      /\ found \in 0..Len(rows)
  BY DEF ListsInv, TypeOK
<1>4. \A i \in 0..Len(rows) : i # 0 => i \in 1..Len(rows)
  BY <1>1
<1> QED
  BY <1>1, <1>2, <1>3, <1>4

(* The initial state.                                                      *)
LEMMA ListsInit ==
  ASSUME ListsAssumption, Init PROVE ListsInv
<1>1. NoWork \in Works
  BY DEF NoWork, Works
<1>2. \A S : <<>> \in Seq(S)
  BY EmptySeq
<1>3. Len(rows) = 0
  BY DEF Init
<1>4. left \in [{"clicks", "logins", "needs", "failures"} -> Nat]
  BY DEF Init, ListsAssumption
<1>5. TypeOK
  BY <1>1, <1>2, <1>3, <1>4 DEF Init, TypeOK, Works
<1>6. Ready
  BY DEF Init, Ready, HandlersReady, ThreadsReady, UpdaterReady, ChatReady, Threads,
         ListsAssumption
<1> QED
  BY <1>5, <1>6 DEF ListsInv

(* Any step is one of these, or changes nothing.                           *)
LEMMA StepCases ==
  ASSUME [Next]_vars
  PROVE  \/ \E h \in Handlers, u \in Users : LogIn(h, u)
         \/ \E h \in Handlers, u \in Users, z \in Others : Click(h, u, z)
         \/ \E t \in Threads : Find(t) \/ Load(t) \/ Insert(t)
         \/ \E h \in Handlers : Decide(h) \/ ChangeRow(h) \/ Push(h) \/ ClearKey(h)
         \/ Extract \/ Tell \/ Look \/ Apply \/ Write \/ Fail
         \/ Preload \/ TakeUpdate \/ TakeFlush
         \/ \E u \in Users : Need(u) \/ Purge(u) \/ Unload(u)
         \/ UNCHANGED vars
  BY DEF Next, Handler, Finder, Updater, ChatRuns, Threads

(* A step of one thread leaves all of them ready when it leaves that one   *)
(* ready.                                                                  *)
LEMMA OneThread ==
  ASSUME ListsAssumption, ListsInv, NEW t \in Threads,
         \A s \in Threads : s # t =>
           pc'[s] = pc[s] /\ work'[s] = work[s] /\ row'[s] = row[s],
         pc'[t] # "idle" => work'[t].user \in Users,
         pc'[t] \in {"insert", "use", "change"} <=> row'[t] # 0,
         t \in Handlers =>
           /\ pc'[t] \in {"find", "load", "insert", "use", "change", "push"}
                => work'[t].other \in Others
           /\ pc'[t] \in {"change", "push"} => work'[t].what \in {"add", "remove"},
         t = Chat => pc'[t] \in {"idle", "find", "load", "insert", "use"}
  PROVE  HandlersReady' /\ ThreadsReady' /\ ChatReady'
<1> USE DEF ListsInv, Ready
<1>1. ASSUME NEW h \in Handlers
      PROVE  /\ pc'[h] \in {"find", "load", "insert", "use", "change", "push"}
                  => work'[h].other \in Others
             /\ pc'[h] \in {"change", "push"} => work'[h].what \in {"add", "remove"}
  <2>1. h \in Threads
    BY DEF Threads
  <2> QED
    BY <2>1 DEF HandlersReady
<1>2. ASSUME NEW s \in Threads
      PROVE  /\ pc'[s] # "idle" => work'[s].user \in Users
             /\ pc'[s] \in {"insert", "use", "change"} <=> row'[s] # 0
  BY DEF ThreadsReady
<1>3. ChatReady'
  BY DEF ChatReady, Threads
<1> QED
  BY <1>1, <1>2, <1>3 DEF HandlersReady, ThreadsReady

(* A step that leaves the threads where they are leaves them ready.        *)
LEMMA NoThread ==
  ASSUME ListsInv, UNCHANGED threads
  PROVE  HandlersReady' /\ ThreadsReady' /\ ChatReady'
  BY DEF ListsInv, Ready, threads, HandlersReady, ThreadsReady, ChatReady

(* A place to go, and the idle one.                                        *)
LEMMA Going ==
  ASSUME ListsInv, NEW t \in Threads, NEW where \in Steps, Goes(t, where)
  PROVE  /\ pc' \in [Threads -> Steps] /\ pc'[t] = where
         /\ \A s \in Threads : s # t => pc'[s] = pc[s]
<1>1. pc \in [Threads -> Steps] /\ pc' = [pc EXCEPT ![t] = where]
  BY DEF ListsInv, TypeOK, Steps, Goes
<1> QED
  BY <1>1

(* The work that a thread gets.                                            *)
LEMMA Working ==
  ASSUME ListsInv, NEW t \in Threads, NEW w \in Works, work' = [work EXCEPT ![t] = w]
  PROVE  /\ work' \in [Threads -> Works] /\ work'[t] = w
         /\ \A s \in Threads : s # t => work'[s] = work[s]
<1>1. work \in [Threads -> Works]
  BY DEF ListsInv, TypeOK, Works
<1> QED
  BY <1>1

(* What a thread that ends leaves behind.                                  *)
LEMMA Ending ==
  ASSUME ListsInv, NEW t \in Threads, Ends(t)
  PROVE  /\ pc' \in [Threads -> Steps] /\ pc'[t] = "idle"
         /\ work' \in [Threads -> Works] /\ work'[t] = NoWork
         /\ \A s \in Threads : s # t => pc'[s] = pc[s] /\ work'[s] = work[s]
<1>1. NoWork \in Works /\ "idle" \in Steps
  BY DEF NoWork, Works, Steps
<1>2. Goes(t, "idle") /\ work' = [work EXCEPT ![t] = NoWork]
  BY DEF Ends
<1>3. /\ pc' \in [Threads -> Steps] /\ pc'[t] = "idle"
      /\ \A s \in Threads : s # t => pc'[s] = pc[s]
  BY <1>1, <1>2, Going
<1>4. /\ work' \in [Threads -> Works] /\ work'[t] = NoWork
      /\ \A s \in Threads : s # t => work'[s] = work[s]
  BY <1>1, <1>2, Working
<1> QED
  BY <1>3, <1>4

(* The row that a thread takes, or puts down.                              *)
LEMMA Holding ==
  ASSUME ListsInv, NEW t \in Threads, NEW r \in 0..Len(rows), row' = [row EXCEPT ![t] = r]
  PROVE  /\ row' \in [Threads -> 0..Len(rows)] /\ row'[t] = r
         /\ \A s \in Threads : s # t => row'[s] = row[s]
<1>1. row \in [Threads -> 0..Len(rows)]
  BY DEF ListsInv, TypeOK
<1> QED
  BY <1>1

(* What is spent.                                                          *)
LEMMA Spending ==
  ASSUME ListsInv, NEW what \in {"clicks", "logins", "needs", "failures"}, Spends(what)
  PROVE  left' \in [{"clicks", "logins", "needs", "failures"} -> Nat]
<1>1. left \in [{"clicks", "logins", "needs", "failures"} -> Nat]
  BY DEF ListsInv, TypeOK
<1>2. left[what] \in Nat /\ left[what] > 0 /\ left' = [left EXCEPT ![what] = @ - 1]
  BY <1>1 DEF Spends
<1>3. left[what] - 1 \in Nat
  BY <1>2
<1> QED
  BY <1>1, <1>2, <1>3

(* The types of what a step leaves alone and of what it changes, together. *)
LEMMA TypeParts ==
  TypeOK <=>
    /\ db \in [Users -> SUBSET Others] /\ rows \in Seq(SUBSET Others)
    /\ cache \in [Users -> 0..Len(rows)]
    /\ copy \in [Users -> {None} \cup SUBSET Others]
    /\ queue \in Seq(Change) /\ batch \in Seq(Change)
    /\ events \in Seq(EventSet)
    /\ updater \in {"idle", "tell", "look", "apply", "write"}
    /\ found \in 0..Len(rows)
    /\ pc \in [Threads -> Steps]
    /\ row \in [Threads -> 0..Len(rows)]
    /\ work \in [Threads -> Works]
    /\ left \in [{"clicks", "logins", "needs", "failures"} -> Nat]
    /\ torn \subseteq Users /\ exact \subseteq Users
  BY DEF TypeOK, EventSet, Steps, Works

(* A thread at work looks, loads, or puts what it has loaded into the cache. *)
LEMMA FinderType ==
  ASSUME ListsAssumption, ListsInv, NEW t \in Threads, Find(t) \/ Load(t) \/ Insert(t)
  PROVE  ListsInv'
<1>0. /\ TypeOK /\ work[t].user \in Users /\ Len(rows) \in Nat
      /\ pc[t] \in {"insert", "use", "change"} <=> row[t] # 0
  <2>1. pc[t] # "idle"
    BY DEF Find, Load, Insert, At
  <2> QED
    BY <2>1, RowInHand DEF ListsInv, Ready, ThreadsReady
<1>a. t \in Handlers /\ pc[t] \in {"find", "load", "insert"} => work[t].other \in Others
  BY DEF ListsInv, Ready, HandlersReady
<1>1. CASE Find(t)
  <2>1. cache[work[t].user] \in 0..Len(rows) /\ row' = [row EXCEPT ![t] = cache[work[t].user]]
    BY <1>0, <1>1 DEF TypeOK, Find
  <2>2. /\ row' \in [Threads -> 0..Len(rows)] /\ row'[t] = cache[work[t].user]
        /\ \A s \in Threads : s # t => row'[s] = row[s]
    BY <2>1, Holding
  <2> DEFINE where == IF cache[work[t].user] = 0 THEN "load" ELSE "use"
  <2>3. where \in Steps /\ Goes(t, where)
    BY <1>1 DEF Steps, Find
  <2>4. /\ pc' \in [Threads -> Steps] /\ pc'[t] = where
        /\ \A s \in Threads : s # t => pc'[s] = pc[s]
    BY <2>3, Going
  <2>5. TypeOK'
    BY <1>0, <1>1, <2>2, <2>4, TypeParts DEF Find, writer, TypeOK, Steps, Works
  <2>6. pc[t] = "find" /\ work' = work
    BY <1>1 DEF Find, At
  <2>7. HandlersReady' /\ ThreadsReady' /\ ChatReady'
    BY <1>0, <1>a, <2>2, <2>4, <2>6, OneThread
  <2>8. UpdaterReady'
    BY <1>1 DEF ListsInv, Ready, UpdaterReady, Find, writer
  <2> QED
    BY <2>5, <2>7, <2>8 DEF ListsInv, Ready
<1>2. CASE Load(t)
  <2>1. /\ db[work[t].user] \in SUBSET Others
        /\ rows' = Append(rows, db[work[t].user]) /\ row' = [row EXCEPT ![t] = Len(rows) + 1]
    BY <1>0, <1>2 DEF TypeOK, Load
  <2>2. rows' \in Seq(SUBSET Others) /\ Len(rows') = Len(rows) + 1
    BY <1>0, <2>1, AppendProperties DEF TypeOK
  <2>3. row \in [Threads -> 0..Len(rows)] /\ 0..Len(rows) \subseteq 0..(Len(rows) + 1)
    BY <1>0 DEF TypeOK
  <2>4. Len(rows) + 1 \in 0..Len(rows') /\ Len(rows) + 1 # 0 /\ 0..Len(rows) \subseteq 0..Len(rows')
    BY <1>0, <2>2
  <2>5. /\ row' \in [Threads -> 0..Len(rows')] /\ row'[t] # 0
        /\ \A s \in Threads : s # t => row'[s] = row[s]
    BY <2>1, <2>3, <2>4
  <2>6. "insert" \in Steps /\ Goes(t, "insert")
    BY <1>2 DEF Steps, Load
  <2>7. /\ pc' \in [Threads -> Steps] /\ pc'[t] = "insert"
        /\ \A s \in Threads : s # t => pc'[s] = pc[s]
    BY <2>6, Going
  <2>8. cache' \in [Users -> 0..Len(rows')] /\ found' \in 0..Len(rows')
    <3>1. /\ cache \in [Users -> 0..Len(rows)] /\ found \in 0..Len(rows)
          /\ cache' = cache /\ found' = found
      BY <1>0, <1>2 DEF TypeOK, Load, writer
    <3> QED
      BY <3>1, <2>4
  <2>9. TypeOK'
    BY <1>0, <1>2, <2>2, <2>5, <2>7, <2>8 DEF Load, writer, TypeOK, Steps, Works
  <2>10. pc[t] = "load" /\ work' = work
    BY <1>2 DEF Load, At
  <2>11. HandlersReady' /\ ThreadsReady' /\ ChatReady'
    BY <1>0, <1>a, <2>5, <2>7, <2>10, OneThread
  <2>12. UpdaterReady'
    BY <1>2 DEF ListsInv, Ready, UpdaterReady, Load, writer
  <2> QED
    BY <2>9, <2>11, <2>12 DEF ListsInv, Ready
<1>3. CASE Insert(t)
  <2>1. "use" \in Steps /\ Goes(t, "use") /\ row' = row /\ work' = work /\ pc[t] = "insert"
    BY <1>3 DEF Steps, Insert, At
  <2>2. /\ pc' \in [Threads -> Steps] /\ pc'[t] = "use"
        /\ \A s \in Threads : s # t => pc'[s] = pc[s]
    BY <2>1, Going
  <2>3. cache' \in [Users -> 0..Len(rows)] /\ torn' \subseteq Users
    <3>1. row[t] \in 0..Len(rows) /\ cache \in [Users -> 0..Len(rows)] /\ torn \subseteq Users
      BY <1>0 DEF TypeOK
    <3>2. cache' = cache \/ cache' = [cache EXCEPT ![work[t].user] = row[t]]
      BY <1>3 DEF Insert
    <3>3. torn' = torn \/ torn' = torn \cup {work[t].user}
      BY <1>3 DEF Insert
    <3> QED
      BY <1>0, <3>1, <3>2, <3>3
  <2>4. TypeOK'
    BY <1>0, <1>3, <2>2, <2>3 DEF Insert, writer, TypeOK, Steps, Works
  <2>5. HandlersReady' /\ ThreadsReady' /\ ChatReady'
    BY <1>0, <1>a, <2>1, <2>2, OneThread
  <2>6. UpdaterReady'
    BY <1>3 DEF ListsInv, Ready, UpdaterReady, Insert, writer
  <2> QED
    BY <2>4, <2>5, <2>6 DEF ListsInv, Ready
<1> QED
  BY <1>1, <1>2, <1>3
(* A handler takes a user, and a click or a login.                         *)
LEMMA ArrivalType ==
  ASSUME ListsAssumption, ListsInv, NEW h \in Handlers, NEW u \in Users,
         LogIn(h, u) \/ \E z \in Others : Click(h, u, z)
  PROVE  ListsInv'
<1>0. /\ TypeOK /\ h \in Threads /\ h # Chat /\ row[h] = 0 /\ row' = row
      /\ UpdaterReady' /\ UNCHANGED <<db, rows, cache, copy, queue, writer, torn, exact>>
  BY DEF ListsInv, Ready, ThreadsReady, Threads, ListsAssumption, LogIn, Click, At,
         UpdaterReady, writer
<1>1. CASE LogIn(h, u)
  <2>1. Goes(h, "clear") /\ "clear" \in Steps /\ WorkOn(u, None) \in Works
        /\ work' = [work EXCEPT ![h] = WorkOn(u, None)]
    BY <1>1 DEF LogIn, Steps, WorkOn, Works
  <2>2. /\ pc' \in [Threads -> Steps] /\ pc'[h] = "clear"
        /\ \A s \in Threads : s # h => pc'[s] = pc[s]
    BY <1>0, <2>1, Going
  <2>3. /\ work' \in [Threads -> Works] /\ work'[h].user = u
        /\ \A s \in Threads : s # h => work'[s] = work[s]
    BY <1>0, <2>1, Working DEF WorkOn
  <2>4. left' \in [{"clicks", "logins", "needs", "failures"} -> Nat]
    BY <1>1, Spending DEF LogIn
  <2>5. events \in Seq(EventSet) /\ Flush(u) \in EventSet
    BY <1>0, TypeParts, MadeEvents
  <2>6. events' \in Seq(EventSet)
    BY <1>1, <2>5, AppendProperties DEF LogIn
  <2>7. TypeOK'
    BY <1>0, <2>2, <2>3, <2>4, <2>6 DEF TypeOK, writer, EventSet, Steps, Works
  <2>8. HandlersReady' /\ ThreadsReady' /\ ChatReady'
    BY <1>0, <2>2, <2>3, OneThread
  <2> QED
    BY <1>0, <2>7, <2>8 DEF ListsInv, Ready
<1>2. ASSUME NEW z \in Others, Click(h, u, z) PROVE ListsInv'
  <2>1. Goes(h, "find") /\ "find" \in Steps /\ WorkOn(u, z) \in Works
        /\ work' = [work EXCEPT ![h] = WorkOn(u, z)]
    BY <1>2 DEF Click, Steps, WorkOn, Works
  <2>2. /\ pc' \in [Threads -> Steps] /\ pc'[h] = "find"
        /\ \A s \in Threads : s # h => pc'[s] = pc[s]
    BY <1>0, <2>1, Going
  <2>3. /\ work' \in [Threads -> Works] /\ work'[h].user = u /\ work'[h].other = z
        /\ \A s \in Threads : s # h => work'[s] = work[s]
    BY <1>0, <2>1, Working DEF WorkOn
  <2>4. left' \in [{"clicks", "logins", "needs", "failures"} -> Nat]
    BY <1>2, Spending DEF Click
  <2>5. events' = events
    BY <1>2 DEF Click
  <2>7. TypeOK'
    BY <1>0, <2>2, <2>3, <2>4, <2>5 DEF TypeOK, writer, Steps, Works
  <2>8. HandlersReady' /\ ThreadsReady' /\ ChatReady'
    BY <1>0, <2>2, <2>3, OneThread
  <2> QED
    BY <1>0, <2>7, <2>8 DEF ListsInv, Ready
<1> QED
  BY <1>1, <1>2

(* A handler decides, changes the row, queues the change, or clears the key. *)
LEMMA HandlerType ==
  ASSUME ListsAssumption, ListsInv, NEW h \in Handlers,
         Decide(h) \/ ChangeRow(h) \/ Push(h) \/ ClearKey(h)
  PROVE  ListsInv'
<1>0. /\ TypeOK /\ h \in Threads /\ h # Chat /\ work[h] \in Works /\ Len(rows) \in Nat
      /\ work[h].user \in Users
      /\ pc[h] \in {"insert", "use", "change"} <=> row[h] # 0
      /\ UNCHANGED <<db, copy, events, writer, left, exact>>
  <2>1. pc[h] # "idle" /\ h \in Threads /\ h # Chat
    BY DEF Decide, ChangeRow, Push, ClearKey, At, Threads, ListsAssumption
  <2> QED
    BY <2>1, RowInHand
    DEF ListsInv, TypeOK, Works, Ready, ThreadsReady, Decide, ChangeRow, Push, ClearKey
<1>a. pc[h] \in {"use", "change", "push"} => work[h].other \in Others
  BY DEF ListsInv, Ready, HandlersReady
<1>b. UpdaterReady'
  BY <1>0 DEF ListsInv, Ready, UpdaterReady, writer
<1>1. CASE Decide(h)
  <2> DEFINE w == [work[h] EXCEPT !.what =
                     IF work[h].other \in rows[row[h]] THEN "remove" ELSE "add"]
  <2>1. pc[h] = "use" /\ Goes(h, "change") /\ "change" \in Steps /\ row' = row
    BY <1>1 DEF Decide, Steps, At
  <2>2. /\ w \in Works /\ w.user = work[h].user /\ w.other = work[h].other
        /\ w.what \in {"add", "remove"}
    BY <1>0 DEF Works
  <2>3. work' = [work EXCEPT ![h] = w]
    <3>1. work' = [work EXCEPT ![h].what =
                     IF work[h].other \in rows[row[h]] THEN "remove" ELSE "add"]
      BY <1>1 DEF Decide
    <3> QED
      BY <1>0, <3>1
  <2>4. /\ work' \in [Threads -> Works] /\ work'[h] = w
        /\ \A s \in Threads : s # h => work'[s] = work[s]
    BY <1>0, <2>2, <2>3, Working
  <2>5. /\ pc' \in [Threads -> Steps] /\ pc'[h] = "change"
        /\ \A s \in Threads : s # h => pc'[s] = pc[s]
    BY <1>0, <2>1, Going
  <2> HIDE DEF w
  <2>6. TypeOK'
    BY <1>0, <1>1, <2>4, <2>5 DEF Decide, TypeOK, writer, Steps, Works
  <2>7. HandlersReady' /\ ThreadsReady' /\ ChatReady'
    BY <1>0, <1>a, <2>1, <2>2, <2>4, <2>5, OneThread
  <2> QED
    BY <1>b, <2>6, <2>7 DEF ListsInv, Ready
<1>2. CASE ChangeRow(h)
  <2>1. /\ pc[h] = "change" /\ Goes(h, "push") /\ "push" \in Steps /\ work' = work
        /\ rows' = [rows EXCEPT ![row[h]] = Changed(rows[row[h]], work[h])]
        /\ row' = [row EXCEPT ![h] = 0]
    BY <1>2 DEF ChangeRow, Steps, At
  <2>2. rows' \in Seq(SUBSET Others) /\ Len(rows') = Len(rows)
    <3>1. row[h] \in 1..Len(rows) /\ rows[row[h]] \in SUBSET Others
      BY <1>0, <2>1, RowInHand
    <3>2. Changed(rows[row[h]], work[h]) \in SUBSET Others
      BY <3>1, <1>a, <2>1, ChangedList
    <3> QED
      BY <1>0, <2>1, <3>1, <3>2, ExceptSeq DEF TypeOK
  <2>3. 0 \in 0..Len(rows)
    BY <1>0
  <2>4. /\ row' \in [Threads -> 0..Len(rows)] /\ row'[h] = 0
        /\ \A s \in Threads : s # h => row'[s] = row[s]
    BY <1>0, <2>1, <2>3, Holding
  <2>5. /\ pc' \in [Threads -> Steps] /\ pc'[h] = "push"
        /\ \A s \in Threads : s # h => pc'[s] = pc[s]
    BY <1>0, <2>1, Going
  <2>6. TypeOK'
    BY <1>0, <1>2, <2>2, <2>4, <2>5 DEF ChangeRow, TypeOK, writer, Steps, Works
  <2>c. work[h].what \in {"add", "remove"}
    BY <2>1 DEF ListsInv, Ready, HandlersReady
  <2>7. HandlersReady' /\ ThreadsReady' /\ ChatReady'
    BY <1>0, <1>a, <2>1, <2>4, <2>5, <2>c, OneThread
  <2> QED
    BY <1>b, <2>6, <2>7 DEF ListsInv, Ready
<1>3. CASE Push(h)
  <2>1. pc[h] = "push" /\ Ends(h) /\ row' = row /\ queue' = Append(queue, work[h])
    BY <1>3 DEF Push, At
  <2>2. /\ pc' \in [Threads -> Steps] /\ pc'[h] = "idle" /\ work' \in [Threads -> Works]
        /\ \A s \in Threads : s # h => pc'[s] = pc[s] /\ work'[s] = work[s]
    BY <1>0, <2>1, Ending
  <2>3. work[h] \in Change /\ queue \in Seq(Change)
    BY <1>0, <2>1, PushedChange DEF TypeOK
  <2>4. queue' \in Seq(Change)
    BY <2>1, <2>3, AppendProperties
  <2>5. TypeOK'
    BY <1>0, <1>3, <2>2, <2>4 DEF Push, TypeOK, writer, Steps, Works
  <2>6. HandlersReady' /\ ThreadsReady' /\ ChatReady'
    BY <1>0, <2>1, <2>2, OneThread
  <2> QED
    BY <1>b, <2>5, <2>6 DEF ListsInv, Ready
<1>4. CASE ClearKey(h)
  <2>1. pc[h] = "clear" /\ Ends(h) /\ row' = row /\ cache' = [cache EXCEPT ![work[h].user] = 0]
    BY <1>4 DEF ClearKey, At
  <2>2. /\ pc' \in [Threads -> Steps] /\ pc'[h] = "idle" /\ work' \in [Threads -> Works]
        /\ \A s \in Threads : s # h => pc'[s] = pc[s] /\ work'[s] = work[s]
    BY <1>0, <2>1, Ending
  <2>3. cache' \in [Users -> 0..Len(rows)]
    <3>1. 0 \in 0..Len(rows) /\ cache \in [Users -> 0..Len(rows)]
      BY <1>0 DEF TypeOK
    <3> QED
      BY <3>1, <2>1
  <2>4. torn' \subseteq Users
    <3>1. torn \subseteq Users
      BY <1>0 DEF TypeOK
    <3>2. torn' = torn \cup {work[h].user} \/ torn' = torn \ {work[h].user}
      BY <1>4 DEF ClearKey
    <3> QED
      BY <1>0, <3>1, <3>2
  <2>5. TypeOK'
    BY <1>0, <1>4, <2>2, <2>3, <2>4 DEF ClearKey, TypeOK, writer, Steps, Works
  <2>6. HandlersReady' /\ ThreadsReady' /\ ChatReady'
    BY <1>0, <2>1, <2>2, OneThread
  <2> QED
    BY <1>b, <2>5, <2>6 DEF ListsInv, Ready
<1> QED
  BY <1>1, <1>2, <1>3, <1>4
(* The updater takes a batch and goes through its first command.           *)
LEMMA UpdaterType ==
  ASSUME ListsAssumption, ListsInv, Extract \/ Tell \/ Look \/ Apply \/ Write \/ Fail
  PROVE  ListsInv'
<1>0. /\ TypeOK /\ Len(rows) \in Nat /\ UNCHANGED <<cache, copy, threads>>
      /\ batch \in Seq(Change) /\ queue \in Seq(Change) /\ <<>> \in Seq(Change)
      /\ updater = "idle" <=> batch = <<>>
      /\ 0 \in 0..Len(rows)
  <2>1. Len(rows) \in Nat /\ <<>> \in Seq(Change)
    BY RowInHand, EmptySeq
  <2>2. 0 \in 0..Len(rows)
    BY <2>1
  <2> QED
    BY <2>1, <2>2 DEF ListsInv, Ready, UpdaterReady, TypeOK, Extract, Tell, Look, Apply, Write, Fail,
         threads
<1>a. HandlersReady' /\ ThreadsReady' /\ ChatReady'
  BY <1>0, NoThread
<1>1. CASE Extract
  <2>1. TypeOK' /\ UpdaterReady'
    BY <1>0, <1>1 DEF Extract, TypeOK, threads, ListsInv, Ready, UpdaterReady
  <2> QED
    BY <1>a, <2>1 DEF ListsInv, Ready
<1>2. CASE Tell
  <2>1. batch # <<>>
    BY <1>0, <1>2 DEF Tell
  <2>2. events \in Seq(EventSet) /\ Update(batch[1]) \in EventSet
    BY <1>0, <2>1, TypeParts, BatchFirst, MadeEvents
  <2>3. events' \in Seq(EventSet)
    BY <1>2, <2>2, AppendProperties DEF Tell
  <2>4. TypeOK' /\ UpdaterReady'
    BY <1>0, <1>2, <2>3 DEF Tell, TypeOK, EventSet, threads, ListsInv, Ready, UpdaterReady
  <2> QED
    BY <1>a, <2>4 DEF ListsInv, Ready
<1>3. CASE Look
  <2>1. batch # <<>>
    BY <1>0, <1>3 DEF Look
  <2>2. found' \in 0..Len(rows)
    BY <1>0, <1>3, <2>1, BatchFirst DEF Look, TypeOK
  <2>3. TypeOK' /\ UpdaterReady'
    BY <1>0, <1>3, <2>2 DEF Look, TypeOK, threads, ListsInv, Ready, UpdaterReady
  <2> QED
    BY <1>a, <2>3 DEF ListsInv, Ready
<1>4. CASE Apply
  <2>1. batch # <<>> /\ found # 0
    BY <1>0, <1>4 DEF Apply, ListsInv, Ready, UpdaterReady
  <2>2. found \in 1..Len(rows) /\ rows[found] \in SUBSET Others /\ batch[1].other \in Others
    BY <2>1, RowInHand, BatchFirst
  <2>3. Changed(rows[found], batch[1]) \in SUBSET Others
    BY <2>2, ChangedList
  <2>4. rows' = [rows EXCEPT ![found] = Changed(rows[found], batch[1])]
    BY <1>4 DEF Apply
  <2>5. rows' \in Seq(SUBSET Others) /\ Len(rows') = Len(rows)
    BY <1>0, <2>2, <2>3, <2>4, ExceptSeq DEF TypeOK
  <2>6. TypeOK' /\ UpdaterReady'
    BY <1>0, <1>4, <2>5 DEF Apply, TypeOK, threads, ListsInv, Ready, UpdaterReady
  <2> QED
    BY <1>a, <2>6 DEF ListsInv, Ready
<1>5. CASE Write
  <2>1. batch # <<>>
    BY <1>0, <1>5 DEF Write
  <2>2. /\ batch[1].user \in Users /\ batch[1].other \in Others
        /\ Tail(batch) \in Seq(Change) /\ Len(Tail(batch)) = Len(batch) - 1 /\ Len(batch) \in Nat
    BY <2>1, BatchFirst
  <2>3. db[batch[1].user] \in SUBSET Others
    BY <1>0, <2>2 DEF TypeOK
  <2>4. Changed(db[batch[1].user], batch[1]) \in SUBSET Others
    BY <2>2, <2>3, ChangedList
  <2>5. db' = [db EXCEPT ![batch[1].user] = Changed(db[batch[1].user], batch[1])]
    BY <1>5 DEF Write
  <2>6. db' \in [Users -> SUBSET Others]
    BY <1>0, <2>4, <2>5 DEF TypeOK
  <2>7. TypeOK'
    BY <1>0, <1>5, <2>2, <2>6 DEF Write, TypeOK, threads
  <2>8. UpdaterReady'
    <3>0. Len(Tail(batch)) = 0 <=> Tail(batch) = <<>>
      BY <2>2, EmptySeq
    <3>1. Len(batch) = 1 <=> Tail(batch) = <<>>
      BY <2>2, <3>0
    <3> QED
      BY <1>5, <3>1 DEF Write, UpdaterReady
  <2> QED
    BY <1>a, <2>7, <2>8 DEF ListsInv, Ready
<1>6. CASE Fail
  <2>1. batch # <<>>
    BY <1>0, <1>6 DEF Fail
  <2>2. \A i \in DOMAIN batch : batch[i].user \in Users
    <3>1. DOMAIN batch = 1..Len(batch) /\ \A i \in 1..Len(batch) : batch[i] \in Change
      BY <1>0, LenProperties, ElementOfSeq
    <3> QED
      BY <3>1 DEF Change
  <2>3. torn' \subseteq Users /\ exact' \subseteq Users
    BY <1>0, <1>6, <2>2 DEF TypeOK, Fail
  <2>4. left' \in [{"clicks", "logins", "needs", "failures"} -> Nat]
    BY <1>6, Spending DEF Fail
  <2>5. TypeOK' /\ UpdaterReady'
    BY <1>0, <1>6, <2>3, <2>4 DEF Fail, TypeOK, threads, UpdaterReady
  <2> QED
    BY <1>a, <2>5 DEF ListsInv, Ready
<1> QED
  BY <1>1, <1>2, <1>3, <1>4, <1>5, <1>6

(* The chat thread takes an event.                                         *)
LEMMA TakeType ==
  ASSUME ListsAssumption, ListsInv, TakeUpdate \/ TakeFlush
  PROVE  ListsInv'
<1>0. TypeOK /\ events # <<>> /\ UNCHANGED <<db, rows, cache, queue, writer, threads, left, torn, exact>>
  BY DEF ListsInv, TakeUpdate, TakeFlush
<1>1. Head(events) \in EventSet /\ Tail(events) \in Seq(EventSet)
  BY <1>0, EventFirst
<1>2. events' \in Seq([flush : Users] \cup [update : Change])
  BY <1>1 DEF TakeUpdate, TakeFlush, EventSet
<1>3. copy' \in [Users -> {None} \cup SUBSET Others]
  <2>0. copy \in [Users -> {None} \cup SUBSET Others]
    BY <1>0 DEF TypeOK
  <2>1. CASE TakeUpdate
    <3> DEFINE c == Head(events).update
    <3>1. c \in Change
      BY <1>1, <2>1, EventKinds DEF TakeUpdate
    <3>2. c.user \in Users /\ c.other \in Others
      BY <3>1 DEF Change
    <3>3. copy' = IF copy[c.user] = None THEN copy
                  ELSE [copy EXCEPT ![c.user] = Changed(copy[c.user], c)]
      BY <2>1 DEF TakeUpdate
    <3>4. copy[c.user] # None => Changed(copy[c.user], c) \in SUBSET Others
      <4>1. copy[c.user] # None => copy[c.user] \in SUBSET Others
        BY <2>0, <3>2
      <4> QED
        BY <3>2, <4>1, ChangedList
    <3> HIDE DEF c
    <3> QED
      BY <2>0, <3>2, <3>3, <3>4
  <2>2. CASE TakeFlush
    BY <2>0, <2>2 DEF TakeFlush
  <2> QED
    BY <2>1, <2>2
<1>4. TypeOK'
  BY <1>0, <1>2, <1>3 DEF TypeOK, writer, threads
<1>5. HandlersReady' /\ ThreadsReady' /\ ChatReady' /\ UpdaterReady'
  BY <1>0, NoThread DEF ListsInv, Ready, UpdaterReady, writer
<1> QED
  BY <1>4, <1>5 DEF ListsInv, Ready

(* The chat thread needs a user, takes his row, or unloads him; the purge. *)
LEMMA ChatType ==
  ASSUME ListsAssumption, ListsInv,
         Preload \/ \E u \in Users : Need(u) \/ Purge(u) \/ Unload(u)
  PROVE  ListsInv'
<1>0. /\ TypeOK /\ Chat \in Threads /\ Chat \notin Handlers /\ Len(rows) \in Nat
      /\ UNCHANGED <<db, rows, events, queue, writer>>
  BY RowInHand DEF ListsInv, Threads, ListsAssumption, Preload, Need, Purge, Unload
<1>a. UpdaterReady'
  BY <1>0 DEF ListsInv, Ready, UpdaterReady, writer
<1>1. CASE Preload
  <2>1. /\ pc[Chat] = "use" /\ Ends(Chat) /\ row' = [row EXCEPT ![Chat] = 0]
        /\ 0 \in 0..Len(rows)
    BY <1>0, <1>1 DEF Preload, At
  <2>2. /\ pc' \in [Threads -> Steps] /\ pc'[Chat] = "idle" /\ work' \in [Threads -> Works]
        /\ \A s \in Threads : s # Chat => pc'[s] = pc[s] /\ work'[s] = work[s]
    BY <1>0, <2>1, Ending
  <2>3. /\ row' \in [Threads -> 0..Len(rows)] /\ row'[Chat] = 0
        /\ \A s \in Threads : s # Chat => row'[s] = row[s]
    BY <1>0, <2>1, Holding
  <2>4. work[Chat].user \in Users /\ row[Chat] # 0
    BY <1>0, <2>1 DEF ListsInv, Ready, ThreadsReady
  <2>5. rows[row[Chat]] \in SUBSET Others
    BY <1>0, <2>4, RowInHand
  <2>6. copy' \in [Users -> {None} \cup SUBSET Others]
    <3>1. /\ copy' = [copy EXCEPT ![work[Chat].user] = rows[row[Chat]]]
          /\ copy \in [Users -> {None} \cup SUBSET Others]
      BY <1>0, <1>1 DEF Preload, TypeOK
    <3> QED
      BY <2>5, <3>1
  <2>7. exact' \subseteq Users
    <3>1. exact' = exact \cup {work[Chat].user} \/ exact' = exact \ {work[Chat].user}
      BY <1>1 DEF Preload
    <3> QED
      BY <1>0, <2>4, <3>1 DEF TypeOK
  <2>8. TypeOK'
    BY <1>0, <1>1, <2>2, <2>3, <2>6, <2>7 DEF Preload, TypeOK, writer, Steps, Works
  <2>9. HandlersReady' /\ ThreadsReady' /\ ChatReady'
    BY <1>0, <2>2, <2>3, OneThread
  <2> QED
    BY <1>a, <2>8, <2>9 DEF ListsInv, Ready
<1>2. ASSUME NEW u \in Users, Need(u) PROVE ListsInv'
  <2>1. /\ pc[Chat] = "idle" /\ Goes(Chat, "find") /\ "find" \in Steps /\ row' = row
        /\ WorkOn(u, None) \in Works /\ work' = [work EXCEPT ![Chat] = WorkOn(u, None)]
        /\ Spends("needs")
    BY <1>2 DEF Need, Steps, WorkOn, Works, At
  <2>2. /\ pc' \in [Threads -> Steps] /\ pc'[Chat] = "find"
        /\ \A s \in Threads : s # Chat => pc'[s] = pc[s]
    BY <1>0, <2>1, Going
  <2>3. /\ work' \in [Threads -> Works] /\ work'[Chat].user = u
        /\ \A s \in Threads : s # Chat => work'[s] = work[s]
    BY <1>0, <2>1, Working DEF WorkOn
  <2>4. left' \in [{"clicks", "logins", "needs", "failures"} -> Nat]
    BY <2>1, Spending
  <2>5. row[Chat] = 0
    BY <1>0, <2>1 DEF ListsInv, Ready, ThreadsReady
  <2>6. TypeOK'
    BY <1>0, <1>2, <2>2, <2>3, <2>4 DEF Need, TypeOK, writer, Steps, Works
  <2>7. HandlersReady' /\ ThreadsReady' /\ ChatReady'
    BY <1>0, <2>1, <2>2, <2>3, <2>5, OneThread
  <2> QED
    BY <1>a, <2>6, <2>7 DEF ListsInv, Ready
<1>3. ASSUME NEW u \in Users, Purge(u) PROVE ListsInv'
  <2>1. cache' \in [Users -> 0..Len(rows)]
    <3>1. /\ cache' = [cache EXCEPT ![u] = 0] /\ cache \in [Users -> 0..Len(rows)]
          /\ 0 \in 0..Len(rows)
      BY <1>0, <1>3 DEF Purge, TypeOK
    <3> QED
      BY <3>1
  <2>2. torn' \subseteq Users
    BY <1>0, <1>3 DEF Purge, TypeOK
  <2>3. TypeOK'
    BY <1>0, <1>3, <2>1, <2>2 DEF Purge, TypeOK, writer, threads
  <2>4. HandlersReady' /\ ThreadsReady' /\ ChatReady'
    BY <1>3, NoThread DEF Purge
  <2> QED
    BY <1>a, <2>3, <2>4 DEF ListsInv, Ready
<1>4. ASSUME NEW u \in Users, Unload(u) PROVE ListsInv'
  <2>1. copy' \in [Users -> {None} \cup SUBSET Others]
    BY <1>0, <1>4 DEF Unload, TypeOK
  <2>3. TypeOK'
    BY <1>0, <1>4, <2>1 DEF Unload, TypeOK, writer, threads
  <2>4. HandlersReady' /\ ThreadsReady' /\ ChatReady'
    BY <1>4, NoThread DEF Unload
  <2> QED
    BY <1>a, <2>3, <2>4 DEF ListsInv, Ready
<1> QED
  BY <1>1, <1>2, <1>3, <1>4

(* A step that changes nothing.                                            *)
LEMMA StutterType ==
  ASSUME ListsInv, UNCHANGED vars PROVE ListsInv'
<1>1. TypeOK'
  BY DEF ListsInv, vars, writer, threads, TypeOK
<1>2. HandlersReady' /\ ThreadsReady' /\ ChatReady' /\ UpdaterReady'
  BY NoThread DEF vars, ListsInv, Ready, UpdaterReady, writer
<1> QED
  BY <1>1, <1>2 DEF ListsInv, Ready

(* The types, and what each thread has in hand, are inductive.             *)
LEMMA ListsStep ==
  ASSUME ListsAssumption, ListsInv, [Next]_vars PROVE ListsInv'
  BY StepCases, ArrivalType, FinderType, HandlerType, UpdaterType, TakeType, ChatType,
     StutterType

(* The four places hold what they are meant to hold: lists of those who    *)
(* can be ignored, and a row, where a thread is at work with one.          *)
THEOREM TypeCorrect ==
  Spec => []TypeOK
<1>0. ListsAssumption
  BY ListsAssumption
<1>1. Init => ListsInv
  BY <1>0, ListsInit
<1>2. ListsInv /\ [Next]_vars => ListsInv'
  BY <1>0, ListsStep
<1>3. ListsInv => TypeOK
  BY DEF ListsInv
<1> QED
  BY <1>1, <1>2, <1>3, PTL DEF Spec-----------------------------------------------------------------------------
(* No two users share a row: the row in the cache, one in hand, and the one *)
(* that the updater has found.                                             *)

Owns(u, o) ==
  \/ cache[u] = o
  \/ \E t \in Threads : row[t] = o /\ work[t].user = u
  \/ found = o /\ batch[1].user = u

OneOwner ==
  \A o \in 1..Len(rows) : \A u, v \in Users : Owns(u, o) /\ Owns(v, o) => u = v

(* Between its look and its write the updater has the row that is cached,  *)
(* and none when none is.                                                  *)
FoundCached ==
  \A u \in Users \ torn : PastLook(u) => cache[u] = found

(* Only a load gives a row to somebody who had no part in it.              *)
LEMMA OwnersStay ==
  ASSUME ListsAssumption, ListsInv, [Next]_vars,
         \A t \in Threads : ~Load(t)
  PROVE  \A u \in Users, o \in 1..Len(rows) : Owns(u, o)' => Owns(u, o)
<1> SUFFICES ASSUME NEW u \in Users, NEW o \in 1..Len(rows), Owns(u, o)'
             PROVE  Owns(u, o)
  OBVIOUS
<1>0. Len(rows) \in Nat /\ o # 0 /\ TypeOK /\ Chat \in Threads
  BY RowInHand DEF ListsInv, Threads
<1>h. \A h \in Handlers : h \in Threads
  BY DEF Threads
<1>r. \A t \in Threads : pc[t] \in {"insert", "use", "change"} <=> row[t] # 0
  BY DEF ListsInv, Ready, ThreadsReady
<1>w. \A t \in Threads : pc[t] # "idle" => work[t].user \in Users
  BY DEF ListsInv, Ready, ThreadsReady
<1>ty. /\ work \in [Threads -> Works] /\ row \in [Threads -> 0..Len(rows)]
       /\ cache \in [Users -> 0..Len(rows)]
  BY <1>0, TypeParts
<1>1. CASE /\ UNCHANGED <<row, found, batch>> /\ cache'[u] \in {0, cache[u]}
           /\ \A t \in Threads : row[t] # 0 => work'[t].user = work[t].user
  BY <1>0, <1>1 DEF Owns
<1>2. ASSUME NEW h \in Handlers,
             LogIn(h, u) \/ \E v \in Users : LogIn(h, v) \/ \E z \in Others : Click(h, v, z)
      PROVE  Owns(u, o)
  <2>1. PICK w \in Works : pc[h] = "idle" /\ work' = [work EXCEPT ![h] = w] /\ UNCHANGED <<row, cache, writer>>
    <3>1. \A v \in Users : WorkOn(v, None) \in Works /\ \A z \in Others : WorkOn(v, z) \in Works
      BY DEF WorkOn, Works
    <3> QED
      BY <1>2, <3>1 DEF LogIn, Click, At
  <2>2. row[h] = 0 /\ \A t \in Threads : t # h => work'[t] = work[t]
    BY <1>h, <1>r, <1>ty, <2>1
  <2>3. \A t \in Threads : row[t] # 0 => work'[t].user = work[t].user
    BY <2>2
  <2> QED
    BY <1>1, <2>1, <2>3 DEF writer
<1>3. ASSUME NEW t \in Threads, Find(t) PROVE Owns(u, o)
  <2>1. /\ row' = [row EXCEPT ![t] = cache[work[t].user]] /\ UNCHANGED <<work, cache, writer>>
        /\ work[t].user \in Users
    BY <1>3, <1>w DEF Find, At
  <2>2. \A s \in Threads : s # t => row'[s] = row[s]
    BY <1>ty, <2>1
  <2>3. row'[t] = cache[work[t].user]
    BY <1>ty, <2>1
  <2> QED
    BY <2>1, <2>2, <2>3 DEF Owns, writer
<1>4. ASSUME NEW t \in Threads, Insert(t) PROVE Owns(u, o)
  <2>1. /\ UNCHANGED <<work, row, writer>>
        /\ cache' = cache \/ cache' = [cache EXCEPT ![work[t].user] = row[t]]
    BY <1>4 DEF Insert
  <2>2. cache'[u] = cache[u] \/ (u = work[t].user /\ cache'[u] = row[t])
    BY <1>ty, <2>1
  <2> QED
    BY <2>1, <2>2 DEF Owns, writer
<1>5. ASSUME NEW h \in Handlers, Decide(h) PROVE Owns(u, o)
  <2>1. UNCHANGED <<row, cache, writer>> /\ \A t \in Threads : work'[t].user = work[t].user
    BY <1>5, <1>h, <1>ty DEF Decide, Works
  <2> QED
    BY <1>1, <2>1 DEF writer
<1>6. ASSUME NEW h \in Handlers, ChangeRow(h) PROVE Owns(u, o)
  <2>1. UNCHANGED <<work, cache, writer>> /\ row' = [row EXCEPT ![h] = 0]
    BY <1>6 DEF ChangeRow
  <2>2. \A t \in Threads : row'[t] \in {0, row[t]}
    BY <1>ty, <2>1
  <2> QED
    BY <1>0, <2>1, <2>2 DEF Owns, writer
<1>7. ASSUME NEW h \in Handlers, Push(h) \/ ClearKey(h) PROVE Owns(u, o)
  <2>1. /\ UNCHANGED <<row, writer>> /\ Ends(h) /\ pc[h] \in {"push", "clear"}
        /\ cache' = cache \/ cache' = [cache EXCEPT ![work[h].user] = 0]
    BY <1>7 DEF Push, ClearKey, At
  <2>2. row[h] = 0 /\ \A t \in Threads : t # h => work'[t] = work[t]
    BY <1>h, <1>r, <2>1, Ending
  <2>3. cache'[u] \in {0, cache[u]}
    BY <1>ty, <2>1
  <2>4. \A t \in Threads : row[t] # 0 => work'[t].user = work[t].user
    BY <2>2
  <2> QED
    BY <1>1, <2>1, <2>3, <2>4 DEF writer
<1>8. CASE Extract \/ Write \/ Fail
  <2>1. UNCHANGED <<row, work, cache>> /\ found' = 0
    BY <1>8 DEF Extract, Write, Fail, threads, ListsInv, Ready, UpdaterReady
  <2> QED
    BY <1>0, <2>1 DEF Owns
<1>9. CASE Tell \/ Apply \/ TakeUpdate \/ TakeFlush \/ UNCHANGED vars
  BY <1>1, <1>9 DEF Tell, Apply, TakeUpdate, TakeFlush, vars, threads, writer
<1>10. CASE Look
  BY <1>10 DEF Look, Owns, threads
<1>11. CASE Preload
  <2>1. UNCHANGED <<cache, writer>> /\ Ends(Chat) /\ row' = [row EXCEPT ![Chat] = 0]
    BY <1>11 DEF Preload
  <2>2. \A t \in Threads : t # Chat => work'[t] = work[t] /\ row'[t] = row[t]
    BY <1>0, <1>ty, <2>1, Ending
  <2>3. row'[Chat] = 0
    BY <1>0, <1>ty, <2>1
  <2> QED
    BY <1>0, <2>1, <2>2, <2>3 DEF Owns, writer
<1>12. ASSUME NEW v \in Users, Need(v) PROVE Owns(u, o)
  <2>1. /\ pc[Chat] = "idle" /\ work' = [work EXCEPT ![Chat] = WorkOn(v, None)]
        /\ UNCHANGED <<row, cache, writer>>
    BY <1>12 DEF Need, At
  <2>2. row[Chat] = 0 /\ \A t \in Threads : t # Chat => work'[t] = work[t]
    BY <1>0, <1>r, <1>ty, <2>1
  <2>3. \A t \in Threads : row[t] # 0 => work'[t].user = work[t].user
    BY <2>2
  <2> QED
    BY <1>1, <2>1, <2>3 DEF writer
<1>13. ASSUME NEW v \in Users, Purge(v) \/ Unload(v) PROVE Owns(u, o)
  <2>1. cache'[u] \in {0, cache[u]} /\ UNCHANGED <<writer, threads>>
    BY <1>13, <1>ty DEF Purge, Unload
  <2> QED
    BY <1>1, <2>1 DEF writer, threads
<1> QED
  BY <1>2, <1>3, <1>4, <1>5, <1>6, <1>7, <1>8, <1>9, <1>10, <1>11, <1>12, <1>13, StepCases

(* A step leaves every row with at most one owner.                         *)
LEMMA OneOwnerStep ==
  ASSUME ListsAssumption, ListsInv, OneOwner, [Next]_vars
  PROVE  OneOwner'
<1>0. Len(rows) \in Nat /\ TypeOK
  BY RowInHand DEF ListsInv
<1>1. ASSUME NEW t \in Threads, Load(t) PROVE OneOwner'
  <2>1. /\ rows' = Append(rows, db[work[t].user]) /\ row' = [row EXCEPT ![t] = Len(rows) + 1]
        /\ UNCHANGED <<work, cache, writer>> /\ work[t].user \in Users
    BY <1>1 DEF Load, At, ListsInv, Ready, ThreadsReady
  <2>2. rows \in Seq(SUBSET Others) /\ db[work[t].user] \in SUBSET Others
    BY <1>0, <2>1 DEF TypeOK
  <2>3. Len(rows') = Len(rows) + 1
    BY <2>1, <2>2, AppendProperties
  <2>4. /\ row'[t] = Len(rows) + 1 /\ \A s \in Threads : s # t => row'[s] = row[s]
        /\ \A s \in Threads : row[s] # Len(rows) + 1
        /\ \A u \in Users : cache[u] # Len(rows) + 1
        /\ found # Len(rows) + 1
    <3>1. /\ row \in [Threads -> 0..Len(rows)] /\ cache \in [Users -> 0..Len(rows)]
          /\ found \in 0..Len(rows)
      BY <1>0 DEF TypeOK
    <3>2. Len(rows) + 1 \notin 0..Len(rows)
      BY <1>0
    <3> QED
      BY <2>1, <3>1, <3>2
  <2>5. ASSUME NEW o \in 1..Len(rows'), NEW u \in Users, NEW v \in Users,
               Owns(u, o)', Owns(v, o)'
        PROVE  u = v
    <3>1. CASE o = Len(rows) + 1
      BY <2>1, <2>4, <2>5, <3>1 DEF Owns, writer
    <3>2. CASE o # Len(rows) + 1
      <4>1. o \in 1..Len(rows)
        BY <1>0, <2>3, <3>2
      <4>2. Owns(u, o) /\ Owns(v, o)
        BY <2>1, <2>4, <2>5, <3>2 DEF Owns, writer
      <4> QED
        BY <4>1, <4>2 DEF OneOwner
    <3> QED
      BY <3>1, <3>2
  <2> QED
    BY <2>5 DEF OneOwner
<1>2. ASSUME \A t \in Threads : ~Load(t) PROVE OneOwner'
  <2>1. Len(rows') = Len(rows)
    <3>1. CASE UNCHANGED rows
      BY <3>1
    <3>2. ASSUME NEW h \in Handlers, ChangeRow(h) PROVE Len(rows') = Len(rows)
      <4>1. rows' = [rows EXCEPT ![row[h]] = Changed(rows[row[h]], work[h])]
        BY <3>2 DEF ChangeRow
      <4> QED
        BY <1>0, <4>1 DEF TypeOK
    <3>3. CASE Apply
      <4>1. rows' = [rows EXCEPT ![found] = Changed(rows[found], batch[1])]
        BY <3>3 DEF Apply
      <4> QED
        BY <1>0, <4>1 DEF TypeOK
    <3> QED
      BY <1>2, <3>1, <3>2, <3>3, StepCases
      DEF LogIn, Click, Find, Insert, Decide, Push, ClearKey, Extract, Tell, Look, Write, Fail,
          Preload, TakeUpdate, TakeFlush, Need, Purge, Unload, vars
  <2>2. \A u \in Users, o \in 1..Len(rows) : Owns(u, o)' => Owns(u, o)
    BY <1>2, OwnersStay
  <2> QED
    BY <2>1, <2>2 DEF OneOwner
<1> QED
  BY <1>1, <1>2
(* A step leaves the updater with the cached row: what would put another   *)
(* there, or take it out, tears the user off, and the purge cannot.        *)
LEMMA FoundCachedStep ==
  ASSUME ListsAssumption, ListsInv, FoundCached, [Next]_vars
  PROVE  FoundCached'
<1> SUFFICES ASSUME NEW u \in Users, u \notin torn', PastLook(u)'
             PROVE  (cache[u] = found)'
  BY DEF FoundCached
<1>0. /\ cache \in [Users -> 0..Len(rows)] /\ \A t \in Threads : row[t] \in 0..Len(rows)
  BY DEF ListsInv, TypeOK
<1>i. u \notin torn /\ PastLook(u) => cache[u] = found
  BY DEF FoundCached
<1>h. \A h \in Handlers : h \in Threads
  BY DEF Threads
<1>u. \A t \in Threads : pc[t] # "idle" => work[t].user \in Users
  BY DEF ListsInv, Ready, ThreadsReady
<1>1. CASE UNCHANGED <<torn, cache, writer>>
  BY <1>1, <1>i DEF PastLook, writer
<1>2. ASSUME NEW t \in Threads, Insert(t) PROVE (cache[u] = found)'
  <2>1. UNCHANGED writer /\ work[t].user \in Users
    BY <1>2, <1>u DEF Insert, At
  <2>2. PastLook(u)
    BY <2>1 DEF PastLook, writer
  <2>3. CASE cache[work[t].user] = 0 /\ work[t].user = u
    <3>1. torn' = IF Behind(t) THEN torn \cup {u} ELSE torn
      BY <1>2, <2>3 DEF Insert
    <3>2. ~Behind(t) /\ u \notin torn
      BY <3>1
    <3>3. found # 0
      BY <2>2, <2>3, <3>2 DEF Behind
    <3> QED
      BY <1>i, <2>2, <2>3, <3>2, <3>3
  <2>4. CASE ~(cache[work[t].user] = 0 /\ work[t].user = u)
    <3>1. u \notin torn
      BY <1>2, <2>1, <2>4 DEF Insert
    <3>2. cache'[u] = cache[u]
      BY <1>0, <1>2, <2>1, <2>4 DEF Insert
    <3> QED
      BY <1>i, <2>1, <2>2, <3>1, <3>2 DEF writer
  <2> QED
    BY <2>3, <2>4
<1>3. ASSUME NEW h \in Handlers, ClearKey(h) PROVE (cache[u] = found)'
  <2>1. /\ UNCHANGED writer /\ work[h].user \in Users
        /\ cache' = [cache EXCEPT ![work[h].user] = 0]
        /\ torn' = IF PastLook(work[h].user) THEN torn \cup {work[h].user}
                   ELSE torn \ {work[h].user}
    BY <1>3, <1>h, <1>u DEF ClearKey, At
  <2>2. PastLook(u)
    BY <2>1 DEF PastLook, writer
  <2>3. u # work[h].user /\ u \notin torn
    BY <2>1, <2>2
  <2> QED
    BY <1>0, <1>i, <2>1, <2>2, <2>3 DEF writer
<1>4. ASSUME NEW v \in Users, Purge(v) PROVE (cache[u] = found)'
  <2>1. /\ UNCHANGED writer /\ cache' = [cache EXCEPT ![v] = 0] /\ cache[v] # 0
        /\ ~Held(cache[v]) /\ torn' = IF PastLook(v) THEN torn ELSE torn \ {v}
    BY <1>4 DEF Purge
  <2>2. PastLook(u)
    BY <2>1 DEF PastLook, writer
  <2>3. u \notin torn
    BY <2>1, <2>2
  <2>4. cache[u] = found
    BY <1>i, <2>2, <2>3
  <2>5. u # v
    BY <2>1, <2>4 DEF Held
  <2> QED
    BY <1>0, <2>1, <2>4, <2>5 DEF writer
<1>5. CASE Look
  BY <1>5 DEF Look, PastLook
<1>6. CASE Apply
  BY <1>6, <1>i DEF Apply, PastLook
<1>7. CASE Extract \/ Tell \/ Write \/ Fail
  BY <1>7 DEF Extract, Tell, Write, Fail, PastLook
<1> QED
  BY <1>1, <1>2, <1>3, <1>4, <1>5, <1>6, <1>7, StepCases
  DEF LogIn, Click, Find, Load, Decide, ChangeRow, Push, Preload, TakeUpdate, TakeFlush,
      Need, Unload, vars
-----------------------------------------------------------------------------
(* The cached row and the database agree on one who can be ignored, but for *)
(* the updates that are under way about him.                               *)

For(c, u, z) == c.user = u /\ c.other = z

(* An update that the updater does not have first *)
Elsewhere(u, z) ==
  \/ \E h \in Handlers : At(h, "push") /\ For(work[h], u, z)
  \/ \E i \in 1..Len(queue) : For(queue[i], u, z)
  \/ \E i \in 2..Len(batch) : For(batch[i], u, z)

First(u, z) == batch # <<>> /\ For(batch[1], u, z)

Agrees(u, z) ==
  cache[u] # 0 /\ ~Elsewhere(u, z) =>
    /\ ~First(u, z) => (z \in rows[cache[u]] <=> z \in db[u])
    /\ First(u, z) /\ updater = "write" => (z \in rows[cache[u]] <=> batch[1].what = "add")

CacheInductive == \A u \in Users \ torn, z \in Others : Agrees(u, z)

(* What a step may do to the rest when the row and the database stay.      *)
LEMMA AgreesStays ==
  ASSUME NEW u \in Users, NEW z \in Others, Agrees(u, z),
         UNCHANGED <<queue, batch>>,
         \A h \in Handlers : At(h, "push") => pc'[h] = "push" /\ work'[h] = work[h],
         cache'[u] # 0 => cache[u] # 0 /\ (z \in rows'[cache'[u]] <=> z \in rows[cache[u]]),
         z \in db'[u] <=> z \in db[u],
         updater' = "write" => updater = "write"
  PROVE  Agrees(u, z)'
<1>1. Elsewhere(u, z) => Elsewhere(u, z)'
  BY DEF Elsewhere, At
<1>2. First(u, z)' <=> First(u, z)
  BY DEF First
<1> QED
  BY <1>1, <1>2 DEF Agrees

(* Nobody who pushes does anything but end.                                *)
LEMMA PushersStay ==
  ASSUME ListsAssumption, ListsInv, [Next]_vars, \A h \in Handlers : ~Push(h)
  PROVE  \A h \in Handlers : At(h, "push") => pc'[h] = "push" /\ work'[h] = work[h]
<1>1. /\ pc \in [Threads -> Steps] /\ work \in [Threads -> Works]
      /\ Chat \notin Handlers /\ \A h \in Handlers : h \in Threads
  BY TypeParts DEF ListsInv, Threads, ListsAssumption
<1>2. ASSUME NEW h \in Handlers, At(h, "push"),
             NEW t \in Threads, t # h,
             \/ Find(t) \/ Load(t) \/ Insert(t)
             \/ Decide(t) \/ ChangeRow(t) \/ ClearKey(t)
             \/ \E u \in Users : LogIn(t, u) \/ \E z \in Others : Click(t, u, z)
      PROVE  pc'[h] = "push" /\ work'[h] = work[h]
  BY <1>1, <1>2 DEF Find, Load, Insert, Decide, ChangeRow, ClearKey, LogIn, Click, At, Goes, Ends
<1>3. ASSUME NEW h \in Handlers, At(h, "push"), UNCHANGED threads
      PROVE  pc'[h] = "push" /\ work'[h] = work[h]
  BY <1>3 DEF At, threads
<1>4. ASSUME NEW h \in Handlers, At(h, "push"), Preload \/ \E u \in Users : Need(u)
      PROVE  pc'[h] = "push" /\ work'[h] = work[h]
  <2>1. h # Chat /\ h \in Threads
    BY <1>1
  <2> QED
    BY <1>1, <1>4, <2>1 DEF At, Preload, Need, Goes, Ends
<1>5. ASSUME NEW h \in Handlers, At(h, "push")
      PROVE  /\ ~Find(h) /\ ~Load(h) /\ ~Insert(h) /\ ~Decide(h) /\ ~ChangeRow(h)
             /\ ~ClearKey(h) /\ \A u \in Users : ~LogIn(h, u) /\ \A z \in Others : ~Click(h, u, z)
  BY <1>5 DEF At, Find, Load, Insert, Decide, ChangeRow, ClearKey, LogIn, Click
<1>6. \/ \E t \in Threads :
           \/ Find(t) \/ Load(t) \/ Insert(t)
           \/ Decide(t) \/ ChangeRow(t) \/ ClearKey(t)
           \/ \E u \in Users : LogIn(t, u) \/ \E z \in Others : Click(t, u, z)
      \/ Preload \/ \E u \in Users : Need(u)
      \/ UNCHANGED threads
  BY <1>1, StepCases
  DEF Extract, Tell, Look, Apply, Write, Fail, TakeUpdate, TakeFlush, Purge, Unload, vars
<1> QED
  BY <1>2, <1>3, <1>4, <1>5, <1>6
(* A change of a row is a change of the cached list of its one owner.      *)
LEMMA RowChange ==
  ASSUME ListsInv, OneOwner, NEW u \in Users, NEW z \in Others, cache[u] # 0,
         NEW o \in 1..Len(rows), NEW c, c.user \in Users, c.other \in Others,
         Owns(c.user, o), rows' = [rows EXCEPT ![o] = Changed(rows[o], c)],
         ~For(c, u, z)
  PROVE  z \in rows'[cache[u]] <=> z \in rows[cache[u]]
<1>1. /\ cache[u] \in 1..Len(rows) /\ rows \in Seq(SUBSET Others)
      /\ rows[o] \in SUBSET Others
  BY RowInHand, ElementOfSeq DEF ListsInv, TypeOK
<1>2. CASE o = cache[u]
  <2>1. Owns(u, o)
    BY <1>2 DEF Owns
  <2>2. u = c.user
    BY <1>2, <2>1 DEF OneOwner
  <2>3. z # c.other
    BY <2>2 DEF For
  <2>4. z \in Changed(rows[o], c) <=> z \in rows[o]
    BY <1>1, <2>3, ChangedList
  <2>5. rows'[o] = Changed(rows[o], c)
    BY <1>1
  <2> QED
    BY <1>2, <2>4, <2>5
<1>3. CASE o # cache[u]
  BY <1>1, <1>3
<1> QED
  BY <1>2, <1>3

(* A step leaves the cached rows and the database in agreement, one action  *)
(* at a time.                                                              *)
LEMMA CacheStep ==
  ASSUME ListsAssumption, ListsInv, OneOwner, FoundCached, CacheInductive, [Next]_vars
  PROVE  CacheInductive'
<1> SUFFICES ASSUME NEW u \in Users, u \notin torn', NEW z \in Others
             PROVE  Agrees(u, z)'
  BY DEF CacheInductive
<1>0. /\ cache \in [Users -> 0..Len(rows)] /\ rows \in Seq(SUBSET Others)
      /\ db \in [Users -> SUBSET Others] /\ queue \in Seq(Change) /\ batch \in Seq(Change)
      /\ Len(rows) \in Nat
  BY RowInHand DEF ListsInv, TypeOK
<1>i. u \notin torn => Agrees(u, z)
  BY DEF CacheInductive
<1>h. \A h \in Handlers : h \in Threads
  BY DEF Threads
<1>u. \A t \in Threads : pc[t] # "idle" => work[t].user \in Users
  BY DEF ListsInv, Ready, ThreadsReady
<1>r. \A t \in Threads : pc[t] \in {"insert", "use", "change"} <=> row[t] # 0
  BY DEF ListsInv, Ready, ThreadsReady
<1>p. (\A h \in Handlers : ~Push(h)) =>
        \A h \in Handlers : At(h, "push") => pc'[h] = "push" /\ work'[h] = work[h]
  BY PushersStay
<1>s. ASSUME \A h \in Handlers : ~Push(h),
             UNCHANGED <<db, rows, queue, batch, torn>>, cache'[u] \in {0, cache[u]},
             updater' = "write" => updater = "write"
      PROVE  Agrees(u, z)'
  BY <1>i, <1>p, <1>s, AgreesStays
<1>x. ASSUME NEW h \in Handlers, Push(h) PROVE Agrees(u, z)'
  <2>1. /\ At(h, "push") /\ queue' = Append(queue, work[h]) /\ Ends(h)
        /\ UNCHANGED <<db, rows, cache, writer, torn>>
    BY <1>x DEF Push
  <2>2. work[h] \in Change
    BY <2>1, PushedChange DEF At
  <2>3. /\ Len(queue') = Len(queue) + 1 /\ queue'[Len(queue) + 1] = work[h]
        /\ \A i \in 1..Len(queue) : queue'[i] = queue[i]
        /\ Len(queue) \in Nat
    BY <1>0, <2>1, <2>2, AppendProperties, LenProperties
  <2>4. \A t \in Threads : t # h => pc'[t] = pc[t] /\ work'[t] = work[t]
    BY <1>h, <2>1, Ending
  <2>5. Elsewhere(u, z) => Elsewhere(u, z)'
    <3>1. ASSUME NEW g \in Handlers, At(g, "push"), For(work[g], u, z) PROVE Elsewhere(u, z)'
      <4>1. CASE g = h
        <5>1. For(queue'[Len(queue) + 1], u, z) /\ Len(queue) + 1 \in 1..Len(queue')
          BY <2>3, <3>1, <4>1
        <5> QED
          BY <5>1 DEF Elsewhere
      <4>2. CASE g # h
        BY <1>h, <2>4, <3>1, <4>2 DEF Elsewhere, At
      <4> QED
        BY <4>1, <4>2
    <3>2. ASSUME NEW i \in 1..Len(queue), For(queue[i], u, z) PROVE Elsewhere(u, z)'
      <4>1. i \in 1..Len(queue') /\ For(queue'[i], u, z)
        BY <2>3, <3>2
      <4> QED
        BY <4>1 DEF Elsewhere
    <3>3. ASSUME NEW i \in 2..Len(batch), For(batch[i], u, z) PROVE Elsewhere(u, z)'
      BY <2>1, <3>3 DEF Elsewhere, writer
    <3> QED
      BY <3>1, <3>2, <3>3 DEF Elsewhere
  <2> QED
    BY <1>i, <2>1, <2>5 DEF Agrees, First, writer
<1>n. SUFFICES ASSUME \A h \in Handlers : ~Push(h) PROVE Agrees(u, z)'
  BY <1>x
<1>1. ASSUME NEW t \in Threads, Find(t) PROVE Agrees(u, z)'
  BY <1>1, <1>n, <1>s DEF Find, writer
<1>2. ASSUME NEW t \in Threads, Load(t) PROVE Agrees(u, z)'
  <2>1. /\ rows' = Append(rows, db[work[t].user]) /\ work[t].user \in Users
        /\ UNCHANGED <<db, cache, queue, writer, torn>>
    BY <1>2, <1>u DEF Load, At
  <2>2. \A o \in 1..Len(rows) : rows'[o] = rows[o]
    BY <1>0, <2>1, AppendProperties
  <2>3. cache[u] # 0 => cache[u] \in 1..Len(rows)
    BY RowInHand
  <2>4. Agrees(u, z) /\ UNCHANGED <<queue, batch>>
    BY <1>i, <2>1 DEF writer
  <2>5. /\ cache'[u] # 0 => cache[u] # 0 /\ (z \in rows'[cache'[u]] <=> z \in rows[cache[u]])
        /\ z \in db'[u] <=> z \in db[u]
        /\ updater' = "write" => updater = "write"
    BY <2>1, <2>2, <2>3 DEF writer
  <2> QED
    BY <1>n, <1>p, <2>4, <2>5, AgreesStays
<1>3. ASSUME NEW t \in Threads, Insert(t) PROVE Agrees(u, z)'
  <2>1. UNCHANGED <<db, rows, queue, writer>> /\ work[t].user \in Users
    BY <1>3, <1>u DEF Insert, At
  <2>2. CASE cache[work[t].user] = 0 /\ work[t].user = u
    <3>1. torn' = IF Behind(t) THEN torn \cup {u} ELSE torn
      BY <1>3, <2>2 DEF Insert
    <3>2. ~Behind(t) /\ u \notin torn
      BY <3>1
    <3>3. ~PastLook(u)
      BY <2>2, <3>2 DEF Behind, FoundCached
    <3>4. cache'[u] = row[t] /\ rows'[row[t]] = db'[u]
      BY <1>0, <1>3, <2>1, <2>2, <3>2 DEF Insert, Behind
    <3>5. ~(First(u, z) /\ updater = "write")'
      BY <2>1, <3>3 DEF First, For, PastLook, writer
    <3> QED
      BY <3>4, <3>5 DEF Agrees
  <2>3. CASE ~(cache[work[t].user] = 0 /\ work[t].user = u)
    <3>1. u \notin torn
      BY <1>3, <2>1, <2>3 DEF Insert
    <3>2. cache'[u] = cache[u]
      BY <1>0, <1>3, <2>1, <2>3 DEF Insert
    <3>3. Agrees(u, z) /\ UNCHANGED <<queue, batch>>
      BY <1>i, <2>1, <3>1 DEF writer
    <3>4. /\ cache'[u] # 0 => cache[u] # 0 /\ (z \in rows'[cache'[u]] <=> z \in rows[cache[u]])
          /\ z \in db'[u] <=> z \in db[u]
          /\ updater' = "write" => updater = "write"
      BY <2>1, <3>2 DEF writer
    <3> QED
      BY <1>n, <1>p, <3>3, <3>4, AgreesStays
  <2> QED
    BY <2>2, <2>3
<1>4. ASSUME NEW h \in Handlers, Decide(h) PROVE Agrees(u, z)'
  BY <1>4, <1>n, <1>s DEF Decide, writer
<1>5. ASSUME NEW h \in Handlers, ChangeRow(h) PROVE Agrees(u, z)'
  <2>1. /\ pc[h] = "change" /\ Goes(h, "push") /\ "push" \in Steps
        /\ UNCHANGED <<db, cache, queue, writer, work, torn>>
        /\ rows' = [rows EXCEPT ![row[h]] = Changed(rows[row[h]], work[h])]
    BY <1>5 DEF ChangeRow, At, Steps
  <2>2. pc'[h] = "push"
    BY <1>h, <2>1, Going
  <2>3. CASE For(work[h], u, z)
    BY <2>1, <2>2, <2>3 DEF Agrees, Elsewhere, At
  <2>4. CASE ~For(work[h], u, z)
    <3>1. work[h].user \in Users /\ row[h] \in 1..Len(rows)
      BY <1>h, <1>u, <1>r, <2>1, RowInHand
    <3>2. work[h].other \in Others /\ Owns(work[h].user, row[h])
      BY <1>h, <2>1 DEF ListsInv, Ready, HandlersReady, Owns
    <3>3. cache[u] # 0 => (z \in rows'[cache[u]] <=> z \in rows[cache[u]])
      BY <2>1, <2>4, <3>1, <3>2, RowChange
    <3>4. Agrees(u, z) /\ UNCHANGED <<queue, batch>>
      BY <1>i, <2>1 DEF writer
    <3>5. /\ cache'[u] # 0 => cache[u] # 0 /\ (z \in rows'[cache'[u]] <=> z \in rows[cache[u]])
          /\ z \in db'[u] <=> z \in db[u]
          /\ updater' = "write" => updater = "write"
      BY <2>1, <3>3 DEF writer
    <3> QED
      BY <1>n, <1>p, <3>4, <3>5, AgreesStays
  <2> QED
    BY <2>3, <2>4
<1>6. ASSUME NEW h \in Handlers, ClearKey(h) PROVE Agrees(u, z)'
  <2>1. /\ UNCHANGED <<db, rows, queue, writer>> /\ work[h].user \in Users
        /\ cache' = [cache EXCEPT ![work[h].user] = 0]
    BY <1>6, <1>h, <1>u DEF ClearKey, At
  <2>2. CASE u = work[h].user
    BY <1>0, <2>1, <2>2 DEF Agrees
  <2>3. CASE u # work[h].user
    <3>1. u \notin torn /\ cache'[u] = cache[u]
      BY <1>0, <1>6, <2>1, <2>3 DEF ClearKey
    <3>2. Agrees(u, z) /\ UNCHANGED <<queue, batch>>
      BY <1>i, <2>1, <3>1 DEF writer
    <3>3. /\ cache'[u] # 0 => cache[u] # 0 /\ (z \in rows'[cache'[u]] <=> z \in rows[cache[u]])
          /\ z \in db'[u] <=> z \in db[u]
          /\ updater' = "write" => updater = "write"
      BY <2>1, <3>1 DEF writer
    <3> QED
      BY <1>n, <1>p, <3>2, <3>3, AgreesStays
  <2> QED
    BY <2>2, <2>3
<1>7. ASSUME NEW v \in Users, Purge(v) PROVE Agrees(u, z)'
  <2>1. /\ UNCHANGED <<db, rows, queue, writer>> /\ cache' = [cache EXCEPT ![v] = 0]
    BY <1>7 DEF Purge
  <2>2. CASE u = v
    BY <1>0, <2>1, <2>2 DEF Agrees
  <2>3. CASE u # v
    <3>1. u \notin torn /\ cache'[u] = cache[u]
      BY <1>0, <1>7, <2>1, <2>3 DEF Purge
    <3>2. Agrees(u, z) /\ UNCHANGED <<queue, batch>>
      BY <1>i, <2>1, <3>1 DEF writer
    <3>3. /\ cache'[u] # 0 => cache[u] # 0 /\ (z \in rows'[cache'[u]] <=> z \in rows[cache[u]])
          /\ z \in db'[u] <=> z \in db[u]
          /\ updater' = "write" => updater = "write"
      BY <2>1, <3>1 DEF writer
    <3> QED
      BY <1>n, <1>p, <3>2, <3>3, AgreesStays
  <2> QED
    BY <2>2, <2>3
<1>8. CASE Extract
  <2>1. /\ batch' = queue /\ batch = <<>> /\ updater' = "tell"
        /\ UNCHANGED <<db, rows, cache, threads, torn>>
    BY <1>8 DEF Extract, ListsInv, Ready, UpdaterReady
  <2>2. Elsewhere(u, z) => Elsewhere(u, z)' \/ First(u, z)'
    <3>1. ASSUME NEW i \in 1..Len(queue), For(queue[i], u, z)
          PROVE  Elsewhere(u, z)' \/ First(u, z)'
      <4>1. CASE i = 1
        <5>1. batch' # <<>>
          BY <1>8 DEF Extract
        <5> QED
          BY <2>1, <3>1, <4>1, <5>1 DEF First
      <4>2. CASE i # 1
        <5>1. i \in 2..Len(batch')
          BY <1>0, <2>1, <4>2, LenProperties
        <5> QED
          BY <2>1, <3>1, <5>1 DEF Elsewhere
      <4> QED
        BY <4>1, <4>2
    <3>2. ASSUME NEW h \in Handlers, At(h, "push"), For(work[h], u, z) PROVE Elsewhere(u, z)'
      BY <2>1, <3>2 DEF Elsewhere, At, threads
    <3>3. ~\E i \in 2..Len(batch) : For(batch[i], u, z)
      <4>1. Len(batch) = 0 /\ \A i \in 2..0 : FALSE
        BY <2>1
      <4> QED
        BY <4>1
    <3> QED
      BY <3>1, <3>2, <3>3 DEF Elsewhere
  <2>3. ~First(u, z)
    BY <2>1 DEF First
  <2> QED
    BY <1>i, <2>1, <2>2, <2>3 DEF Agrees
<1>9. CASE Tell
  BY <1>9, <1>n, <1>s DEF Tell
<1>10. CASE Look
  <2>1. /\ found' = cache[batch[1].user] /\ updater' = IF found' = 0 THEN "write" ELSE "apply"
        /\ UNCHANGED <<db, rows, cache, queue, batch, threads, torn>>
    BY <1>10 DEF Look
  <2>2. Elsewhere(u, z)' <=> Elsewhere(u, z)
    BY <2>1 DEF Elsewhere, At, threads
  <2>3. First(u, z)' <=> First(u, z)
    BY <2>1 DEF First
  <2>4. First(u, z) /\ updater' = "write" => cache[u] = 0
    BY <2>1 DEF First, For
  <2> QED
    BY <1>i, <2>1, <2>2, <2>3, <2>4 DEF Agrees
<1>11. CASE Apply
  <2>1. /\ updater = "apply" /\ rows' = [rows EXCEPT ![found] = Changed(rows[found], batch[1])]
        /\ UNCHANGED <<db, cache, queue, batch, threads, torn>>
    BY <1>11 DEF Apply
  <2>2. batch # <<>> /\ found # 0
    BY <2>1 DEF ListsInv, Ready, UpdaterReady
  <2>3. /\ found \in 1..Len(rows) /\ rows[found] \in SUBSET Others
        /\ batch[1].user \in Users /\ batch[1].other \in Others
    BY <2>2, RowInHand, BatchFirst
  <2>4. Elsewhere(u, z)' <=> Elsewhere(u, z)
    BY <2>1 DEF Elsewhere, At, threads
  <2>5. First(u, z)' <=> First(u, z)
    BY <2>1 DEF First
  <2>6. CASE First(u, z)
    <3>1. cache[u] = found
      BY <2>1, <2>6 DEF First, For, PastLook, FoundCached
    <3>2. z \in Changed(rows[found], batch[1]) <=> batch[1].what = "add"
      BY <2>3, <2>6, ChangedList DEF First, For
    <3>3. rows'[found] = Changed(rows[found], batch[1])
      BY <1>0, <2>1, <2>3
    <3> QED
      BY <2>1, <2>5, <2>6, <3>1, <3>2, <3>3 DEF Agrees
  <2>7. CASE ~First(u, z)
    <3>1. Owns(batch[1].user, found) /\ ~For(batch[1], u, z)
      BY <2>2, <2>7 DEF Owns, First
    <3>2. cache[u] # 0 => (z \in rows'[cache[u]] <=> z \in rows[cache[u]])
      BY <2>1, <2>3, <3>1, RowChange
    <3> QED
      BY <1>i, <2>1, <2>4, <2>5, <2>7, <3>2 DEF Agrees
  <2> QED
    BY <2>6, <2>7
<1>12. CASE Write
  <2>1. /\ updater = "write" /\ batch' = Tail(batch) /\ updater' \in {"idle", "tell"}
        /\ db' = [db EXCEPT ![batch[1].user] = Changed(db[batch[1].user], batch[1])]
        /\ UNCHANGED <<rows, cache, queue, threads, torn>>
    BY <1>12 DEF Write
  <2>2. batch # <<>>
    BY <2>1 DEF ListsInv, Ready, UpdaterReady
  <2>3. /\ batch[1].user \in Users /\ batch[1].other \in Others
        /\ Len(batch) \in Nat /\ Len(Tail(batch)) = Len(batch) - 1
        /\ \A i \in 1..Len(Tail(batch)) : Tail(batch)[i] = batch[i + 1]
    BY <2>2, BatchFirst
  <2>4. Elsewhere(u, z) => Elsewhere(u, z)' \/ First(u, z)'
    <3>1. ASSUME NEW i \in 2..Len(batch), For(batch[i], u, z)
          PROVE  Elsewhere(u, z)' \/ First(u, z)'
      <4>1. i - 1 \in 1..Len(batch') /\ batch'[i - 1] = batch[i] /\ i - 1 \in Nat
        <5>1. i - 1 \in 1..Len(Tail(batch)) /\ (i - 1) + 1 = i /\ i - 1 \in Nat
          BY <2>3
        <5> QED
          BY <2>1, <2>3, <5>1
      <4>2. CASE i - 1 = 1
        <5>1. batch' # <<>>
          <6>1. \A n \in Nat : \A j \in 2..n : n - 1 # 0
            OBVIOUS
          <6>2. Len(batch) - 1 # 0
            BY <2>3, <6>1
          <6>3. Tail(batch) # <<>>
            BY <2>3, <6>2, EmptySeq
          <6> QED
            BY <2>1, <6>3
        <5> QED
          BY <3>1, <4>1, <4>2, <5>1 DEF First
      <4>3. CASE i - 1 # 1
        <5>1. i - 1 \in 2..Len(batch') /\ For(batch'[i - 1], u, z)
          BY <2>1, <2>3, <3>1, <4>1, <4>3
        <5> QED
          BY <5>1 DEF Elsewhere
      <4> QED
        BY <4>2, <4>3
    <3>2. ASSUME NEW h \in Handlers, At(h, "push"), For(work[h], u, z) PROVE Elsewhere(u, z)'
      BY <2>1, <3>2 DEF Elsewhere, At, threads
    <3>3. ASSUME NEW i \in 1..Len(queue), For(queue[i], u, z) PROVE Elsewhere(u, z)'
      BY <2>1, <3>3 DEF Elsewhere
    <3> QED
      BY <3>1, <3>2, <3>3 DEF Elsewhere
  <2>5. db[batch[1].user] \in SUBSET Others
    BY <1>0, <2>3
  <2>6. First(u, z) => (z \in db'[u] <=> batch[1].what = "add")
    <3>1. First(u, z) => z = batch[1].other /\ u = batch[1].user
      BY DEF First, For
    <3>2. batch[1].other \in Changed(db[batch[1].user], batch[1]) <=> batch[1].what = "add"
      BY <2>3, <2>5, ChangedList
    <3> QED
      BY <1>0, <2>1, <3>1, <3>2
  <2>7. ~First(u, z) => (z \in db'[u] <=> z \in db[u])
    <3>1. ~First(u, z) /\ u = batch[1].user => z # batch[1].other
      BY <2>2 DEF First, For
    <3>2. z # batch[1].other => (z \in Changed(db[batch[1].user], batch[1]) <=> z \in db[batch[1].user])
      BY <2>3, <2>5, ChangedList
    <3> QED
      BY <1>0, <2>1, <3>1, <3>2
  <2>8. ~First(u, z)' /\ ~Elsewhere(u, z)' /\ cache'[u] # 0
          => (z \in rows'[cache'[u]] <=> z \in db'[u])
    BY <1>i, <2>1, <2>4, <2>6, <2>7 DEF Agrees
  <2> QED
    BY <2>1, <2>8 DEF Agrees
<1>13. CASE Fail
  <2>1. /\ batch' = <<>> /\ updater' = "idle" /\ UNCHANGED <<db, rows, cache, queue, threads>>
        /\ torn' = torn \cup {batch[i].user : i \in DOMAIN batch}
    BY <1>13 DEF Fail
  <2>2. batch # <<>> /\ u \notin torn /\ DOMAIN batch = 1..Len(batch) /\ Len(batch) \in Nat
        /\ Len(batch) > 0
    <3>1. batch # <<>>
      BY <1>13 DEF Fail, ListsInv, Ready, UpdaterReady
    <3>2. Len(batch) \in Nat /\ Len(batch) > 0
      BY <3>1, BatchFirst
    <3> QED
      BY <1>0, <2>1, <3>1, <3>2, LenProperties
  <2>3. \A i \in 1..Len(batch) : batch[i].user # u
    BY <2>1, <2>2
  <2>4. ~First(u, z) /\ Elsewhere(u, z) => Elsewhere(u, z)'
    BY <2>1, <2>2, <2>3 DEF Elsewhere, At, For, threads
  <2>5. ~First(u, z) /\ ~First(u, z)'
    BY <2>1, <2>2, <2>3 DEF First, For
  <2> QED
    BY <1>i, <2>1, <2>2, <2>4, <2>5 DEF Agrees
<1>14. CASE \/ Preload \/ TakeUpdate \/ TakeFlush \/ UNCHANGED vars
            \/ \E v \in Users : Need(v) \/ Unload(v)
  BY <1>14, <1>n, <1>s DEF Preload, TakeUpdate, TakeFlush, Need, Unload, vars, writer
<1>15. CASE \E h \in Handlers, v \in Users : LogIn(h, v) \/ \E y \in Others : Click(h, v, y)
  BY <1>15, <1>n, <1>s DEF LogIn, Click, writer
<1> QED
  BY <1>n, <1>1, <1>2, <1>3, <1>4, <1>5, <1>6, <1>7, <1>8, <1>9, <1>10, <1>11, <1>12, <1>13,
     <1>14, <1>15, StepCases
(* No command about a user anywhere.                                       *)
LEMMA QuietMeans ==
  ASSUME ListsInv, NEW u \in Users, NEW z \in Others, Quiet(u)
  PROVE  ~Elsewhere(u, z) /\ ~First(u, z)
<1>1. /\ DOMAIN queue = 1..Len(queue) /\ DOMAIN batch = 1..Len(batch)
      /\ batch \in Seq(Change)
  BY LenProperties DEF ListsInv, TypeOK
<1>2. batch # <<>> => 1 \in DOMAIN batch
  BY <1>1, BatchFirst
<1>3. \A i \in 2..Len(batch) : i \in DOMAIN batch
  BY <1>1, LenProperties
<1> QED
  BY <1>1, <1>2, <1>3 DEF Quiet, Queued, InBatch, Pushing, Elsewhere, First, For

(* In the initial state nothing is cached and nobody is loaded.            *)
LEMMA CacheInit ==
  ASSUME ListsAssumption, Init
  PROVE  OneOwner /\ FoundCached /\ CacheInductive
<1>1. Len(rows) = 0 /\ \A o \in 1..0 : FALSE
  BY DEF Init
<1>2. OneOwner
  BY <1>1 DEF OneOwner
<1>3. FoundCached
  BY DEF Init, FoundCached, PastLook
<1>4. CacheInductive
  BY DEF Init, CacheInductive, Agrees
<1> QED
  BY <1>2, <1>3, <1>4

(* With no update under way, agreement about each is equality.             *)
LEMMA CacheCurrentFollows ==
  ASSUME ListsInv, CacheInductive PROVE CacheCurrent
<1> SUFFICES ASSUME NEW u \in Users, u \notin torn, Quiet(u), cache[u] # 0
             PROVE  rows[cache[u]] = db[u]
  BY DEF CacheCurrent
<1>1. rows[cache[u]] \in SUBSET Others /\ db[u] \in SUBSET Others
  BY RowInHand DEF ListsInv, TypeOK
<1>2. \A z \in Others : z \in rows[cache[u]] <=> z \in db[u]
  BY QuietMeans DEF CacheInductive, Agrees
<1> QED
  BY <1>1, <1>2

(* Whatever handlers, the updater, logins and the purge do between each    *)
(* other: the cached row of a user with no update under way is the         *)
(* database's, unless it was torn off.                                     *)
THEOREM CacheIsCurrent ==
  Spec => []CacheCurrent
<1> DEFINE CacheInv == ListsInv /\ OneOwner /\ FoundCached /\ CacheInductive
<1>0. ListsAssumption
  BY ListsAssumption
<1>1. Init => CacheInv
  BY <1>0, ListsInit, CacheInit
<1>2. CacheInv /\ [Next]_vars => CacheInv'
  <2> SUFFICES ASSUME CacheInv, [Next]_vars PROVE CacheInv'
    OBVIOUS
  <2>1. ListsInv'
    BY <1>0, ListsStep
  <2>2. OneOwner'
    BY <1>0, OneOwnerStep
  <2>3. FoundCached'
    BY <1>0, FoundCachedStep
  <2>4. CacheInductive'
    BY <1>0, CacheStep
  <2> QED
    BY <2>1, <2>2, <2>3, <2>4
<1>3. CacheInv => CacheCurrent
  BY CacheCurrentFollows
<1> QED
  BY <1>1, <1>2, <1>3, PTL DEF Spec-----------------------------------------------------------------------------
(* The chat thread's copy: the last update about somebody that it still has *)
(* to take says what the database has of him, or will have when the updater *)
(* is through with the command it is at; when it has none to take, the copy *)
(* itself does.                                                            *)

DbAfter(u, z) ==
  IF updater \in {"look", "apply", "write"} /\ For(batch[1], u, z)
  THEN batch[1].what = "add" ELSE z \in db[u]

Upd(e, u, z) == "update" \in DOMAIN e /\ For(e.update, u, z)

Last(i, u, z) ==
  Upd(events[i], u, z) /\ \A j \in (i + 1)..Len(events) : ~Upd(events[j], u, z)

NoneToTake(u, z) == \A i \in 1..Len(events) : ~Upd(events[i], u, z)

Follows(u, z) ==
  copy[u] # None =>
    /\ \A i \in 1..Len(events) :
         Last(i, u, z) => (events[i].update.what = "add" <=> DbAfter(u, z))
    /\ NoneToTake(u, z) => (z \in copy[u] <=> DbAfter(u, z))

ChatInductive == \A u \in exact, z \in Others : Follows(u, z)

(* A step that adds no event, changes neither the copy of the user nor what *)
(* the database has, or will have.                                         *)
LEMMA FollowsStays ==
  ASSUME NEW u \in Users, NEW z \in Others, Follows(u, z), events' = events,
         copy'[u] # None => copy'[u] = copy[u],
         DbAfter(u, z)' <=> DbAfter(u, z)
  PROVE  Follows(u, z)'
<1>1. \A i \in 1..Len(events) : Last(i, u, z)' <=> Last(i, u, z)
  BY DEF Last
<1>2. NoneToTake(u, z)' <=> NoneToTake(u, z)
  BY DEF NoneToTake
<1> QED
  BY <1>1, <1>2 DEF Follows

(* An event about something else does not matter.                          *)
LEMMA OtherEvent ==
  ASSUME ListsInv, NEW u \in Users, NEW z \in Others, Follows(u, z),
         NEW e \in EventSet, ~Upd(e, u, z), events' = Append(events, e),
         copy' = copy, DbAfter(u, z)' <=> DbAfter(u, z)
  PROVE  Follows(u, z)'
<1>1. /\ Len(events) \in Nat /\ Len(events') = Len(events) + 1 /\ events'[Len(events) + 1] = e
      /\ \A i \in 1..Len(events) : events'[i] = events[i]
  <2>1. events \in Seq(EventSet)
    BY TypeParts DEF ListsInv
  <2> QED
    BY <2>1, AppendProperties, LenProperties
<1>2. ASSUME NEW i \in 1..Len(events'), Last(i, u, z)'
      PROVE  i \in 1..Len(events) /\ Last(i, u, z)
  <2>1. Upd(events'[i], u, z)
    BY <1>2 DEF Last
  <2>2. i \in 1..Len(events)
    <3>1. i # Len(events) + 1
      BY <1>1, <2>1
    <3> QED
      BY <1>1, <3>1
  <2>3. \A j \in (i + 1)..Len(events) : j \in (i + 1)..Len(events') /\ j \in 1..Len(events)
    BY <1>1, <2>2
  <2>4. \A j \in (i + 1)..Len(events) : ~Upd(events'[j], u, z)
    BY <1>2, <2>3 DEF Last
  <2> QED
    BY <1>1, <2>1, <2>2, <2>3, <2>4 DEF Last
<1>3. NoneToTake(u, z)' => NoneToTake(u, z)
  <2>1. \A i \in 1..Len(events) : i \in 1..Len(events')
    BY <1>1
  <2> QED
    BY <1>1, <2>1 DEF NoneToTake
<1> QED
  BY <1>1, <1>2, <1>3 DEF Follows

(* The updater tells of its command.                                       *)
LEMMA ToldEvent ==
  ASSUME ListsInv, NEW u \in Users, NEW z \in Others,
         NEW e \in EventSet, Upd(e, u, z), events' = Append(events, e),
         e.update.what = "add" <=> DbAfter(u, z)'
  PROVE  Follows(u, z)'
<1>1. /\ Len(events) \in Nat /\ Len(events') = Len(events) + 1 /\ events'[Len(events) + 1] = e
  <2>1. events \in Seq(EventSet)
    BY TypeParts DEF ListsInv
  <2> QED
    BY <2>1, AppendProperties, LenProperties
<1>2. ASSUME NEW i \in 1..Len(events'), Last(i, u, z)' PROVE i = Len(events) + 1
  <2>1. i < Len(events) + 1 => Len(events) + 1 \in (i + 1)..Len(events')
    BY <1>1
  <2>2. ~(i < Len(events) + 1)
    BY <1>1, <1>2, <2>1 DEF Last
  <2> QED
    BY <1>1, <2>2
<1>3. ~NoneToTake(u, z)'
  <2>1. Len(events) + 1 \in 1..Len(events')
    BY <1>1
  <2> QED
    BY <1>1, <2>1 DEF NoneToTake
<1> QED
  BY <1>1, <1>2, <1>3 DEF Follows

(* The chat thread takes the first event, and does with the copy what the  *)
(* event says.                                                             *)
LEMMA TakenEvent ==
  ASSUME ListsInv, NEW u \in Users, NEW z \in Others, Follows(u, z),
         events # <<>>, events' = Tail(events),
         copy'[u] # None => copy[u] # None,
         copy'[u] # None =>
           (z \in copy'[u] <=> IF Upd(Head(events), u, z) THEN Head(events).update.what = "add"
                               ELSE z \in copy[u]),
         DbAfter(u, z)' <=> DbAfter(u, z)
  PROVE  Follows(u, z)'
<1>1. /\ Len(events) \in Nat /\ Len(events) > 0 /\ Head(events) = events[1]
      /\ Len(events') = Len(events) - 1
      /\ \A i \in 1..Len(events') : events'[i] = events[i + 1]
  BY EventFirst
<1> SUFFICES ASSUME copy'[u] # None PROVE Follows(u, z)'
  BY DEF Follows
<1>2. ASSUME NEW i \in 1..Len(events'), Last(i, u, z)'
      PROVE  i + 1 \in 1..Len(events) /\ Last(i + 1, u, z)
  <2>1. Upd(events[i + 1], u, z) /\ i + 1 \in 1..Len(events) /\ i \in Nat
    BY <1>1, <1>2 DEF Last
  <2>2. ASSUME NEW j \in (i + 1 + 1)..Len(events) PROVE ~Upd(events[j], u, z)
    <3>1. j - 1 \in (i + 1)..Len(events') /\ j - 1 \in 1..Len(events') /\ (j - 1) + 1 = j
      BY <1>1, <2>1
    <3>2. ~Upd(events'[j - 1], u, z)
      BY <1>2, <3>1 DEF Last
    <3> QED
      BY <1>1, <3>1, <3>2
  <2> QED
    BY <2>1, <2>2 DEF Last
<1>3. \A i \in 1..Len(events') :
        Last(i, u, z)' => (events'[i].update.what = "add" <=> DbAfter(u, z)')
  BY <1>1, <1>2 DEF Follows
<1>4. ASSUME NoneToTake(u, z)' PROVE z \in copy'[u] <=> DbAfter(u, z)'
  <2>1. ASSUME NEW j \in 2..Len(events) PROVE ~Upd(events[j], u, z)
    <3>1. j - 1 \in 1..Len(events') /\ (j - 1) + 1 = j
      BY <1>1
    <3>2. ~Upd(events'[j - 1], u, z)
      BY <1>4, <3>1 DEF NoneToTake
    <3> QED
      BY <1>1, <3>1, <3>2
  <2>2. CASE Upd(Head(events), u, z)
    <3>1. 1 \in 1..Len(events)
      BY <1>1
    <3>2. Last(1, u, z)
      BY <1>1, <2>1, <2>2 DEF Last
    <3> QED
      BY <1>1, <2>2, <3>1, <3>2 DEF Follows
  <2>3. CASE ~Upd(Head(events), u, z)
    <3>1. \A i \in 1..Len(events) : i = 1 \/ i \in 2..Len(events)
      BY <1>1
    <3>2. NoneToTake(u, z)
      BY <1>1, <2>1, <2>3, <3>1 DEF NoneToTake
    <3> QED
      BY <2>3, <3>2 DEF Follows
  <2> QED
    BY <2>2, <2>3
<1> QED
  BY <1>3, <1>4 DEF Follows
(* What the database has, or will have, changes only when the updater tells *)
(* of a command about it, or drops it.                                     *)
LEMMA DbAfterStays ==
  ASSUME ListsAssumption, ListsInv, [Next]_vars, NEW u \in Users, NEW z \in Others,
         ~(Tell /\ For(batch[1], u, z)), ~(Fail /\ For(batch[1], u, z))
  PROVE  DbAfter(u, z)' <=> DbAfter(u, z)
<1>1. CASE Extract \/ Tell \/ Look \/ Apply \/ Fail
  BY <1>1 DEF Extract, Tell, Look, Apply, Fail, DbAfter
<1>2. CASE Write
  <2>1. /\ updater = "write" /\ updater' \in {"idle", "tell"}
        /\ db' = [db EXCEPT ![batch[1].user] = Changed(db[batch[1].user], batch[1])]
    BY <1>2 DEF Write
  <2>2. batch # <<>>
    BY <2>1 DEF ListsInv, Ready, UpdaterReady
  <2>3. /\ batch[1].user \in Users /\ batch[1].other \in Others
        /\ db \in [Users -> SUBSET Others]
    BY <2>2, BatchFirst DEF ListsInv, TypeOK
  <2>4. db[batch[1].user] \in SUBSET Others
    BY <2>3
  <2>5. DbAfter(u, z)' <=> z \in db'[u]
    BY <2>1 DEF DbAfter
  <2>6. CASE For(batch[1], u, z)
    <3>1. batch[1].other \in Changed(db[batch[1].user], batch[1]) <=> batch[1].what = "add"
      BY <2>3, <2>4, ChangedList
    <3> QED
      BY <2>1, <2>3, <2>5, <2>6, <3>1 DEF DbAfter, For
  <2>7. CASE ~For(batch[1], u, z)
    <3>1. u = batch[1].user => z # batch[1].other
      BY <2>7 DEF For
    <3>2. z # batch[1].other => (z \in Changed(db[batch[1].user], batch[1]) <=> z \in db[batch[1].user])
      BY <2>3, <2>4, ChangedList
    <3>3. z \in db'[u] <=> z \in db[u]
      BY <2>1, <2>3, <3>1, <3>2
    <3> QED
      BY <2>5, <2>7, <3>3 DEF DbAfter
  <2> QED
    BY <2>6, <2>7
<1>3. CASE UNCHANGED <<db, writer>>
  BY <1>3 DEF writer, DbAfter
<1> QED
  BY <1>1, <1>2, <1>3, StepCases
  DEF LogIn, Click, Find, Load, Insert, Decide, ChangeRow, Push, ClearKey,
      Preload, TakeUpdate, TakeFlush, Need, Purge, Unload, vars

(* A step leaves the copies in step with what the database will have, one   *)
(* action at a time.                                                       *)
LEMMA ChatStep ==
  ASSUME ListsAssumption, ListsInv, ChatInductive, [Next]_vars
  PROVE  ChatInductive'
<1> SUFFICES ASSUME NEW u \in Users, u \in exact', NEW z \in Others
             PROVE  Follows(u, z)'
  <2>1. exact' \subseteq Users
    BY ListsStep DEF ListsInv, TypeOK
  <2> QED
    BY <2>1 DEF ChatInductive
<1>0. copy \in [Users -> {None} \cup SUBSET Others]
  BY DEF ListsInv, TypeOK
<1>i. u \in exact => Follows(u, z)
  BY DEF ChatInductive
<1>d. ~(Tell /\ For(batch[1], u, z)) /\ ~(Fail /\ For(batch[1], u, z))
        => (DbAfter(u, z)' <=> DbAfter(u, z))
  BY DbAfterStays
<1>1. ASSUME NEW h \in Handlers, NEW v \in Users, LogIn(h, v) PROVE Follows(u, z)'
  <2>1. events' = Append(events, Flush(v)) /\ copy' = copy /\ exact' = exact /\ updater' = updater
    BY <1>1 DEF LogIn, writer
  <2>2. Flush(v) \in EventSet /\ ~Upd(Flush(v), u, z)
    BY MadeEvents DEF Upd
  <2>3. ~Tell /\ ~Fail
    BY <2>1 DEF Tell, Fail
  <2> QED
    BY <1>d, <1>i, <2>1, <2>2, <2>3, OtherEvent
<1>2. CASE Tell
  <2>1. /\ events' = Append(events, Update(batch[1])) /\ copy' = copy /\ exact' = exact
        /\ batch' = batch /\ updater' = "look" /\ updater = "tell"
    BY <1>2 DEF Tell
  <2>2. batch[1] \in Change
    BY <2>1, BatchFirst DEF ListsInv, Ready, UpdaterReady
  <2>3. /\ Update(batch[1]) \in EventSet /\ Update(batch[1]).update = batch[1]
        /\ Upd(Update(batch[1]), u, z) <=> For(batch[1], u, z)
    BY <2>2, MadeEvents DEF Upd
  <2>4. CASE For(batch[1], u, z)
    <3>1. Update(batch[1]).update.what = "add" <=> DbAfter(u, z)'
      BY <2>1, <2>3, <2>4 DEF DbAfter
    <3> QED
      BY <2>1, <2>3, <2>4, <3>1, ToldEvent
  <2>5. CASE ~For(batch[1], u, z)
    BY <1>d, <1>i, <2>1, <2>3, <2>5, OtherEvent
  <2> QED
    BY <2>4, <2>5
<1>3. CASE TakeUpdate
  <2> DEFINE c == Head(events).update
  <2>1. /\ events # <<>> /\ events' = Tail(events) /\ "update" \in DOMAIN Head(events)
        /\ copy' = IF copy[c.user] = None THEN copy
                   ELSE [copy EXCEPT ![c.user] = Changed(copy[c.user], c)]
        /\ exact' = exact /\ batch' = batch /\ updater' = updater
    BY <1>3 DEF TakeUpdate, writer
  <2>2. c \in Change
    BY <2>1, EventFirst, EventKinds
  <2>3. c.user \in Users /\ c.other \in Others
    BY <2>2 DEF Change
  <2>4. Upd(Head(events), u, z) <=> For(c, u, z)
    BY <2>1 DEF Upd
  <2> HIDE DEF c
  <2>5. copy[c.user] # None => copy[c.user] \in SUBSET Others
    BY <1>0, <2>3
  <2>6. copy[c.user] # None =>
          /\ \A y : y # c.other => (y \in Changed(copy[c.user], c) <=> y \in copy[c.user])
          /\ c.other \in Changed(copy[c.user], c) <=> c.what = "add"
    BY <2>3, <2>5, ChangedList
  <2>7. copy'[u] # None => copy[u] # None
    BY <1>0, <2>1, <2>3
  <2>8. ASSUME copy'[u] # None
        PROVE  z \in copy'[u] <=> IF For(c, u, z) THEN c.what = "add" ELSE z \in copy[u]
    <3>1. CASE u = c.user
      <4>1. copy[c.user] # None /\ copy'[u] = Changed(copy[c.user], c)
        BY <1>0, <2>1, <2>7, <2>8, <3>1
      <4> QED
        BY <2>6, <3>1, <4>1 DEF For
    <3>2. CASE u # c.user
      <4>1. copy'[u] = copy[u]
        BY <1>0, <2>1, <2>3, <3>2
      <4> QED
        BY <3>2, <4>1 DEF For
    <3> QED
      BY <3>1, <3>2
  <2>9. ~Tell /\ ~Fail
    BY <2>1, HeadTailProperties DEF Tell, Fail, ListsInv, Ready, UpdaterReady
  <2>10. copy'[u] # None =>
           (z \in copy'[u] <=> IF Upd(Head(events), u, z) THEN Head(events).update.what = "add"
                               ELSE z \in copy[u])
    BY <2>4, <2>8 DEF c
  <2> QED
    BY <1>d, <1>i, <2>1, <2>7, <2>9, <2>10, TakenEvent
<1>4. CASE TakeFlush
  <2>1. /\ events # <<>> /\ events' = Tail(events) /\ "flush" \in DOMAIN Head(events)
        /\ copy' = [copy EXCEPT ![Head(events).flush] = None]
        /\ exact' = exact /\ batch' = batch /\ updater' = updater
    BY <1>4 DEF TakeFlush, writer
  <2>2. ~Upd(Head(events), u, z)
    BY <2>1, EventFirst, EventKinds DEF Upd
  <2>3. copy'[u] # None => copy'[u] = copy[u]
    BY <1>0, <2>1
  <2>4. ~Tell /\ ~Fail
    BY <2>1 DEF Tell, Fail, ListsInv, Ready, UpdaterReady
  <2>5. /\ copy'[u] # None => copy[u] # None
        /\ copy'[u] # None =>
           (z \in copy'[u] <=> IF Upd(Head(events), u, z) THEN Head(events).update.what = "add"
                               ELSE z \in copy[u])
    BY <2>2, <2>3
  <2> QED
    BY <1>d, <1>i, <2>1, <2>4, <2>5, TakenEvent
<1>5. CASE Fail
  <2>1. /\ events' = events /\ copy' = copy /\ exact' = exact \ {batch[1].user}
    BY <1>5 DEF Fail
  <2>2. u \in exact /\ ~For(batch[1], u, z)
    BY <2>1 DEF For
  <2>3. ~Tell
    BY <1>5 DEF Tell, Fail
  <2> QED
    BY <1>d, <1>i, <2>1, <2>2, <2>3, FollowsStays
<1>6. CASE Preload
  <2>1. /\ copy' = [copy EXCEPT ![work[Chat].user] = rows[row[Chat]]]
        /\ exact' = IF Quiet(work[Chat].user) /\ ~Told(work[Chat].user)
                       /\ rows[row[Chat]] = db[work[Chat].user]
                    THEN exact \cup {work[Chat].user} ELSE exact \ {work[Chat].user}
        /\ UNCHANGED <<db, events, writer>>
    BY <1>6 DEF Preload
  <2>2. CASE u = work[Chat].user
    <3>1. Quiet(u) /\ ~Told(u) /\ copy'[u] = db[u]
      BY <1>0, <2>1, <2>2
    <3>2. \A i \in 1..Len(events) : ~Upd(events[i], u, z)
      <4>1. DOMAIN events = 1..Len(events)
        BY LenProperties DEF ListsInv, TypeOK
      <4> QED
        BY <3>1, <4>1 DEF Told, Upd, For
    <3>3. DbAfter(u, z)' <=> z \in db[u]
      <4>1. ~First(u, z)
        BY <3>1, QuietMeans
      <4>2. updater \in {"look", "apply", "write"} => batch # <<>>
        BY DEF ListsInv, Ready, UpdaterReady
      <4> QED
        BY <2>1, <4>1, <4>2 DEF DbAfter, First, writer
    <3>4. \A i \in 1..Len(events') : ~Last(i, u, z)'
      BY <2>1, <3>2 DEF Last
    <3> QED
      BY <3>1, <3>3, <3>4 DEF Follows
  <2>3. CASE u # work[Chat].user
    <3>1. u \in exact /\ copy'[u] = copy[u]
      BY <1>0, <2>1, <2>3
    <3>2. DbAfter(u, z)' <=> DbAfter(u, z)
      BY <2>1 DEF DbAfter, writer
    <3> QED
      BY <1>i, <2>1, <3>1, <3>2, FollowsStays
  <2> QED
    BY <2>2, <2>3
<1>7. ASSUME NEW v \in Users, Unload(v) PROVE Follows(u, z)'
  <2>1. /\ copy' = [copy EXCEPT ![v] = None] /\ UNCHANGED <<db, events, writer, exact>>
    BY <1>7 DEF Unload
  <2>2. copy'[u] # None => copy'[u] = copy[u]
    BY <1>0, <2>1
  <2>3. DbAfter(u, z)' <=> DbAfter(u, z)
    BY <2>1 DEF DbAfter, writer
  <2> QED
    BY <1>i, <2>1, <2>2, <2>3, FollowsStays
<1>8. ASSUME UNCHANGED <<events, copy, exact>>, ~Tell, ~Fail PROVE Follows(u, z)'
  BY <1>d, <1>i, <1>8, FollowsStays
<1>9. ASSUME ~Tell, ~Fail, ~TakeUpdate, ~TakeFlush, ~Preload, \A v \in Users : ~Unload(v),
             \A h \in Handlers, v \in Users : ~LogIn(h, v)
      PROVE  UNCHANGED <<events, copy, exact>>
  BY <1>9, StepCases
  DEF Click, Find, Load, Insert, Decide, ChangeRow, Push, ClearKey, Extract, Look, Apply, Write,
      Need, Purge, vars
<1> QED
  BY <1>1, <1>2, <1>3, <1>4, <1>5, <1>6, <1>7, <1>8, <1>9

(* With no update under way, and none to take, the copy is the database's. *)
LEMMA ChatCurrentFollows ==
  ASSUME ListsInv, ChatInductive PROVE ChatCurrent
<1> SUFFICES ASSUME NEW u \in exact, copy[u] # None, Quiet(u), ~Told(u)
             PROVE  copy[u] = db[u]
  BY DEF ChatCurrent
<1>1. /\ u \in Users /\ copy[u] \in SUBSET Others /\ db[u] \in SUBSET Others
      /\ DOMAIN events = 1..Len(events)
  BY LenProperties DEF ListsInv, TypeOK
<1>2. ASSUME NEW z \in Others PROVE z \in copy[u] <=> z \in db[u]
  <2>1. NoneToTake(u, z)
    BY <1>1 DEF NoneToTake, Told, Upd, For
  <2>2. ~First(u, z)
    BY <1>1, QuietMeans
  <2>3. DbAfter(u, z) <=> z \in db[u]
    BY <2>2 DEF DbAfter, First, ListsInv, Ready, UpdaterReady
  <2> QED
    BY <2>1, <2>3 DEF ChatInductive, Follows
<1> QED
  BY <1>1, <1>2

(* A copy that was right when the chat thread took it is right again       *)
(* whenever no update of the user is under way.                            *)
THEOREM ChatIsCurrent ==
  Spec => []ChatCurrent
<1> DEFINE ChatInv == ListsInv /\ ChatInductive
<1>0. ListsAssumption
  BY ListsAssumption
<1>1. Init => ChatInv
  <2>1. Init => ChatInductive
    BY DEF Init, ChatInductive
  <2> QED
    BY <1>0, <2>1, ListsInit
<1>2. ChatInv /\ [Next]_vars => ChatInv'
  <2> SUFFICES ASSUME ChatInv, [Next]_vars PROVE ChatInv'
    OBVIOUS
  <2>1. ListsInv'
    BY <1>0, ListsStep
  <2>2. ChatInductive'
    BY <1>0, ChatStep
  <2> QED
    BY <2>1, <2>2
<1>3. ChatInv => ChatCurrent
  BY ChatCurrentFollows
<1> QED
  BY <1>1, <1>2, <1>3, PTL DEF Spec
===============================================================================
