------------------------------ MODULE IgnoreLists ------------------------------
(***************************************************************************)
(* Whom each user ignores, in the four places that know it: the database,   *)
(* the cache of rows in front of it (db_map), the copy in the chat thread's *)
(* chat_stuff_user, and the queue of updates between them.  A handler that  *)
(* serves a click changes the row in the cache and queues an update; one    *)
(* thread, update_processor, tells the chat thread, changes the cached row  *)
(* again and writes to the database.  Nobody locks more than one place.     *)
(*                                                                         *)
(* The contact lists, the profiles and the nicks go the same way.           *)
(***************************************************************************)
EXTENDS Integers, Sequences

CONSTANTS
  Users, Others,   \* DB_id: who ignores, and whom
  Handlers,        \* threads that run url_ignore_user and log users in
  Chat,            \* the chat thread
  None,            \* no user, no copy
  MaxClicks, MaxLogins, MaxNeeds,  \* bounds: clicks, logins, loads by the chat thread
  MaxFailures      \* bound: queries that fail

ASSUME ListsAssumption ==
  /\ Chat \notin Handlers /\ None \notin Users /\ \A s \in SUBSET Others : s # None
  /\ {MaxClicks, MaxLogins, MaxNeeds, MaxFailures} \subseteq Nat

VARIABLES
  db,        \* db[u]: table ignores
  rows,      \* rows[o]: ignore_vec o, the rows that were ever loaded
  cache,     \* cache[u]: ignore_vecs, 0 when u has no row there
  copy,      \* copy[u]: ignores of __users$[u], None when u is not loaded
  events,    \* __chat_events, as far as it is about the lists
  queue,     \* update_commands
  batch,     \* de, what update_processor has extracted
  updater,   \* where it is with the first of batch,
  found,     \* and the row it has got
  pc,        \* where each other thread is,
  work,      \* what it is at: a user, whom he has clicked on, and what that does,
  row,       \* the row it holds
  left,      \* bound: clicks, logins, loads and failures that are left
  torn,      \* history: users whose cached row was loaded or left behind the database
  exact      \* history: users whose copy was right when it was taken, with no update under way

threads == <<pc, work, row>>
writer  == <<batch, updater, found>>
vars == <<db, rows, cache, copy, events, queue, writer, threads, left, torn, exact>>

Threads == Handlers \cup {Chat}

Change == [user : Users, other : Others, what : {"add", "remove"}]

(* insert and erase of a set, and the queries *)
Changed(list, c) ==
  IF c.what = "add" THEN list \cup {c.other} ELSE list \ {c.other}

NoWork == [user |-> None, other |-> None, what |-> None]
WorkOn(u, z) == [user |-> u, other |-> z, what |-> None]

Flush(u) == [flush |-> u]
Update(c) == [update |-> c]

Init ==
  /\ db = [u \in Users |-> {}] /\ rows = <<>>
  /\ cache = [u \in Users |-> 0]
  /\ copy = [u \in Users |-> None]
  /\ events = <<>> /\ queue = <<>> /\ batch = <<>>
  /\ updater = "idle" /\ found = 0
  /\ pc = [t \in Threads |-> "idle"]
  /\ work = [t \in Threads |-> NoWork]
  /\ row = [t \in Threads |-> 0]
  /\ left = [clicks |-> MaxClicks, logins |-> MaxLogins, needs |-> MaxNeeds,
             failures |-> MaxFailures]
  /\ torn = {} /\ exact = {}

At(t, where) == pc[t] = where
Goes(t, where) == pc' = [pc EXCEPT ![t] = where]
Ends(t) == Goes(t, "idle") /\ work' = [work EXCEPT ![t] = NoWork]
Spends(what) == left[what] > 0 /\ left' = [left EXCEPT ![what] = @ - 1]
-----------------------------------------------------------------------------
(* db_map::find_by_id_create, by any thread: get_NM__, load_from_db and     *)
(* insert, with the mutex of the map held in the first and the last.        *)

Find(t) ==
  LET u == work[t].user IN
  /\ At(t, "find")
  /\ row' = [row EXCEPT ![t] = cache[u]]
  /\ Goes(t, IF cache[u] = 0 THEN "load" ELSE "use")
  /\ UNCHANGED <<db, rows, cache, copy, events, queue, writer, work, left, torn, exact>>

Load(t) ==
  /\ At(t, "load")
  /\ rows' = Append(rows, db[work[t].user])
  /\ row' = [row EXCEPT ![t] = Len(rows) + 1]
  /\ Goes(t, "insert")
  /\ UNCHANGED <<db, cache, copy, events, queue, writer, work, left, torn, exact>>

(* The updater is past its look for the row of u, and has not written yet. *)
PastLook(u) == updater \in {"apply", "write"} /\ batch[1].user = u

Behind(t) ==
  LET u == work[t].user IN rows[row[t]] # db[u] \/ (PastLook(u) /\ found = 0)

(* An entry that is there stays; the caller goes on with the row it loaded. *)
Insert(t) ==
  LET u == work[t].user IN
  /\ At(t, "insert")
  /\ IF cache[u] = 0
     THEN /\ cache' = [cache EXCEPT ![u] = row[t]]
          /\ torn' = IF Behind(t) THEN torn \cup {u} ELSE torn
     ELSE UNCHANGED <<cache, torn>>
  /\ Goes(t, "use")
  /\ UNCHANGED <<db, rows, copy, events, queue, writer, work, row, left, exact>>
-----------------------------------------------------------------------------
(* url_ignore_user *)

Click(h, u, z) ==
  /\ At(h, "idle") /\ Spends("clicks")
  /\ work' = [work EXCEPT ![h] = WorkOn(u, z)]
  /\ Goes(h, "find")
  /\ UNCHANGED <<db, rows, cache, copy, events, queue, writer, row, torn, exact>>

(* need_add *)
Decide(h) ==
  /\ At(h, "use")
  /\ work' = [work EXCEPT ![h].what =
                IF work[h].other \in rows[row[h]] THEN "remove" ELSE "add"]
  /\ Goes(h, "change")
  /\ UNCHANGED <<db, rows, cache, copy, events, queue, writer, row, left, torn, exact>>

(* The row goes out of hand before the update is queued. *)
ChangeRow(h) ==
  /\ At(h, "change")
  /\ rows' = [rows EXCEPT ![row[h]] = Changed(@, work[h])]
  /\ row' = [row EXCEPT ![h] = 0]
  /\ Goes(h, "push")
  /\ UNCHANGED <<db, cache, copy, events, queue, writer, work, left, torn, exact>>

(* ~st_update *)
Push(h) ==
  /\ At(h, "push")
  /\ queue' = Append(queue, work[h])
  /\ Ends(h)
  /\ UNCHANGED <<db, rows, cache, copy, events, writer, row, left, torn, exact>>
-----------------------------------------------------------------------------
(* Rows leave the cache: what is loaded next is what the database has by    *)
(* then.                                                                   *)

(* flush_user_data, which a login calls *)
LogIn(h, u) ==
  /\ At(h, "idle") /\ Spends("logins")
  /\ events' = Append(events, Flush(u))
  /\ work' = [work EXCEPT ![h] = WorkOn(u, None)]
  /\ Goes(h, "clear")
  /\ UNCHANGED <<db, rows, cache, copy, queue, writer, row, torn, exact>>

(* clear_key, whoever has a pointer to the row *)
ClearKey(h) ==
  LET u == work[h].user IN
  /\ At(h, "clear")
  /\ cache' = [cache EXCEPT ![u] = 0]
  /\ torn' = IF PastLook(u) THEN torn \cup {u} ELSE torn \ {u}
  /\ Ends(h)
  /\ UNCHANGED <<db, rows, copy, events, queue, writer, row, left, exact>>

Held(o) == found = o \/ \E t \in Threads : row[t] = o

(* Faulty: does not look who has a pointer to the row. *)
PurgeHeld(u) ==
  /\ cache[u] # 0
  /\ cache' = [cache EXCEPT ![u] = 0]
  /\ torn' = IF PastLook(u) THEN torn ELSE torn \ {u}
  /\ UNCHANGED <<db, rows, copy, events, queue, writer, threads, left, exact>>

(* db_map::purge by the main thread, of a row that nobody but the map has a *)
(* pointer to, and that was not used for a long time.                      *)
Purge(u) ==
  /\ cache[u] # 0 /\ ~Held(cache[u])
  /\ cache' = [cache EXCEPT ![u] = 0]
  /\ torn' = IF PastLook(u) THEN torn ELSE torn \ {u}
  /\ UNCHANGED <<db, rows, copy, events, queue, writer, threads, left, exact>>
-----------------------------------------------------------------------------
(* update_processor and update_datum *)

Extract ==
  /\ updater = "idle" /\ queue # <<>>
  /\ batch' = queue /\ queue' = <<>>
  /\ updater' = "tell"
  /\ UNCHANGED <<db, rows, cache, copy, events, found, threads, left, torn, exact>>

(* Faulty: the command goes without its event. *)
TellBare ==
  /\ updater = "tell"
  /\ events' = Append(events, batch[1])
  /\ updater' = "look"
  /\ UNCHANGED <<db, rows, cache, copy, queue, batch, found, threads, left, torn, exact>>

Tell ==
  /\ updater = "tell"
  /\ events' = Append(events, Update(batch[1]))
  /\ updater' = "look"
  /\ UNCHANGED <<db, rows, cache, copy, queue, batch, found, threads, left, torn, exact>>

(* db_map::get *)
Look ==
  /\ updater = "look"
  /\ found' = cache[batch[1].user]
  /\ updater' = IF found' = 0 THEN "write" ELSE "apply"
  /\ UNCHANGED <<db, rows, cache, copy, events, queue, batch, threads, left, torn, exact>>

Apply ==
  /\ updater = "apply"
  /\ rows' = [rows EXCEPT ![found] = Changed(@, batch[1])]
  /\ updater' = "write"
  /\ UNCHANGED <<db, cache, copy, events, queue, batch, found, threads, left, torn, exact>>

Write ==
  LET u == batch[1].user IN
  /\ updater = "write"
  /\ db' = [db EXCEPT ![u] = Changed(@, batch[1])]
  /\ batch' = Tail(batch)
  /\ updater' = IF Len(batch) = 1 THEN "idle" ELSE "tell"
  /\ found' = 0
  /\ UNCHANGED <<rows, cache, copy, events, queue, threads, left, torn, exact>>

(* Faulty: keeps what it does not come back to. *)
FailKeeps ==
  /\ updater = "write" /\ Spends("failures")
  /\ torn' = torn \cup {batch[i].user : i \in DOMAIN batch}
  /\ exact' = exact \ {batch[1].user}
  /\ updater' = "idle" /\ found' = 0
  /\ UNCHANGED <<db, rows, cache, copy, events, queue, batch, threads>>

(* The query throws: the rest of the batch goes with it. *)
Fail ==
  /\ updater = "write" /\ Spends("failures")
  /\ torn' = torn \cup {batch[i].user : i \in DOMAIN batch}
  /\ exact' = exact \ {batch[1].user}
  /\ batch' = <<>> /\ found' = 0
  /\ updater' = "idle"
  /\ UNCHANGED <<db, rows, cache, copy, events, queue, threads>>
-----------------------------------------------------------------------------
(* The chat thread *)

(* Faulty: has no case for a user who is ignored no more. *)
TakeUpdateAdds ==
  /\ At(Chat, "idle") /\ events # <<>> /\ "update" \in DOMAIN Head(events)
  /\ events' = Tail(events)
  /\ LET c == Head(events).update IN
     copy' = IF copy[c.user] = None THEN copy
             ELSE [copy EXCEPT ![c.user] = @ \cup {c.other}]
  /\ UNCHANGED <<db, rows, cache, queue, writer, threads, left, torn, exact>>

(* on_UPDATE_DATA, which returns when the user is not loaded *)
TakeUpdate ==
  /\ At(Chat, "idle") /\ events # <<>> /\ "update" \in DOMAIN Head(events)
  /\ events' = Tail(events)
  /\ LET c == Head(events).update IN
     copy' = IF copy[c.user] = None THEN copy
             ELSE [copy EXCEPT ![c.user] = Changed(@, c)]
  /\ UNCHANGED <<db, rows, cache, queue, writer, threads, left, torn, exact>>

(* unload_user *)
TakeFlush ==
  /\ At(Chat, "idle") /\ events # <<>> /\ "flush" \in DOMAIN Head(events)
  /\ events' = Tail(events)
  /\ copy' = [copy EXCEPT ![Head(events).flush] = None]
  /\ UNCHANGED <<db, rows, cache, queue, writer, threads, left, torn, exact>>

(* Updates of u that are on their way to the database, and to the copy *)
Queued(u) == \E i \in DOMAIN queue : queue[i].user = u
InBatch(u) == \E i \in DOMAIN batch : batch[i].user = u
Pushing(u) == \E h \in Handlers : At(h, "push") /\ work[h].user = u
Told(u) == \E i \in DOMAIN events : "update" \in DOMAIN events[i] /\ events[i].update.user = u
Quiet(u) == ~Queued(u) /\ ~InBatch(u) /\ ~Pushing(u)

(* get_user_p, for another event: preload_user *)
Need(u) ==
  /\ At(Chat, "idle") /\ copy[u] = None /\ Spends("needs")
  /\ work' = [work EXCEPT ![Chat] = WorkOn(u, None)]
  /\ Goes(Chat, "find")
  /\ UNCHANGED <<db, rows, cache, copy, events, queue, writer, row, torn, exact>>

Preload ==
  LET u == work[Chat].user
      list == rows[row[Chat]] IN
  /\ At(Chat, "use")
  /\ copy' = [copy EXCEPT ![u] = list]
  /\ exact' = IF Quiet(u) /\ ~Told(u) /\ list = db[u] THEN exact \cup {u} ELSE exact \ {u}
  /\ row' = [row EXCEPT ![Chat] = 0]
  /\ Ends(Chat)
  /\ UNCHANGED <<db, rows, cache, events, queue, writer, left, torn>>

(* The end of the trash: a user who has left long ago *)
Unload(u) ==
  /\ At(Chat, "idle") /\ copy[u] # None
  /\ copy' = [copy EXCEPT ![u] = None]
  /\ UNCHANGED <<db, rows, cache, events, queue, writer, threads, left, torn, exact>>
-----------------------------------------------------------------------------
Finder(t) == Find(t) \/ Load(t) \/ Insert(t)
Handler(h) == Finder(h) \/ Decide(h) \/ ChangeRow(h) \/ Push(h) \/ ClearKey(h)
Updater == Extract \/ Tell \/ Look \/ Apply \/ Write \/ Fail
ChatRuns == Finder(Chat) \/ Preload \/ TakeUpdate \/ TakeFlush

Next ==
  \/ \E h \in Handlers, u \in Users : LogIn(h, u) \/ \E z \in Others : Click(h, u, z)
  \/ \E h \in Handlers : Handler(h)
  \/ Updater \/ ChatRuns
  \/ \E u \in Users : Need(u) \/ Purge(u) \/ Unload(u)

Spec == Init /\ [][Next]_vars

(* The threads run, and what has begun goes on. *)
FairSpec ==
  /\ Spec
  /\ \A h \in Handlers : WF_vars(Handler(h))
  /\ WF_vars(Updater) /\ WF_vars(ChatRuns)
-----------------------------------------------------------------------------
TypeOK ==
  /\ db \in [Users -> SUBSET Others] /\ rows \in Seq(SUBSET Others)
  /\ cache \in [Users -> 0..Len(rows)]
  /\ copy \in [Users -> {None} \cup SUBSET Others]
  /\ queue \in Seq(Change) /\ batch \in Seq(Change)
  /\ events \in Seq([flush : Users] \cup [update : Change])
  /\ updater \in {"idle", "tell", "look", "apply", "write"}
  /\ found \in 0..Len(rows)
  /\ pc \in [Threads -> {"idle", "find", "load", "insert", "use", "change", "push", "clear"}]
  /\ row \in [Threads -> 0..Len(rows)]
  /\ work \in [Threads -> [user : Users \cup {None}, other : Others \cup {None},
                           what : {"add", "remove", None}]]
  /\ left \in [{"clicks", "logins", "needs", "failures"} -> Nat]
  /\ torn \subseteq Users /\ exact \subseteq Users

(* Whatever order two handlers, the updater, a login and the purge take:    *)
(* when no update of a user is under way his row in the cache is the        *)
(* database's, unless a query failed, or it was loaded, or a login       *)
(* removed it, while the updater was between its look and its query.       *)
CacheCurrent ==
  \A u \in Users \ torn : Quiet(u) /\ cache[u] # 0 => rows[cache[u]] = db[u]

(* A copy that the chat thread took while no update of the user was under   *)
(* way, and that was right, is right again whenever none is: the chat       *)
(* thread is told of the same updates in the same order.                   *)
ChatCurrent ==
  \A u \in exact : copy[u] # None /\ Quiet(u) /\ ~Told(u) => copy[u] = db[u]

(* Updates do not stay: the updater goes on behind a query that fails. *)
UpdatesDone == \A u \in Users : ~Quiet(u) ~> Quiet(u)
==============================================================================
