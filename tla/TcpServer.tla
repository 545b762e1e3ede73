------------------------------ MODULE TcpServer ------------------------------
(***************************************************************************)
(* The pool of handler threads (core-web/tcp_server.cpp).                  *)
(*                                                                         *)
(* A listener thread per listened address pushes what it accepts on        *)
(* conn_list and then decides whether to create a handler: it reads        *)
(* handlers_count and handlers_busy, two counters with a lock each, which  *)
(* the listeners and the handlers change at other moments than the list.   *)
(* The names ServerInit, ServerNext and so on let a module extend this one *)
(* and TcpSender, the other half of core-web's network layer.              *)
(***************************************************************************)
EXTENDS Integers, Sequences, FiniteSets

CONSTANTS
  Conns,        \* the connections clients make
  Listeners,    \* one per entry of listen_addresses
  Handlers,     \* the handler threads there can be (a bound for TLC)
  NoConn,       \* no connection
  MaxHandlers,  \* max_number_of_accept_handlers, 0 for no limit
  UintSize      \* the values of an unsigned int (2^32)

ASSUME ServerAssumption ==
  /\ NoConn \notin Conns
  /\ IsFiniteSet(Listeners) /\ IsFiniteSet(Handlers)
  /\ MaxHandlers \in Nat
  /\ UintSize \in Nat /\ UintSize > 1

VARIABLES
  connList,  \* conn_list
  count,     \* handlers_count
  busy,      \* handlers_busy
  listener,  \* where each listener is in its loop
  seen,      \* the two values a listener subtracts, -1 when not read
  handler,   \* where each handler is
  serving,   \* the connection a handler extracted
  served,    \* history: how often process_tcp was called for a connection
  refused    \* history: pthread_create has failed

lists      == <<listener, seen>>
pool       == <<handler, serving, served>>
serverVars == <<connList, count, busy, lists, pool, refused>>

Unread == [count |-> -1, busy |-> -1]

ServerInit ==
  /\ connList = <<>>
  /\ count = 0 /\ busy = 0
  /\ listener = [l \in Listeners |-> "accept"]
  /\ seen = [l \in Listeners |-> Unread]
  /\ handler = [h \in Handlers |-> "none"]
  /\ serving = [h \in Handlers |-> NoConn]
  /\ served = [c \in Conns |-> 0]
  /\ refused = FALSE

Queued == {connList[i] : i \in 1..Len(connList)}
Held   == {serving[h] : h \in Handlers} \ {NoConn}
Fresh  == {c \in Conns : served[c] = 0} \ (Queued \cup Held)
-----------------------------------------------------------------------------
(* A listener. *)

Accept(l, c) ==
  /\ listener[l] = "accept" /\ c \in Fresh
  /\ connList' = Append(connList, c)
  /\ listener' = [listener EXCEPT ![l] = "look"]
  /\ UNCHANGED <<count, busy, seen, pool, refused>>

(* The operands of the subtraction are evaluated in either order. *)
ReadCount(l) ==
  /\ listener[l] = "look" /\ seen[l].count = -1
  /\ seen' = [seen EXCEPT ![l].count = count]
  /\ UNCHANGED <<connList, count, busy, listener, pool, refused>>

ReadBusy(l) ==
  /\ listener[l] = "look" /\ seen[l].busy = -1
  /\ seen' = [seen EXCEPT ![l].busy = busy]
  /\ UNCHANGED <<connList, count, busy, listener, pool, refused>>

(* Faulty: an unsigned number is never less than 0. *)
FoundFreeAlways(l) == (seen[l].count - seen[l].busy) % UintSize >= 0

(* The difference of unsigned numbers is one: -1 is greater than 0. *)
FoundFree(l) == (seen[l].count - seen[l].busy) % UintSize > 0

Decide(l) ==
  /\ listener[l] = "look" /\ seen[l].count # -1 /\ seen[l].busy # -1
  /\ listener' = [listener EXCEPT ![l] = IF FoundFree(l) THEN "accept" ELSE "limit"]
  /\ seen' = [seen EXCEPT ![l] = Unread]
  /\ UNCHANGED <<connList, count, busy, pool, refused>>

(* Faulty: a limit of one is never reached. *)
CheckLimitOff(l) ==
  /\ listener[l] = "limit"
  /\ listener' = [listener EXCEPT ![l] =
       IF MaxHandlers = 0 \/ count <= MaxHandlers THEN "create" ELSE "accept"]
  /\ UNCHANGED <<connList, count, busy, seen, pool, refused>>

CheckLimit(l) ==
  /\ listener[l] = "limit"
  /\ listener' = [listener EXCEPT ![l] =
       IF MaxHandlers = 0 \/ count < MaxHandlers THEN "create" ELSE "accept"]
  /\ UNCHANGED <<connList, count, busy, seen, pool, refused>>

CreateHandler(l, h) ==
  /\ listener[l] = "create" /\ handler[h] = "none"
  /\ handler' = [handler EXCEPT ![h] = "poll"]
  /\ listener' = [listener EXCEPT ![l] = "count"]
  /\ UNCHANGED <<connList, count, busy, seen, serving, served, refused>>

(* create_thread throws: the listener goes on with the next connection. *)
CreateFails(l) ==
  /\ listener[l] = "create"
  /\ listener' = [listener EXCEPT ![l] = "accept"]
  /\ refused' = TRUE
  /\ UNCHANGED <<connList, count, busy, seen, pool>>

CountHandler(l) ==
  /\ listener[l] = "count"
  /\ count' = count + 1
  /\ listener' = [listener EXCEPT ![l] = "accept"]
  /\ UNCHANGED <<connList, busy, seen, pool, refused>>
-----------------------------------------------------------------------------
(* A handler: it polls conn_list, and is busy for the time of process_tcp. *)

Extract(h) ==
  /\ handler[h] = "poll" /\ connList # <<>>
  /\ serving' = [serving EXCEPT ![h] = Head(connList)]
  /\ connList' = Tail(connList)
  /\ handler' = [handler EXCEPT ![h] = "taken"]
  /\ UNCHANGED <<count, busy, lists, served, refused>>

MarkBusy(h) ==
  /\ handler[h] = "taken"
  /\ busy' = busy + 1
  /\ served' = [served EXCEPT ![serving[h]] = @ + 1]
  /\ handler' = [handler EXCEPT ![h] = "busy"]
  /\ UNCHANGED <<connList, count, lists, serving, refused>>

(* process_tcp returns or throws; the destructor of st_THREAD_BUSY. *)
Finish(h) ==
  /\ handler[h] = "busy"
  /\ busy' = busy - 1
  /\ handler' = [handler EXCEPT ![h] = "poll"]
  /\ serving' = [serving EXCEPT ![h] = NoConn]
  /\ UNCHANGED <<connList, count, lists, served, refused>>
-----------------------------------------------------------------------------
ListenerRuns(l) ==
  \/ ReadCount(l) \/ ReadBusy(l) \/ Decide(l) \/ CheckLimit(l) \/ CountHandler(l)
  \/ \E h \in Handlers : CreateHandler(l, h)
  \/ CreateFails(l)

HandlerRuns(h) == Extract(h) \/ MarkBusy(h) \/ Finish(h)

ServerNext ==
  \/ \E l \in Listeners : ListenerRuns(l) \/ \E c \in Conns : Accept(l, c)
  \/ \E h \in Handlers : HandlerRuns(h)

ServerSpec == ServerInit /\ [][ServerNext]_serverVars

(* Both loops are while(1) over calls that return: the reads of process_tcp*)
(* have time limits (web_connection_ptcp.cpp:111, 170), the one of the IRC *)
(* server only queues the socket (tcp_dialog_server.cpp:352).              *)
FairServerSpec ==
  /\ ServerSpec
  /\ \A l \in Listeners : WF_serverVars(ListenerRuns(l))
  /\ \A h \in Handlers : WF_serverVars(HandlerRuns(h))
-----------------------------------------------------------------------------
ServerTypeOK ==
  /\ connList \in Seq(Conns)
  /\ count \in Nat
  /\ busy \in Nat
  /\ listener \in [Listeners -> {"accept", "look", "limit", "create", "count"}]
  /\ seen \in [Listeners -> [count : Nat \cup {-1}, busy : Nat \cup {-1}]]
  /\ handler \in [Handlers -> {"none", "poll", "taken", "busy"}]
  /\ serving \in [Handlers -> Conns \cup {NoConn}]
  /\ served \in [Conns -> Nat]
  /\ refused \in BOOLEAN

Created == {h \in Handlers : handler[h] # "none"}
Serving == {h \in Handlers : handler[h] = "busy"}
Counting == {l \in Listeners : listener[l] = "count"}
Creating == {l \in Listeners : listener[l] = "create"}
Deciding == {l \in Listeners : listener[l] # "accept"}

(* The limit is read long before the counter is increased, so that all     *)
(* other listeners may pass the check as well; but no more than that.      *)
LimitKept ==
  MaxHandlers > 0 => Cardinality(Created) <= MaxHandlers + Cardinality(Listeners) - 1

(* A connection in the list has a handler that will come to it, or a       *)
(* listener that may still create one, unless a thread could not be made.  *)
QueueHasHandler ==
  connList # <<>> /\ ~refused => Created # {} \/ Deciding # {}

(* The counters, which nothing but the decision reads. *)
HandlersCounted ==
  /\ count + Cardinality(Counting) = Cardinality(Created)
  /\ busy = Cardinality(Serving)

(* Every accepted connection is served. *)
EveryoneServed ==
  \A c \in Conns : c \in Queued ~> (served[c] = 1 \/ refused)
==============================================================================
