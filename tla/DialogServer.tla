----------------------------- MODULE DialogServer -----------------------------
(***************************************************************************)
(* The server for connections that talk in lines                           *)
(* (core-web/tcp_dialog_server.cpp), which the IRC server derives from.    *)
(*                                                                         *)
(* An accept handler queues a new socket on accepteds.  The selector       *)
(* thread takes it into its map ccc, by descriptor, reads what arrives     *)
(* into rd_buf and queues the socket on readable_socks.  Several handlers  *)
(* take sockets from there and process the lines they find.  Other threads *)
(* close sockets meanwhile, and the kernel gives a closed descriptor to    *)
(* the next connection.                                                    *)
(***************************************************************************)
EXTENDS Integers, Sequences

CONSTANTS
  Socks,      \* the c_sockets the server accepts
  Fds,        \* the kernel's descriptors
  NoFd,       \* -1, the m__sock of a closed socket
  Nobody,     \* no socket
  Handlers,   \* the dialog_handler_cnt handler threads
  ZeroReads,  \* the empty reads after which a socket is closed (10)
  MaxSent     \* bound: the characters the client of each socket sends

ASSUME DialogAssumption ==
  /\ NoFd \notin Fds
  /\ Nobody \notin Socks
  /\ ZeroReads \in Nat /\ MaxSent \in [Socks -> Nat]

VARIABLES
  kernel,     \* the connection a descriptor stands for, by its socket
  stage,      \* how far the accept handler is with a socket
  sock,       \* c_socket::m__sock
  peer,       \* what the client did with the connection
  sent,       \* history: how much a client sent
  inbox,      \* what arrived and has not been read
  rdBuf,      \* c_socket::rd_buf
  recv0,      \* c_socket::recv0
  accepteds,
  readable,   \* readable_socks
  ccc,        \* the selector's map from descriptors to sockets
  pc,         \* where the selector is
  batch,      \* the deque of accepted sockets it extracted
  todo,       \* the events of poll it has not handled
  fresh,      \* the socket it has read and not queued yet
  serving,    \* the socket a handler took
  running,    \* the handlers in process_command
  deleted,    \* history: how often on_delete was called for a socket
  stopped     \* history: a handler left a socket with lines in rd_buf

net      == <<kernel, stage, sock, peer, sent, inbox>>
bufs     == <<rdBuf, recv0>>
selector == <<ccc, pc, batch, todo, fresh, deleted>>
workers  == <<serving, running>>
vars     == <<net, bufs, accepteds, readable, selector, workers, stopped>>

Slots  == Fds \cup {NoFd}
Char   == [from : Socks, ch : {"text", "eol"}]
Events == {"in", "err"}

Init ==
  /\ kernel = [f \in Fds |-> Nobody]
  /\ stage = [s \in Socks |-> "new"]
  /\ sock = [s \in Socks |-> NoFd]
  /\ peer = [s \in Socks |-> "talks"]
  /\ sent = [s \in Socks |-> 0]
  /\ inbox = [s \in Socks |-> <<>>]
  /\ rdBuf = [s \in Socks |-> <<>>]
  /\ recv0 = [s \in Socks |-> 0]
  /\ accepteds = <<>> /\ readable = <<>>
  /\ ccc = [f \in Slots |-> Nobody]
  /\ pc = "loop" /\ batch = <<>> /\ fresh = Nobody
  /\ todo = [f \in Fds |-> {}]
  /\ serving = [h \in Handlers |-> Nobody] /\ running = {}
  /\ deleted = [s \in Socks |-> 0]
  /\ stopped = {}
-----------------------------------------------------------------------------
(* Clients, the accept handlers, and the threads that close sockets.       *)

Accept(s, f) ==
  /\ stage[s] = "new" /\ kernel[f] = Nobody
  /\ kernel' = [kernel EXCEPT ![f] = s]
  /\ sock' = [sock EXCEPT ![s] = f]
  /\ stage' = [stage EXCEPT ![s] = "accepted"]
  /\ UNCHANGED <<peer, sent, inbox, bufs, accepteds, readable, selector, workers, stopped>>

(* process_tcp *)
Enqueue(s) ==
  /\ stage[s] = "accepted"
  /\ accepteds' = Append(accepteds, s)
  /\ stage' = [stage EXCEPT ![s] = "queued"]
  /\ UNCHANGED <<kernel, sock, peer, sent, inbox, bufs, readable, selector, workers, stopped>>

Send(s, ch) ==
  /\ stage[s] # "new" /\ sock[s] # NoFd
  /\ peer[s] = "talks" /\ sent[s] < MaxSent[s]
  /\ sent' = [sent EXCEPT ![s] = @ + 1]
  /\ inbox' = [inbox EXCEPT ![s] = Append(@, [from |-> s, ch |-> ch])]
  /\ UNCHANGED <<kernel, stage, sock, peer, bufs, accepteds, readable, selector, workers, stopped>>

(* The client closes the connection, or the connection breaks. *)
Leave(s, how) ==
  /\ stage[s] # "new" /\ peer[s] = "talks"
  /\ peer' = [peer EXCEPT ![s] = how]
  /\ UNCHANGED <<kernel, stage, sock, sent, inbox, bufs, accepteds, readable, selector, workers, stopped>>

(* c_socket::disconnect__sk; nothing happens to a socket that is closed. *)
Closed(s) ==
  /\ kernel' = [f \in Fds |-> IF sock[s] = f THEN Nobody ELSE kernel[f]]
  /\ sock' = [sock EXCEPT ![s] = NoFd]
  /\ UNCHANGED <<stage, peer, sent, inbox>>

(* A second login, the sender that got an error, or, for a socket that    *)
(* Insert has dropped, the end of its last reference (~c_socket).          *)
Disconnect(s) ==
  /\ stage[s] = "queued" /\ sock[s] # NoFd
  /\ Closed(s)
  /\ UNCHANGED <<bufs, accepteds, readable, selector, workers, stopped>>
-----------------------------------------------------------------------------
(* The selector. *)

TakeAccepted ==
  /\ pc = "loop"
  /\ batch' = accepteds /\ accepteds' = <<>>
  /\ pc' = "insert"
  /\ UNCHANGED <<net, bufs, readable, ccc, todo, fresh, deleted, workers, stopped>>

(* map::insert leaves an entry of the same descriptor alone. *)
Insert ==
  /\ pc = "insert" /\ batch # <<>>
  /\ LET f == sock[Head(batch)] IN
       ccc' = [ccc EXCEPT ![f] = IF @ = Nobody THEN Head(batch) ELSE @]
  /\ batch' = Tail(batch)
  /\ UNCHANGED <<net, bufs, accepteds, readable, pc, todo, fresh, deleted, workers, stopped>>

Stale(f) == ccc[f] # Nobody /\ sock[ccc[f]] # f

Forget(F) ==
  ccc' = [f \in Slots |-> IF f \in F THEN Nobody ELSE ccc[f]]

(* Faulty: looks for open sockets that have another descriptor. *)
CleanUpMoved ==
  /\ pc = "insert" /\ batch = <<>>
  /\ LET lost == {f \in Slots : Stale(f) /\ sock[ccc[f]] # NoFd} IN
       /\ Forget(lost)
       /\ deleted' = [s \in Socks |->
                        deleted[s] + IF \E f \in lost : ccc[f] = s THEN 1 ELSE 0]
  /\ pc' = "poll"
  /\ UNCHANGED <<net, bufs, accepteds, readable, batch, todo, fresh, workers, stopped>>

(* once in 200 rounds: rand() *)
CleanUp ==
  /\ pc = "insert" /\ batch = <<>>
  /\ LET lost == {f \in Slots : Stale(f)} IN
       /\ Forget(lost)
       /\ deleted' = [s \in Socks |->
                        deleted[s] + IF \E f \in lost : ccc[f] = s THEN 1 ELSE 0]
  /\ pc' = "poll"
  /\ UNCHANGED <<net, bufs, accepteds, readable, batch, todo, fresh, workers, stopped>>

SkipCleanUp ==
  /\ pc = "insert" /\ batch = <<>>
  /\ pc' = "poll"
  /\ UNCHANGED <<net, bufs, accepteds, readable, ccc, batch, todo, fresh, deleted, workers, stopped>>

(* What the kernel says of a descriptor; one that nobody has is POLLNVAL. *)
Answer(f) ==
  IF kernel[f] = Nobody THEN {"err"}
  ELSE LET s == kernel[f] IN
       (IF inbox[s] # <<>> \/ peer[s] # "talks" THEN {"in"} ELSE {})
         \cup (IF peer[s] = "broken" THEN {"err"} ELSE {})

(* Faulty: a socket with unprocessed data is not polled. *)
PollDrained ==
  /\ pc = "poll"
  /\ todo' = [f \in Fds |->
                IF ccc[f] = Nobody \/ rdBuf[ccc[f]] # <<>> THEN {} ELSE Answer(f)]
  /\ pc' = "handle"
  /\ UNCHANGED <<net, bufs, accepteds, readable, ccc, batch, fresh, deleted, workers, stopped>>

Poll ==
  /\ pc = "poll"
  /\ todo' = [f \in Fds |-> IF ccc[f] = Nobody THEN {} ELSE Answer(f)]
  /\ pc' = "handle"
  /\ UNCHANGED <<net, bufs, accepteds, readable, ccc, batch, fresh, deleted, workers, stopped>>

Handling(f, e) == pc = "handle" /\ fresh = Nobody /\ e \in todo[f]

(* Faulty: the socket stays in the map. *)
DeleteKeeps(f) ==
  /\ deleted' = [deleted EXCEPT ![ccc[f]] = @ + 1]
  /\ Closed(ccc[f])
  /\ UNCHANGED ccc

(* on_delete, disconnect, and ccc.erase *)
Delete(f) ==
  /\ deleted' = [deleted EXCEPT ![ccc[f]] = @ + 1]
  /\ Closed(ccc[f])
  /\ Forget({f})

(* The descriptor is another connection's by now. *)
ReadStale(f) ==
  /\ Handling(f, "in") /\ Stale(f)
  /\ Forget({f})
  /\ todo' = [todo EXCEPT ![f] = {}]
  /\ UNCHANGED <<net, bufs, accepteds, readable, pc, batch, fresh, deleted, workers, stopped>>

(* Faulty: reads before it compares the descriptors. *)
ReadFirst(f) == Handling(f, "in") /\ ccc[f] # Nobody /\ kernel[f] # Nobody

(* recv under the lock of the socket, which has the descriptor. *)
Readable(f) == Handling(f, "in") /\ ccc[f] # Nobody /\ ~Stale(f)

(* recv > 0 *)
ReadData(f) ==
  /\ Readable(f) /\ inbox[kernel[f]] # <<>>
  /\ rdBuf' = [rdBuf EXCEPT ![ccc[f]] = @ \o inbox[kernel[f]]]
  /\ inbox' = [inbox EXCEPT ![kernel[f]] = <<>>]
  /\ recv0' = [recv0 EXCEPT ![ccc[f]] = 0]
  /\ fresh' = ccc[f]
  /\ todo' = [todo EXCEPT ![f] = @ \ {"in"}]
  /\ UNCHANGED <<kernel, stage, sock, peer, sent, accepteds, readable, ccc, pc, batch,
                 deleted, workers, stopped>>

(* Faulty: takes a socket with older data for one that is queued already. *)
QueueReadableOnce ==
  /\ pc = "handle" /\ fresh # Nobody
  /\ readable' = IF Len(rdBuf[fresh]) > 1 THEN readable ELSE Append(readable, fresh)
  /\ stopped' = stopped \ {fresh}
  /\ fresh' = Nobody
  /\ UNCHANGED <<net, bufs, accepteds, ccc, pc, batch, todo, deleted, workers>>

QueueReadable ==
  /\ pc = "handle" /\ fresh # Nobody
  /\ readable' = Append(readable, fresh)
  /\ stopped' = stopped \ {fresh}
  /\ fresh' = Nobody
  /\ UNCHANGED <<net, bufs, accepteds, ccc, pc, batch, todo, deleted, workers>>

(* Faulty: compares the number of empty reads before it counts this one. *)
ReadEndLate(f) ==
  /\ Readable(f) /\ inbox[kernel[f]] = <<>> /\ peer[kernel[f]] = "closed"
  /\ recv0' = [recv0 EXCEPT ![ccc[f]] = @ + 1]
  /\ IF recv0[ccc[f]] > ZeroReads
     THEN Delete(f)
     ELSE UNCHANGED <<net, ccc, deleted>>
  /\ todo' = [todo EXCEPT ![f] = @ \ {"in"}]
  /\ UNCHANGED <<rdBuf, accepteds, readable, pc, batch, fresh, workers, stopped>>

(* recv = 0: the client has closed; once more than ZeroReads in a row *)
ReadEnd(f) ==
  /\ Readable(f) /\ inbox[kernel[f]] = <<>> /\ peer[kernel[f]] = "closed"
  /\ recv0' = [recv0 EXCEPT ![ccc[f]] = @ + 1]
  /\ IF recv0[ccc[f]] + 1 > ZeroReads
     THEN Delete(f)
     ELSE UNCHANGED <<net, ccc, deleted>>
  /\ todo' = [todo EXCEPT ![f] = @ \ {"in"}]
  /\ UNCHANGED <<rdBuf, accepteds, readable, pc, batch, fresh, workers, stopped>>

(* recv = -1; EAGAIN or another error *)
ReadFails(f) ==
  /\ Readable(f) /\ inbox[kernel[f]] = <<>> /\ peer[kernel[f]] # "closed"
  /\ IF peer[kernel[f]] = "broken"
     THEN Delete(f)
     ELSE UNCHANGED <<net, ccc, deleted>>
  /\ todo' = [todo EXCEPT ![f] = {}]
  /\ UNCHANGED <<bufs, accepteds, readable, pc, batch, fresh, workers, stopped>>

(* POLLERR, POLLHUP and POLLNVAL *)
HandleError(f) ==
  /\ Handling(f, "err") /\ "in" \notin todo[f]
  /\ IF ccc[f] # Nobody
     THEN Delete(f)
     ELSE UNCHANGED <<net, ccc, deleted>>
  /\ todo' = [todo EXCEPT ![f] = {}]
  /\ UNCHANGED <<bufs, accepteds, readable, pc, batch, fresh, workers, stopped>>

EndRound ==
  /\ pc = "handle" /\ fresh = Nobody /\ \A f \in Fds : todo[f] = {}
  /\ pc' = "loop"
  /\ UNCHANGED <<net, bufs, accepteds, readable, ccc, batch, todo, fresh, deleted, workers, stopped>>
-----------------------------------------------------------------------------
(* A handler. *)

TakeReadable(h) ==
  /\ serving[h] = Nobody /\ readable # <<>>
  /\ serving' = [serving EXCEPT ![h] = Head(readable)]
  /\ readable' = Tail(readable)
  /\ UNCHANGED <<net, bufs, accepteds, selector, running, stopped>>

EndsLine(s, i) == rdBuf[s][i].ch = "eol"

HasLine(s) == \E i \in 1..Len(rdBuf[s]) : EndsLine(s, i)

(* The place of the first end of line, 0 when there is none. *)
LineEnd(s) ==
  IF HasLine(s)
  THEN CHOOSE i \in 1..Len(rdBuf[s]) :
         EndsLine(s, i) /\ \A j \in 1..(i - 1) : ~EndsLine(s, j)
  ELSE 0

(* extract_command under the lock of the socket *)
ExtractCommand(h) ==
  LET s == serving[h] IN
  /\ s # Nobody /\ h \notin running
  /\ LineEnd(s) > 1
  /\ rdBuf' = [rdBuf EXCEPT ![s] = SubSeq(@, LineEnd(s) + 1, Len(@))]
  /\ running' = running \cup {h}
  /\ UNCHANGED <<net, recv0, accepteds, readable, selector, serving, stopped>>

CommandReturns(h) ==
  /\ h \in running
  /\ running' = running \ {h}
  /\ UNCHANGED <<net, bufs, accepteds, readable, selector, serving, stopped>>

(* The exception leaves process_buffer. *)
CommandThrows(h) ==
  /\ h \in running
  /\ running' = running \ {h}
  /\ serving' = [serving EXCEPT ![h] = Nobody]
  /\ stopped' = stopped \cup {serving[h]}
  /\ UNCHANGED <<net, bufs, accepteds, readable, selector>>

(* No line, or an empty one, which is taken as none: the loop ends. *)
NoCommand(h) ==
  LET s == serving[h] IN
  /\ s # Nobody /\ h \notin running
  /\ LineEnd(s) <= 1
  /\ rdBuf' = [rdBuf EXCEPT ![s] = SubSeq(@, LineEnd(s) + 1, Len(@))]
  /\ stopped' = IF HasLine(s) THEN stopped \cup {s} ELSE stopped
  /\ serving' = [serving EXCEPT ![h] = Nobody]
  /\ UNCHANGED <<net, recv0, accepteds, readable, selector, running>>
-----------------------------------------------------------------------------
SelectorRuns ==
  \/ TakeAccepted \/ Insert \/ CleanUp \/ SkipCleanUp \/ Poll
  \/ QueueReadable \/ EndRound
  \/ \E f \in Fds :
       ReadStale(f) \/ ReadData(f) \/ ReadEnd(f) \/ ReadFails(f) \/ HandleError(f)

HandlerRuns(h) ==
  \/ TakeReadable(h) \/ ExtractCommand(h) \/ NoCommand(h)
  \/ CommandReturns(h) \/ CommandThrows(h)

Next ==
  \/ \E s \in Socks :
       \/ \E f \in Fds : Accept(s, f)
       \/ Enqueue(s) \/ Disconnect(s)
       \/ \E ch \in {"text", "eol"} : Send(s, ch)
       \/ \E how \in {"closed", "broken"} : Leave(s, how)
  \/ SelectorRuns
  \/ \E h \in Handlers : HandlerRuns(h)

Spec == Init /\ [][Next]_vars

(* The loops of the threads end only with the server, process_command      *)
(* returns, and rand() comes to the cleaning again and again.              *)
FairSpec ==
  /\ Spec
  /\ WF_vars(SelectorRuns) /\ SF_vars(CleanUp)
  /\ \A h \in Handlers : WF_vars(HandlerRuns(h))
  /\ \A s \in Socks : WF_vars(Enqueue(s))
-----------------------------------------------------------------------------
TypeOK ==
  /\ kernel \in [Fds -> Socks \cup {Nobody}]
  /\ stage \in [Socks -> {"new", "accepted", "queued"}]
  /\ sock \in [Socks -> Slots]
  /\ peer \in [Socks -> {"talks", "closed", "broken"}]
  /\ sent \in [Socks -> Nat]
  /\ inbox \in [Socks -> Seq(Char)] /\ rdBuf \in [Socks -> Seq(Char)]
  /\ recv0 \in [Socks -> 0..(ZeroReads + 1)]
  /\ accepteds \in Seq(Socks) /\ readable \in Seq(Socks) /\ batch \in Seq(Socks)
  /\ ccc \in [Slots -> Socks \cup {Nobody}]
  /\ pc \in {"loop", "insert", "poll", "handle"}
  /\ todo \in [Fds -> SUBSET Events]
  /\ fresh \in Socks \cup {Nobody}
  /\ serving \in [Handlers -> Socks \cup {Nobody}]
  /\ running \subseteq Handlers
  /\ deleted \in [Socks -> Nat]
  /\ stopped \subseteq Socks

In(s, q) == \E i \in 1..Len(q) : q[i] = s

(* A line that has been read has somebody who will come to it, for as long *)
(* as handlers leave process_buffer only where they find no line.          *)
NoLineForgotten ==
  \A s \in Socks :
    HasLine(s) /\ s \notin stopped
      => In(s, readable) \/ fresh = s \/ \E h \in Handlers : serving[h] = s

(* What is read from a descriptor is the client's whose socket it is.      *)
OwnBytesOnly ==
  \A s \in Socks : \A i \in 1..Len(rdBuf[s]) : rdBuf[s][i].from = s

(* on_delete, which ends the session, is called at most once.              *)
DeletedOnce == \A s \in Socks : deleted[s] <= 1

(* The selector knows an accepted socket, or has been told of it, for as   *)
(* long as it is open: process_tcp is "called on accept connection to read *)
(* and process it" (tcp_dialog_server.cpp:336).                            *)
AcceptedIsRead ==
  \A s \in Socks :
    stage[s] = "queued" /\ sock[s] # NoFd
      => In(s, accepteds) \/ In(s, batch) \/ ccc[sock[s]] = s

(* The lines of a connection the selector knows are processed, as long as  *)
(* it stays open and no handler gives it up.                               *)
LinesProcessed ==
  \A s \in Socks :
    (ccc[sock[s]] = s /\ sock[s] # NoFd) ~>
      \/ sock[s] = NoFd \/ s \in stopped
      \/ inbox[s] = <<>> /\ ~HasLine(s)

(* A closed socket does not stay in the map of the selector.               *)
DeadForgotten ==
  \A f \in Fds : Stale(f) ~> ~Stale(f)
==============================================================================
