------------------------------ MODULE TcpSender ------------------------------
(***************************************************************************)
(* The thread that writes all sockets (core-web/tcp_sender.cpp), the       *)
(* threads that hand it data, and the life of the descriptors.             *)
(*                                                                         *)
(* Any thread appends to the send_buf of a c_socket and then pushes an     *)
(* ADD_DATA event.  The sender keeps in ccc the sockets it has to write,   *)
(* by descriptor, polls them and sends what the kernel takes.  The kernel  *)
(* gives a closed descriptor to the next connection, so an entry of ccc    *)
(* may outlive its connection; a REMOVE_SOCK event, pushed when a          *)
(* connection is made, clears the entry of the previous owner.             *)
(***************************************************************************)
EXTENDS Integers, Sequences

CONSTANTS
  Sockets,    \* the c_sockets, each with the connection it is made for
  Dialed,     \* those made by oscar_client::client_connect, not by accept
  Fds,        \* the kernel's descriptors
  NoFd,       \* -1, the m__sock of a closed socket
  Nobody,     \* no socket
  Writers,    \* the threads that call write_sender_data
  MaxWrites   \* bound: the writes to one socket

ASSUME SenderAssumption ==
  /\ NoFd \notin Fds
  /\ Nobody \notin Sockets
  /\ Dialed \subseteq Sockets
  /\ MaxWrites \in Nat

VARIABLES
  kernel,    \* the connection a descriptor stands for, by its socket
  stage,     \* how far the thread that makes a socket has come
  given,     \* the descriptor that thread got (ns, __sock)
  sock,      \* c_socket::m__sock
  sendBuf,   \* c_socket::send_buf
  written,   \* history: how many pieces were written to a socket
  received,  \* what the kernel took for the peer of a connection
  call,      \* the socket a writer appended to and has not announced yet
  events,    \* sender2::events
  batch,     \* the deque extract_all returned
  ccc,       \* sender_proc's map from descriptors to sockets
  pc,        \* where sender_proc is
  todo       \* the results of poll that are still to be looked at

conns  == <<kernel, stage, given, sock>>
data   == <<sendBuf, written, received>>
sender == <<batch, ccc, pc, todo>>
vars   == <<conns, data, call, events, sender>>

Slots == Fds \cup {NoFd}
Event == [op : {"add"}, sock : Sockets] \cup [op : {"remove"}, fd : Fds]

Add(s)    == [op |-> "add", sock |-> s]
Remove(f) == [op |-> "remove", fd |-> f]

(* The object of a socket made by accept exists when its descriptor has    *)
(* been announced; a dialed one is in use before (oscar_client.cpp:325).   *)
Exists(s) ==
  \/ stage[s] = "live"
  \/ s \in Dialed /\ stage[s] = "half"

Unannounced(s) ==
  \/ stage[s] = "taken"
  \/ s \in Dialed /\ stage[s] = "half"

Init ==
  /\ kernel = [f \in Fds |-> Nobody]
  /\ stage = [s \in Sockets |-> "new"]
  /\ given = [s \in Sockets |-> NoFd]
  /\ sock = [s \in Sockets |-> NoFd]
  /\ sendBuf = [s \in Sockets |-> <<>>]
  /\ written = [s \in Sockets |-> 0]
  /\ received = [s \in Sockets |-> <<>>]
  /\ call = [w \in Writers |-> Nobody]
  /\ events = <<>> /\ batch = <<>>
  /\ ccc = [f \in Slots |-> Nobody]
  /\ pc = "loop" /\ todo = {}
-----------------------------------------------------------------------------
(* Making, writing and closing sockets: any thread but the sender.         *)

(* accept, or socket and connect: the kernel picks a free descriptor. *)
TakeFd(s, f) ==
  /\ stage[s] = "new" /\ kernel[f] = Nobody
  /\ kernel' = [kernel EXCEPT ![f] = s]
  /\ given' = [given EXCEPT ![s] = f]
  /\ stage' = [stage EXCEPT ![s] = "taken"]
  /\ UNCHANGED <<sock, data, call, events, sender>>

(* Faulty: only sockets made by client_connect are announced. *)
AnnounceDialed(s) ==
  /\ Unannounced(s)
  /\ stage[s] = IF s \in Dialed THEN "half" ELSE "taken"
  /\ events' = IF s \in Dialed THEN Append(events, Remove(given[s])) ELSE events
  /\ stage' = [stage EXCEPT ![s] = IF s \in Dialed THEN "live" ELSE "half"]
  /\ UNCHANGED <<kernel, given, sock, data, call, sender>>

(* on_socket_create *)
Announce(s) ==
  /\ Unannounced(s)
  /\ stage[s] = IF s \in Dialed THEN "half" ELSE "taken"
  /\ events' = Append(events, Remove(given[s]))
  /\ stage' = [stage EXCEPT ![s] = IF s \in Dialed THEN "live" ELSE "half"]
  /\ UNCHANGED <<kernel, given, sock, data, call, sender>>

(* new c_socket *)
MakeObject(s) ==
  /\ stage[s] = IF s \in Dialed THEN "taken" ELSE "half"
  /\ sock' = [sock EXCEPT ![s] = given[s]]
  /\ stage' = [stage EXCEPT ![s] = IF s \in Dialed THEN "half" ELSE "live"]
  /\ UNCHANGED <<kernel, given, data, call, events, sender>>

(* sender2::write_data appends under the lock of the socket, closed or not, *)
WriteAppends(w, s) ==
  /\ call[w] = Nobody /\ Exists(s) /\ written[s] < MaxWrites
  /\ written' = [written EXCEPT ![s] = @ + 1]
  /\ sendBuf' = [sendBuf EXCEPT ![s] = Append(@, <<s, written[s] + 1>>)]
  /\ call' = [call EXCEPT ![w] = s]
  /\ UNCHANGED <<conns, received, events, sender>>

(* and pushes the event afterwards. *)
WritePushes(w) ==
  /\ call[w] # Nobody
  /\ events' = Append(events, Add(call[w]))
  /\ call' = [call EXCEPT ![w] = Nobody]
  /\ UNCHANGED <<conns, data, sender>>

(* c_socket::disconnect__sk, on a set of sockets. *)
Close(S) ==
  /\ sock' = [s \in Sockets |-> IF s \in S THEN NoFd ELSE sock[s]]
  /\ kernel' = [f \in Fds |->
                  IF \E s \in S : sock[s] = f THEN Nobody ELSE kernel[f]]
  /\ UNCHANGED <<stage, given>>

(* disconnect, from a reader that saw the end, a kick, a second login... *)
Disconnect(s) ==
  /\ sock[s] # NoFd
  /\ Close({s})
  /\ UNCHANGED <<data, call, events, sender>>
-----------------------------------------------------------------------------
(* The sender thread. *)

Stale(f) == ccc[f] # Nobody /\ (f = NoFd \/ sock[ccc[f]] # f)

(* cleanup_sockets, one round in ten thousand. *)
CleanUp ==
  /\ pc = "loop" /\ \E f \in Slots : Stale(f)
  /\ Close({ccc[f] : f \in {g \in Slots : Stale(g)}})
  /\ ccc' = [f \in Slots |-> IF Stale(f) THEN Nobody ELSE ccc[f]]
  /\ UNCHANGED <<data, call, events, batch, pc, todo>>

ExtractEvents ==
  /\ pc = "loop"
  /\ batch' = events /\ events' = <<>>
  /\ pc' = "batch"
  /\ UNCHANGED <<conns, data, call, ccc, todo>>

(* ADD_DATA: map::insert leaves an entry that is there. *)
HandleAdd ==
  /\ pc = "batch" /\ batch # <<>> /\ Head(batch).op = "add"
  /\ LET s == Head(batch).sock
         f == sock[s]
     IN  ccc' = [ccc EXCEPT ![f] = IF @ = Nobody THEN s ELSE @]
  /\ batch' = Tail(batch)
  /\ UNCHANGED <<conns, data, call, events, pc, todo>>

HandleRemove ==
  /\ pc = "batch" /\ batch # <<>> /\ Head(batch).op = "remove"
  /\ ccc' = [ccc EXCEPT ![Head(batch).fd] = Nobody]
  /\ batch' = Tail(batch)
  /\ UNCHANGED <<conns, data, call, events, pc, todo>>

Watched == {f \in Slots : ccc[f] # Nobody}

(* What poll may say of a descriptor: it ignores -1, calls a closed one    *)
(* invalid, and the peer of an open one may read, not read, or be gone.    *)
KernelSays(f) ==
  IF f = NoFd THEN {"none"}
  ELSE IF kernel[f] = Nobody THEN {"err"}
  ELSE {"none", "out", "err"}

(* The kernel's answers for the watched descriptors. *)
Answers == {r \in [Watched -> {"none", "out", "err"}] :
              \A f \in Watched : r[f] \in KernelSays(f)}

(* do_poll_and_send up to its loop; one round in a hundred (full) tries    *)
(* every socket if poll has found one.                                     *)
Poll(r, full) ==
  /\ pc = "batch" /\ batch = <<>>
  /\ LET found == {f \in Watched : r[f] # "none"} IN
       /\ todo' = IF found = {} THEN {}
                  ELSE {<<f, r[f]>> : f \in found}
                         \cup {<<f, "out">> : f \in IF full THEN Watched \ found
                                                    ELSE {}}
       /\ pc' = IF found = {} THEN "loop" ELSE "send"
  /\ UNCHANGED <<conns, data, call, events, batch, ccc>>

Drop(f) == ccc' = [ccc EXCEPT ![f] = Nobody]

(* POLLERR, POLLHUP, POLLNVAL *)
HandleError(f) ==
  /\ pc = "send" /\ <<f, "err">> \in todo
  /\ todo' = todo \ {<<f, "err">>}
  /\ Close({ccc[f]} \ {Nobody})
  /\ Drop(f)
  /\ UNCHANGED <<data, call, events, batch, pc>>

(* send_to_socket gives up a socket that no longer has the descriptor. *)
HasMoved(f) ==
  /\ pc = "send" /\ <<f, "out">> \in todo
  /\ ccc[f] # Nobody /\ sock[ccc[f]] # f
  /\ todo' = todo \ {<<f, "out">>}
  /\ Drop(f)
  /\ UNCHANGED <<conns, data, call, events, batch, pc>>

(* Faulty: the descriptor is not compared before the send. *)
SendsUnchecked(f) ==
  /\ pc = "send" /\ <<f, "out">> \in todo
  /\ ccc[f] # Nobody
  /\ todo' = todo \ {<<f, "out">>}
  /\ UNCHANGED <<call, events, batch, pc>>

(* The descriptor is still the socket's: send is called with its buffer. *)
Sends(f) ==
  /\ pc = "send" /\ <<f, "out">> \in todo
  /\ ccc[f] # Nobody /\ sock[ccc[f]] = f
  /\ todo' = todo \ {<<f, "out">>}
  /\ UNCHANGED <<call, events, batch, pc>>

(* send takes k pieces; the entry goes when nothing is left. *)
SendTakes(f, k) ==
  /\ f \in Fds
  /\ Sends(f)
  /\ LET s   == ccc[f]
         buf == sendBuf[s]
     IN  /\ k \in 0..Len(buf) /\ (k = 0 => buf = <<>>)
         /\ received' = [received EXCEPT ![kernel[f]] = @ \o SubSeq(buf, 1, k)]
         /\ sendBuf' = [sendBuf EXCEPT ![s] = SubSeq(buf, k + 1, Len(buf))]
         /\ IF k = Len(buf) THEN Drop(f) ELSE UNCHANGED ccc
  /\ UNCHANGED <<conns, written>>

(* Faulty: the socket is forgotten when the kernel takes nothing. *)
SendBlocksForgets(f) ==
  /\ f \in Fds
  /\ Sends(f)
  /\ Drop(f)
  /\ UNCHANGED <<conns, data>>

(* EAGAIN *)
SendBlocks(f) ==
  /\ f \in Fds
  /\ Sends(f)
  /\ UNCHANGED <<conns, data, ccc>>

(* Any other error; send on -1 always fails. *)
SendFails(f) ==
  /\ Sends(f)
  /\ Close({ccc[f]})
  /\ Drop(f)
  /\ UNCHANGED data

EndRound ==
  /\ pc = "send" /\ todo = {}
  /\ pc' = "loop"
  /\ UNCHANGED <<conns, data, call, events, batch, ccc, todo>>
-----------------------------------------------------------------------------
SenderStep ==
  \/ ExtractEvents \/ HandleAdd \/ HandleRemove \/ EndRound
  \/ \E r \in Answers, full \in BOOLEAN : Poll(r, full)
  \/ \E f \in Slots :
       \/ HandleError(f) \/ HasMoved(f)
       \/ SendBlocks(f) \/ SendFails(f)
       \/ \E k \in 0..MaxWrites : SendTakes(f, k)

OthersStep ==
  \/ \E s \in Sockets :
       \/ \E f \in Fds : TakeFd(s, f)
       \/ Announce(s) \/ MakeObject(s) \/ Disconnect(s)
       \/ \E w \in Writers : WriteAppends(w, s)
  \/ \E w \in Writers : WritePushes(w)

Next == SenderStep \/ CleanUp \/ OthersStep

Spec == Init /\ [][Next]_vars

(* The socket is polled and found writable; the kernel takes data of it. *)
FoundWritable(s) ==
  \E r \in Answers, full \in BOOLEAN :
    /\ \E f \in Watched : ccc[f] = s /\ sock[s] = f /\ r[f] = "out"
    /\ Poll(r, full)
TakesData(s) ==
  \E f \in Fds, k \in 1..MaxWrites : ccc[f] = s /\ SendTakes(f, k)

(* sender_proc is while(1), its calls do not block, and write_data pushes  *)
(* right after it has appended.  A peer that keeps reading is found        *)
(* writable, and its data taken, again and again.                          *)
FairSpec ==
  /\ Spec
  /\ WF_vars(SenderStep)
  /\ \A w \in Writers : WF_vars(WritePushes(w))
  /\ \A s \in Sockets : SF_vars(FoundWritable(s)) /\ SF_vars(TakesData(s))
-----------------------------------------------------------------------------
TypeOK ==
  /\ kernel \in [Fds -> Sockets \cup {Nobody}]
  /\ stage \in [Sockets -> {"new", "taken", "half", "live"}]
  /\ given \in [Sockets -> Slots]
  /\ \A s \in Sockets : stage[s] # "new" => given[s] \in Fds
  /\ sock \in [Sockets -> Slots]
  /\ sendBuf \in [Sockets -> Seq(Sockets \X Nat)]
  /\ written \in [Sockets -> Nat]
  /\ received \in [Sockets -> Seq(Sockets \X Nat)]
  /\ call \in [Writers -> Sockets \cup {Nobody}]
  /\ events \in Seq(Event)
  /\ batch \in Seq(Event)
  /\ ccc \in [Slots -> Sockets \cup {Nobody}]
  /\ pc \in {"loop", "batch", "send"}
  /\ todo \subseteq Slots \X {"out", "err"}

Pipes == INSTANCE BytePipes
  WITH up <- {s \in Sockets : sock[s] # NoFd}, pending <- sendBuf

(* The sender implements a pipe per connection: nothing written to one     *)
(* socket reaches another's peer, is sent twice or out of order, although  *)
(* descriptors are reused while ccc and the results of poll name them.     *)
ImplementsPipes == Pipes!Spec

Pending == batch \o events

(* There is something that will make the sender look at the socket: an     *)
(* entry of ccc, an event, or a writer about to push one.                  *)
Awaited(s) ==
  \/ ccc[sock[s]] = s
  \/ \E i \in 1..Len(Pending) : Pending[i] = Add(s)
  \/ \E w \in Writers : call[w] = s

(* No data is stuck: an open socket with unsent data will be looked at.    *)
(* The entries of previous owners of the descriptor, which make            *)
(* map::insert do nothing, are removed in time.                            *)
NoStuckData ==
  \A s \in Sockets : sock[s] # NoFd /\ sendBuf[s] # <<>> => Awaited(s)

(* Why the sender implements pipes. *)
DescriptorsAgree ==
  /\ \A s \in Sockets : sock[s] # NoFd => kernel[sock[s]] = s
  /\ \A s \in Sockets : stage[s] # "new" /\ ~Exists(s) => kernel[given[s]] = s
  /\ \A f \in Fds : kernel[f] # Nobody =>
       stage[kernel[f]] # "new" /\ given[kernel[f]] = f

UsedExist ==
  /\ \A s \in Sockets : ~Exists(s) => sock[s] = NoFd /\ sendBuf[s] = <<>>
  /\ \A w \in Writers : call[w] # Nobody => Exists(call[w])
  /\ \A f \in Slots : ccc[f] # Nobody => Exists(ccc[f])
  /\ \A i \in 1..Len(Pending) : Pending[i].op = "add" => Exists(Pending[i].sock)

EntriesAgree == \A f \in Slots : ccc[f] # Nobody => sock[ccc[f]] \in {f, NoFd}

Counted ==
  \A s \in Sockets : written[s] = Len(received[s]) + Len(sendBuf[s])

BatchDone == pc # "batch" => batch = <<>>

(* Why no data is stuck: a REMOVE_SOCK comes before any ADD_DATA of the    *)
(* socket it makes room for, and is there when there is something to clear.*)
RemovalsFirst ==
  /\ \A i, j \in 1..Len(Pending), s \in Sockets, f \in Fds :
       i < j /\ Pending[i] = Add(s) /\ Pending[j] = Remove(f) => sock[s] # f
  /\ \A f \in Fds, i \in 1..Len(Pending) :
       Pending[i] = Remove(f) /\ ccc[f] # Nobody => sock[ccc[f]] # f
  /\ \A f \in Fds :
       ccc[f] # Nobody /\ kernel[f] \notin {Nobody, ccc[f]}
       /\ stage[kernel[f]] # "taken"
         => \E i \in 1..Len(Pending) : Pending[i] = Remove(f)

(* What is written to a connection is sent, unless it closes. *)
DataIsSent ==
  \A s \in Sockets :
    (sock[s] # NoFd /\ sendBuf[s] # <<>>)
      ~> (sock[s] = NoFd \/ sendBuf[s] = <<>>)
==============================================================================
