----------------------------- MODULE Tcp_proofs -----------------------------
(***************************************************************************)
(* What holds of TcpSender for every set of sockets, descriptors and       *)
(* writers and every number of writes; and then of TcpServer for every set *)
(* of connections, listeners and handlers and every limit.                 *)
(***************************************************************************)
EXTENDS TcpSender, TcpServer, SequenceTheorems, FiniteSetTheorems, TLAPS

(* The parts of a buffer that send took and that it left. *)
LEMMA BufferSplit ==
  ASSUME NEW S, NEW buf \in Seq(S), NEW k \in 0..Len(buf)
  PROVE  /\ SubSeq(buf, 1, k) \in Seq(S) /\ Len(SubSeq(buf, 1, k)) = k
         /\ SubSeq(buf, k + 1, Len(buf)) \in Seq(S)
         /\ Len(SubSeq(buf, k + 1, Len(buf))) = Len(buf) - k
<1>1. \A i \in 1..Len(buf) : buf[i] \in S
  BY ElementOfSeq
<1>2. SubSeq(buf, 1, k) \in Seq(S) /\ Len(SubSeq(buf, 1, k)) = k
  <2>1. CASE k = 0
    BY <2>1, SubSeqProperties, EmptySeq
  <2>2. CASE k # 0
    BY <1>1, <2>2, SubSeqProperties
  <2> QED
    BY <2>1, <2>2
<1>3. /\ SubSeq(buf, k + 1, Len(buf)) \in Seq(S)
      /\ Len(SubSeq(buf, k + 1, Len(buf))) = Len(buf) - k
  <2>1. CASE k = Len(buf)
    BY <2>1, SubSeqProperties, EmptySeq, LenProperties
  <2>2. CASE k # Len(buf)
    BY <1>1, <2>2, SubSeqProperties, LenProperties
  <2> QED
    BY <2>1, <2>2
<1> QED
  BY <1>2, <1>3

(* What send took and what it left are the buffer. *)
LEMMA TransferLengths ==
  ASSUME NEW S, NEW r \in Seq(S), NEW buf \in Seq(S), NEW k \in 0..Len(buf)
  PROVE  Len(r \o SubSeq(buf, 1, k)) + Len(SubSeq(buf, k + 1, Len(buf)))
           = Len(r) + Len(buf)
<1> DEFINE part == SubSeq(buf, 1, k)
           rest == SubSeq(buf, k + 1, Len(buf))
<1>1. part \in Seq(S) /\ Len(part) = k /\ Len(rest) = Len(buf) - k
  BY BufferSplit
<1>2. Len(r) \in Nat /\ Len(buf) \in Nat
  BY LenProperties
<1> HIDE DEF part, rest
<1>3. Len(r \o part) = Len(r) + k
  BY <1>1, ConcatProperties
<1>4. Len(r \o part) + Len(rest) = Len(r) + Len(buf)
  BY <1>1, <1>2, <1>3
<1> QED
  BY <1>4 DEF part, rest

(* disconnect__sk keeps the types. *)
LEMMA CloseTypes ==
  ASSUME TypeOK, SenderAssumption, NEW S, Close(S)
  PROVE  /\ kernel' \in [Fds -> Sockets \cup {Nobody}]
         /\ sock' \in [Sockets -> Slots]
         /\ stage' = stage /\ given' = given
  BY DEF TypeOK, Close, Slots

(* The head of a batch is an event. *)
LEMMA BatchHead ==
  ASSUME TypeOK, batch # <<>>
  PROVE  /\ Head(batch) \in Event /\ Tail(batch) \in Seq(Event)
         /\ Head(batch).op = "add" => Head(batch).sock \in Sockets
         /\ Head(batch).op = "remove" => Head(batch).fd \in Fds
<1>1. Head(batch) \in Event /\ Tail(batch) \in Seq(Event)
  BY HeadTailProperties DEF TypeOK
<1> QED
  BY <1>1 DEF Event

(* Type correctness of the sender and of what it shares.                   *)
LEMMA TypeInductive ==
  ASSUME SenderAssumption, TypeOK, [Next]_vars PROVE TypeOK'
<1> USE SenderAssumption
<1>1. ASSUME NEW s \in Sockets, NEW f \in Fds, TakeFd(s, f) PROVE TypeOK'
  BY <1>1 DEF TakeFd, TypeOK, Slots, data, sender
<1>2. ASSUME NEW s \in Sockets, Announce(s) PROVE TypeOK'
  <2>1. Remove(given[s]) \in Event
    BY <1>2 DEF Announce, Unannounced, TypeOK, Remove, Event
  <2>2. events' \in Seq(Event)
    BY <1>2, <2>1, AppendProperties DEF Announce, TypeOK
  <2> QED
    BY <1>2, <2>2 DEF Announce, Unannounced, TypeOK, data, sender
<1>3. ASSUME NEW s \in Sockets, MakeObject(s) PROVE TypeOK'
  BY <1>3 DEF MakeObject, TypeOK, data, sender
<1>4. ASSUME NEW w \in Writers, NEW s \in Sockets, WriteAppends(w, s) PROVE TypeOK'
  <2>1. Append(sendBuf[s], <<s, written[s] + 1>>) \in Seq(Sockets \X Nat)
    BY AppendProperties DEF TypeOK
  <2> QED
    BY <1>4, <2>1 DEF WriteAppends, TypeOK, conns, sender
<1>5. ASSUME NEW w \in Writers, WritePushes(w) PROVE TypeOK'
  <2>1. Add(call[w]) \in Event
    BY <1>5 DEF WritePushes, TypeOK, Add, Event
  <2>2. events' \in Seq(Event)
    BY <1>5, <2>1, AppendProperties DEF WritePushes, TypeOK
  <2> QED
    BY <1>5, <2>2 DEF WritePushes, TypeOK, conns, data, sender
<1>6. ASSUME NEW s \in Sockets, Disconnect(s) PROVE TypeOK'
  BY <1>6, CloseTypes DEF Disconnect, TypeOK, data, sender
<1>7. CASE CleanUp
  BY <1>7, CloseTypes DEF CleanUp, TypeOK, data
<1>8. CASE ExtractEvents
  BY <1>8, EmptySeq DEF ExtractEvents, TypeOK, conns, data
<1>9. CASE HandleAdd
  <2>1. Head(batch).sock \in Sockets /\ Tail(batch) \in Seq(Event)
    BY <1>9, BatchHead DEF HandleAdd
  <2> QED
    BY <1>9, <2>1 DEF HandleAdd, TypeOK, conns, data
<1>10. CASE HandleRemove
  <2>1. Head(batch).fd \in Fds /\ Tail(batch) \in Seq(Event)
    BY <1>10, BatchHead DEF HandleRemove
  <2> QED
    BY <1>10, <2>1 DEF HandleRemove, TypeOK, conns, data
<1>11. ASSUME NEW r \in Answers, NEW full \in BOOLEAN, Poll(r, full) PROVE TypeOK'
  <2>1. \A f \in Watched : f \in Slots /\ (r[f] # "none" => r[f] \in {"out", "err"})
    BY DEF Answers, Watched
  <2>2. todo' \subseteq Slots \X {"out", "err"}
    BY <1>11, <2>1 DEF Poll, Watched
  <2> QED
    BY <1>11, <2>2 DEF Poll, TypeOK, conns, data
<1>12. ASSUME NEW f \in Slots, HandleError(f) PROVE TypeOK'
  BY <1>12, CloseTypes DEF HandleError, Drop, TypeOK, data
<1>13. ASSUME NEW f \in Slots, HasMoved(f) PROVE TypeOK'
  BY <1>13 DEF HasMoved, Drop, TypeOK, conns, data
<1>15. ASSUME NEW f \in Slots, SendBlocks(f) PROVE TypeOK'
  BY <1>15 DEF SendBlocks, Sends, TypeOK, conns, data
<1>16. ASSUME NEW f \in Slots, SendFails(f) PROVE TypeOK'
  BY <1>16, CloseTypes DEF SendFails, Sends, Drop, TypeOK, data
<1>17. ASSUME NEW f \in Slots, NEW k \in 0..MaxWrites, SendTakes(f, k) PROVE TypeOK'
  <2> DEFINE s == ccc[f]
             buf == sendBuf[s]
             part == SubSeq(buf, 1, k)
             rest == SubSeq(buf, k + 1, Len(buf))
  <2>1. s \in Sockets /\ buf \in Seq(Sockets \X Nat) /\ k \in 0..Len(buf)
    BY <1>17 DEF SendTakes, Sends, TypeOK
  <2>2. part \in Seq(Sockets \X Nat) /\ rest \in Seq(Sockets \X Nat)
    BY <2>1, BufferSplit
  <2>3. /\ received' = [received EXCEPT ![kernel[f]] = @ \o part]
        /\ sendBuf' = [sendBuf EXCEPT ![s] = rest]
        /\ ccc' = ccc \/ ccc' = [ccc EXCEPT ![f] = Nobody]
    BY <1>17 DEF SendTakes, Drop
  <2> HIDE DEF part, rest, buf
  <2>4. \A c \in Sockets : received[c] \o part \in Seq(Sockets \X Nat)
    BY <2>2, ConcatProperties DEF TypeOK
  <2>5. /\ received' \in [Sockets -> Seq(Sockets \X Nat)]
        /\ sendBuf' \in [Sockets -> Seq(Sockets \X Nat)]
    BY <2>1, <2>2, <2>3, <2>4 DEF TypeOK
  <2> QED
    BY <1>17, <2>3, <2>5 DEF SendTakes, Sends, TypeOK, conns
<1>18. CASE EndRound
  BY <1>18 DEF EndRound, TypeOK, conns, data
<1>19. CASE UNCHANGED vars
  BY <1>19 DEF vars, conns, data, sender, TypeOK
<1> QED
  BY <1>1, <1>2, <1>3, <1>4, <1>5, <1>6, <1>7, <1>8, <1>9, <1>10, <1>11, <1>12, <1>13,
     <1>15, <1>16, <1>17, <1>18, <1>19 DEF Next, SenderStep, OthersStep

(* Every variable has its type: descriptors, events and buffers. *)
THEOREM TypeCorrect == Spec => []TypeOK
<1>1. Init => TypeOK
  BY SenderAssumption, EmptySeq DEF Init, TypeOK, Slots
<1>2. TypeOK /\ [Next]_vars => TypeOK'
  BY SenderAssumption, TypeInductive
<1> QED
  BY <1>1, <1>2, PTL DEF Spec
-----------------------------------------------------------------------------
(* What concatenation returns, in the form the proofs below use. *)
LEMMA Joined ==
  ASSUME NEW b \in Seq(Event), NEW q \in Seq(Event)
  PROVE  /\ b \o q \in Seq(Event)
         /\ Len(b \o q) = Len(b) + Len(q)
         /\ Len(b) \in Nat /\ Len(q) \in Nat
         /\ \A i \in 1..Len(b) : (b \o q)[i] = b[i]
         /\ \A i \in 1..Len(q) : (b \o q)[Len(b) + i] = q[i]
         /\ \A i \in 1..Len(b \o q) : (b \o q)[i] \in Event
<1>1. /\ b \o q \in Seq(Event)
      /\ Len(b \o q) = Len(b) + Len(q)
      /\ \A i \in 1..Len(b) + Len(q) :
              (b \o q)[i] = IF i <= Len(b) THEN b[i] ELSE q[i - Len(b)]
  BY ConcatProperties
<1>2. Len(b) \in Nat /\ Len(q) \in Nat
  BY LenProperties
<1>3. \A i \in 1..Len(b) : (b \o q)[i] = b[i]
  BY <1>1, <1>2
<1>4. ASSUME NEW i \in 1..Len(q) PROVE (b \o q)[Len(b) + i] = q[i]
  <2>1. Len(b) + i \in 1..Len(b) + Len(q) /\ ~(Len(b) + i <= Len(b))
    BY <1>2
  <2>2. Len(b) + i - Len(b) = i
    BY <1>2
  <2> QED
    BY <1>1, <2>1, <2>2
<1>5. \A i \in 1..Len(b \o q) : (b \o q)[i] \in Event
  BY <1>1, ElementOfSeq
<1> QED
  BY <1>1, <1>2, <1>3, <1>4, <1>5

(* The events that are still to be handled: a new one comes last, the head *)
(* of the batch is the first.                                              *)
LEMMA PendingAppend ==
  ASSUME NEW b \in Seq(Event), NEW q \in Seq(Event), NEW e \in Event
  PROVE  /\ Len(b \o Append(q, e)) = Len(b \o q) + 1
         /\ \A i \in 1..Len(b \o q) : (b \o Append(q, e))[i] = (b \o q)[i]
         /\ (b \o Append(q, e))[Len(b \o q) + 1] = e
<1> DEFINE p == b \o q
<1>1. /\ p \in Seq(Event) /\ <<e>> \in Seq(Event)
      /\ b \o Append(q, e) = Append(p, e)
  BY AppendIsConcat, ConcatAssociative, Joined
<1> HIDE DEF p
<1>2. /\ Len(Append(p, e)) = Len(p) + 1
      /\ \A i \in 1..Len(p) : Append(p, e)[i] = p[i]
      /\ Append(p, e)[Len(p) + 1] = e
  BY <1>1, AppendProperties
<1> QED
  BY <1>1, <1>2 DEF p

(* What is pending, less its head. *)
LEMMA PendingTail ==
  ASSUME NEW b \in Seq(Event), NEW q \in Seq(Event), b # <<>>
  PROVE  /\ Len(b \o q) \in Nat \ {0} /\ Len(Tail(b) \o q) = Len(b \o q) - 1
         /\ \A i \in 1..Len(Tail(b) \o q) : (Tail(b) \o q)[i] = (b \o q)[i + 1]
         /\ Head(b) = (b \o q)[1]
<1> DEFINE t == Tail(b)
<1>1. /\ Len(b) \in Nat \ {0} /\ Len(t) = Len(b) - 1 /\ t \in Seq(Event)
      /\ \A i \in 1..Len(t) : t[i] = b[i + 1]
      /\ Head(b) = b[1]
  BY HeadTailProperties, EmptySeq
<1> HIDE DEF t
<1>2. Len(t \o q) = Len(b \o q) - 1 /\ Len(b \o q) \in Nat \ {0} /\ Len(q) \in Nat
      /\ Len(t \o q) = Len(t) + Len(q)
  <2>1. Len(t \o q) = Len(t) + Len(q) /\ Len(q) \in Nat
    BY <1>1, Joined
  <2>2. Len(b \o q) = Len(b) + Len(q)
    BY Joined
  <2> QED
    BY <1>1, <2>1, <2>2
<1>3. ASSUME NEW i \in 1..Len(t \o q) PROVE (t \o q)[i] = (b \o q)[i + 1]
  <2>1. CASE i <= Len(t)
    <3>1. (t \o q)[i] = t[i] /\ t[i] = b[i + 1]
      BY <1>1, <1>2, <2>1, Joined
    <3>2. (b \o q)[i + 1] = b[i + 1]
      BY <1>1, <1>2, <2>1, Joined
    <3> QED
      BY <3>1, <3>2
  <2>2. CASE i > Len(t)
    <3> DEFINE j == i - Len(t)
    <3>1. j \in 1..Len(q) /\ i = Len(t) + j /\ i + 1 = Len(b) + j
      BY <1>1, <1>2, <2>2
    <3> HIDE DEF j
    <3>2. (t \o q)[Len(t) + j] = q[j] /\ (b \o q)[Len(b) + j] = q[j]
      BY <1>1, <3>1, Joined
    <3> QED
      BY <3>1, <3>2
  <2> QED
    BY <1>1, <1>2, <2>1, <2>2
<1>4. Head(b) = (b \o q)[1]
  BY <1>1, Joined
<1> QED
  BY <1>2, <1>3, <1>4 DEF t

(* What is pending is a sequence of events. *)
LEMMA PendingType ==
  ASSUME TypeOK
  PROVE  /\ Pending \in Seq(Event) /\ Len(Pending) \in Nat
         /\ \A i \in 1..Len(Pending) : Pending[i] \in Event
<1>1. Pending \in Seq(Event)
  BY Joined DEF TypeOK, Pending
<1> QED
  BY <1>1, LenProperties, ElementOfSeq

(* Extracting the queue moves what is pending. *)
LEMMA PendingExtract ==
  ASSUME TypeOK, batch = <<>>, batch' = events, events' = <<>>
  PROVE  Pending' = Pending
  BY ConcatEmptySeq DEF TypeOK, Pending
-----------------------------------------------------------------------------
(* Which socket a descriptor stands for: the four facts below keep the     *)
(* pipes apart while descriptors are reused.                               *)
PipesInv ==
  /\ TypeOK /\ DescriptorsAgree /\ UsedExist /\ EntriesAgree /\ Counted /\ BatchDone

(* disconnect__sk of sockets that exist frees their own descriptors only.  *)
LEMMA CloseAgrees ==
  ASSUME SenderAssumption, TypeOK, DescriptorsAgree, UsedExist, EntriesAgree,
         NEW S \in SUBSET Sockets, Close(S)
  PROVE  /\ DescriptorsAgree'
         /\ \A s \in Sockets : Exists(s)' <=> Exists(s)
         /\ \A s \in Sockets : sock'[s] = IF s \in S THEN NoFd ELSE sock[s]
<1> USE SenderAssumption
<1>1. /\ stage' = stage /\ given' = given
      /\ \A s \in Sockets : sock'[s] = IF s \in S THEN NoFd ELSE sock[s]
      /\ \A f \in Fds : kernel'[f] = IF \E s \in S : sock[s] = f THEN Nobody
                                     ELSE kernel[f]
  BY DEF Close, TypeOK
<1>2. \A s \in Sockets : Exists(s)' <=> Exists(s)
  BY <1>1 DEF Exists
<1>3. ASSUME NEW s \in Sockets, sock'[s] # NoFd PROVE kernel'[sock'[s]] = s
  <2>1. sock'[s] = sock[s] /\ s \notin S /\ sock[s] \in Fds /\ kernel[sock[s]] = s
    BY <1>1, <1>3 DEF DescriptorsAgree, TypeOK, Slots
  <2>2. ~ \E t \in S : sock[t] = sock[s]
    BY <2>1 DEF DescriptorsAgree
  <2> QED
    BY <1>1, <2>1, <2>2
<1>4. ASSUME NEW s \in Sockets, stage'[s] # "new", ~Exists(s)'
      PROVE  kernel'[given'[s]] = s
  <2>1. ~Exists(s) /\ sock[s] = NoFd /\ given[s] \in Fds /\ kernel[given[s]] = s
    BY <1>1, <1>2, <1>4 DEF UsedExist, DescriptorsAgree, TypeOK
  <2>2. ~ \E t \in S : sock[t] = given[s]
    BY <2>1 DEF DescriptorsAgree
  <2> QED
    BY <1>1, <2>1, <2>2
<1>5. DescriptorsAgree'
  BY <1>1, <1>3, <1>4 DEF DescriptorsAgree
<1> QED
  BY <1>1, <1>2, <1>5

(* An entry that has to go and its socket, in do_poll_and_send.            *)
LEMMA CloseEntry ==
  ASSUME SenderAssumption, PipesInv, NEW f \in Slots, NEW S \in SUBSET Sockets, Close(S),
         ccc' = ccc \/ Drop(f), UNCHANGED <<data, call, events, batch>>
  PROVE  /\ DescriptorsAgree' /\ UsedExist' /\ EntriesAgree' /\ Counted'
<1> USE SenderAssumption DEF PipesInv
<1>1. /\ DescriptorsAgree'
      /\ \A s \in Sockets : Exists(s)' <=> Exists(s)
      /\ \A s \in Sockets : sock'[s] = IF s \in S THEN NoFd ELSE sock[s]
  BY CloseAgrees
<1>2. \A g \in Slots : ccc'[g] \in {ccc[g], Nobody}
  BY DEF Drop, TypeOK
<1>3. Pending' = Pending
  BY DEF Pending
<1>4. UsedExist'
  BY <1>1, <1>2, <1>3, PendingType DEF UsedExist, data, TypeOK, Event
<1>5. EntriesAgree'
  BY <1>1, <1>2 DEF EntriesAgree, TypeOK
<1>6. Counted'
  BY DEF Counted, data
<1> QED
  BY <1>1, <1>4, <1>5, <1>6
(* A step that leaves the sockets alone, adds no entry and no event.       *)
LEMMA QuietStep ==
  ASSUME PipesInv, UNCHANGED <<conns, data, call>>,
         \A f \in Slots : ccc'[f] \in {ccc[f], Nobody},
         \A i \in 1..Len(Pending') :
           \E j \in 1..Len(Pending) : Pending'[i] = Pending[j]
  PROVE  DescriptorsAgree' /\ UsedExist' /\ EntriesAgree' /\ Counted'
<1> USE DEF PipesInv, conns, data
<1>1. \A s \in Sockets : Exists(s)' <=> Exists(s)
  BY DEF Exists
<1>2. DescriptorsAgree' /\ EntriesAgree' /\ Counted'
  BY <1>1 DEF DescriptorsAgree, EntriesAgree, Counted, TypeOK
<1>3. UsedExist'
  <2>1. ASSUME NEW i \in 1..Len(Pending'), Pending'[i].op = "add"
        PROVE  Exists(Pending[i].sock)'
    <3>1. PICK j \in 1..Len(Pending) : Pending'[i] = Pending[j]
      OBVIOUS
    <3>2. Exists(Pending[j].sock) /\ Pending[j].sock \in Sockets
      BY <2>1, <3>1, PendingType DEF UsedExist, Event
    <3> QED
      BY <1>1, <3>1, <3>2
  <2>2. \A w \in Writers : call'[w] # Nobody => Exists(call[w])'
    BY <1>1 DEF UsedExist, TypeOK
  <2>3. \A f \in Slots : ccc'[f] # Nobody => Exists(ccc[f])'
    BY <1>1 DEF UsedExist, TypeOK
  <2> QED
    BY <1>1, <2>1, <2>2, <2>3 DEF UsedExist
<1> QED
  BY <1>2, <1>3

(* The events after a step that leaves them, or that pushes one.           *)
LEMMA PushedEvents ==
  ASSUME TypeOK, NEW e \in Event, events' = Append(events, e), batch' = batch
  PROVE  /\ Len(Pending') = Len(Pending) + 1
         /\ \A i \in 1..Len(Pending) : Pending'[i] = Pending[i]
         /\ Pending'[Len(Pending) + 1] = e
         /\ \A i \in 1..Len(Pending') : i \in 1..Len(Pending) \/ i = Len(Pending) + 1
<1>1. /\ Len(Pending') = Len(Pending) + 1
      /\ \A i \in 1..Len(Pending) : Pending'[i] = Pending[i]
      /\ Pending'[Len(Pending) + 1] = e
  BY PendingAppend DEF TypeOK, Pending
<1> QED
  BY <1>1, PendingType

(* The events after the head of the batch was handled.                     *)
LEMMA HandledEvents ==
  ASSUME TypeOK, batch # <<>>, batch' = Tail(batch), events' = events
  PROVE  /\ Len(Pending') = Len(Pending) - 1 /\ Len(Pending) > 0
         /\ \A i \in 1..Len(Pending') :
              i + 1 \in 1..Len(Pending) /\ Pending'[i] = Pending[i + 1]
         /\ 1 \in 1..Len(Pending) /\ Head(batch) = Pending[1]
<1>1. /\ Len(Pending) \in Nat \ {0} /\ Len(Pending') = Len(Pending) - 1
      /\ \A i \in 1..Len(Pending') : Pending'[i] = Pending[i + 1]
      /\ Head(batch) = Pending[1]
  BY PendingTail DEF TypeOK, Pending
<1> QED
  BY <1>1
-----------------------------------------------------------------------------
(* Every step keeps the invariant of the pipes. *)
LEMMA PipesInductive ==
  ASSUME SenderAssumption, PipesInv, [Next]_vars PROVE PipesInv'
<1> USE SenderAssumption
<1>t. TypeOK /\ TypeOK' /\ DescriptorsAgree /\ UsedExist /\ EntriesAgree
      /\ Counted /\ BatchDone
  BY TypeInductive DEF PipesInv
<1> DEFINE Goal == /\ DescriptorsAgree' /\ UsedExist' /\ EntriesAgree' /\ Counted'
                 /\ BatchDone'
<1>0. ASSUME UNCHANGED <<batch, events>> PROVE Pending' = Pending
  BY <1>0 DEF Pending
<1>00. ASSUME Pending' = Pending
       PROVE  \A i \in 1..Len(Pending') :
                \E j \in 1..Len(Pending) : Pending'[i] = Pending[j]
  BY <1>00
<1>1. ASSUME NEW s \in Sockets, NEW f \in Fds, TakeFd(s, f) PROVE Goal
  <2>1. /\ kernel[f] = Nobody /\ stage[s] = "new" /\ ~Exists(s)
        /\ kernel' = [kernel EXCEPT ![f] = s]
        /\ given' = [given EXCEPT ![s] = f]
        /\ stage' = [stage EXCEPT ![s] = "taken"]
        /\ UNCHANGED <<sock, sendBuf, written, received, call, events, batch, ccc, pc>>
    BY <1>1 DEF TakeFd, data, sender, Exists
  <2>2. \A t \in Sockets : Exists(t)' <=> Exists(t)
    BY <1>t, <2>1 DEF Exists, TypeOK
  <2>3. DescriptorsAgree'
    BY <1>t, <2>1, <2>2 DEF DescriptorsAgree, TypeOK, Slots
  <2>4. UsedExist'
    <3>1. Pending' = Pending
      BY <1>0, <2>1
    <3>2. ASSUME NEW i \in 1..Len(Pending'), Pending'[i].op = "add"
          PROVE  Exists(Pending[i].sock)'
      <4>1. Pending[i].sock \in Sockets /\ Exists(Pending[i].sock)
        BY <1>t, <3>1, <3>2, PendingType DEF UsedExist, Event
      <4>2. \E t \in Sockets : Pending'[i].sock = t /\ Exists(t)'
        BY <2>2, <3>1, <4>1
      <4> QED
        BY <4>2
    <3> QED
      BY <1>t, <2>1, <2>2, <3>1, <3>2 DEF UsedExist, TypeOK
  <2> QED
    BY <1>t, <2>1, <2>3, <2>4 DEF EntriesAgree, Counted, BatchDone
<1>2. ASSUME NEW s \in Sockets, Announce(s) PROVE Goal
  <2>1. /\ stage[s] # "new" /\ given[s] \in Fds
        /\ stage[s] = IF s \in Dialed THEN "half" ELSE "taken"
        /\ stage' = [stage EXCEPT ![s] = IF s \in Dialed THEN "live" ELSE "half"]
        /\ events' = Append(events, Remove(given[s])) /\ batch' = batch
        /\ Remove(given[s]) \in Event /\ Remove(given[s]).op # "add"
        /\ UNCHANGED <<kernel, given, sock, sendBuf, written, received, call, ccc, pc>>
    BY <1>2, <1>t DEF Announce, data, sender, TypeOK, Remove, Event
  <2>2. \A t \in Sockets : Exists(t)' <=> Exists(t)
    BY <1>t, <2>1 DEF Exists, TypeOK
  <2>3. DescriptorsAgree'
    BY <1>t, <2>1, <2>2 DEF DescriptorsAgree, TypeOK
  <2>4. ASSUME NEW i \in 1..Len(Pending'), Pending'[i].op = "add"
        PROVE  Exists(Pending[i].sock)'
    <3>1. i \in 1..Len(Pending) /\ Pending'[i] = Pending[i]
      BY <1>t, <2>1, <2>4, PushedEvents
    <3> QED
      BY <1>t, <2>2, <2>4, <3>1, PendingType DEF UsedExist, Event
  <2>5. UsedExist'
    BY <1>t, <2>1, <2>2, <2>4 DEF UsedExist, TypeOK
  <2> QED
    BY <1>t, <2>1, <2>3, <2>5 DEF EntriesAgree, Counted, BatchDone
<1>3. ASSUME NEW s \in Sockets, MakeObject(s) PROVE Goal
  <2>1. /\ stage[s] = IF s \in Dialed THEN "taken" ELSE "half"
        /\ ~Exists(s) /\ kernel[given[s]] = s /\ given[s] \in Fds
        /\ sock' = [sock EXCEPT ![s] = given[s]]
        /\ stage' = [stage EXCEPT ![s] = IF s \in Dialed THEN "half" ELSE "live"]
        /\ UNCHANGED <<kernel, given, sendBuf, written, received, call>>
        /\ UNCHANGED <<events, batch, ccc, pc>>
    BY <1>3, <1>t DEF MakeObject, data, sender, TypeOK, Exists, DescriptorsAgree
  <2>2. \A t \in Sockets : Exists(t)' <=> (t = s \/ Exists(t))
    BY <1>t, <2>1 DEF Exists, TypeOK
  <2>3. DescriptorsAgree'
    BY <1>t, <2>1, <2>2 DEF DescriptorsAgree, TypeOK
  <2>4. UsedExist'
    BY <1>t, <1>0, <2>1, <2>2, PendingType DEF UsedExist, TypeOK, Event
  <2>5. EntriesAgree'
    BY <1>t, <2>1 DEF EntriesAgree, UsedExist, TypeOK
  <2> QED
    BY <1>t, <2>1, <2>3, <2>4, <2>5 DEF Counted, BatchDone
<1>4. ASSUME NEW w \in Writers, NEW s \in Sockets, WriteAppends(w, s) PROVE Goal
  <2>1. /\ Exists(s) /\ written' = [written EXCEPT ![s] = @ + 1]
        /\ sendBuf' = [sendBuf EXCEPT ![s] = Append(@, <<s, written[s] + 1>>)]
        /\ call' = [call EXCEPT ![w] = s]
        /\ UNCHANGED <<kernel, stage, given, sock, received, events, batch, ccc, pc>>
    BY <1>4 DEF WriteAppends, conns, sender
  <2>2. \A t \in Sockets : Exists(t)' <=> Exists(t)
    BY <2>1 DEF Exists
  <2>3. Len(Append(sendBuf[s], <<s, written[s] + 1>>)) = Len(sendBuf[s]) + 1
    BY <1>t, AppendProperties DEF TypeOK
  <2>4. Counted'
    <3>1. \A t \in Sockets : /\ received[t] \in Seq(Sockets \X Nat)
                             /\ sendBuf[t] \in Seq(Sockets \X Nat)
      BY <1>t DEF TypeOK
    <3>2. \A t \in Sockets : Len(received[t]) \in Nat /\ Len(sendBuf[t]) \in Nat
      BY <3>1, LenProperties
    <3> QED
      BY <1>t, <2>1, <2>3, <3>2 DEF Counted, TypeOK
  <2>5. UsedExist'
    BY <1>t, <1>0, <2>1, <2>2, PendingType DEF UsedExist, TypeOK, Event
  <2> QED
    BY <1>t, <2>1, <2>2, <2>4, <2>5 DEF EntriesAgree, DescriptorsAgree, BatchDone
<1>5. ASSUME NEW w \in Writers, WritePushes(w) PROVE Goal
  <2>1. /\ call[w] \in Sockets /\ Exists(call[w])
        /\ events' = Append(events, Add(call[w])) /\ batch' = batch
        /\ Add(call[w]) \in Event /\ Add(call[w]).sock = call[w]
        /\ call' = [call EXCEPT ![w] = Nobody]
        /\ UNCHANGED <<kernel, stage, given, sock, sendBuf, written, received, ccc, pc>>
    BY <1>5, <1>t DEF WritePushes, conns, data, sender, TypeOK, UsedExist, Add, Event
  <2>2. \A t \in Sockets : Exists(t)' <=> Exists(t)
    BY <2>1 DEF Exists
  <2>4. ASSUME NEW i \in 1..Len(Pending'), Pending'[i].op = "add"
        PROVE  Exists(Pending[i].sock)'
    <3>1. \/ i \in 1..Len(Pending) /\ Pending'[i] = Pending[i]
          \/ Pending'[i] = Add(call[w])
      BY <1>t, <2>1, PushedEvents
    <3> QED
      BY <1>t, <2>1, <2>2, <2>4, <3>1, PendingType DEF UsedExist, Event
  <2>5. UsedExist'
    BY <1>t, <2>1, <2>2, <2>4 DEF UsedExist, TypeOK
  <2> QED
    BY <1>t, <2>1, <2>2, <2>5 DEF EntriesAgree, Counted, DescriptorsAgree, BatchDone
<1>6. ASSUME NEW s \in Sockets, Disconnect(s) PROVE Goal
  <2>1. Close({s}) /\ UNCHANGED <<data, call, events, batch, ccc, pc>>
    BY <1>6 DEF Disconnect, sender
  <2> QED
    BY <1>t, <2>1, CloseEntry DEF Slots, PipesInv, BatchDone
<1>7. ASSUME CleanUp PROVE Goal
  <2> DEFINE S == {ccc[f] : f \in {g \in Slots : Stale(g)}}
  <2>1. S \in SUBSET Sockets
    BY <1>t DEF TypeOK, Stale
  <2>2. /\ Close(S) /\ UNCHANGED <<data, call, events, batch>>
        /\ ccc' = [f \in Slots |-> IF Stale(f) THEN Nobody ELSE ccc[f]]
    BY <1>7 DEF CleanUp
  <2> HIDE DEF S
  <2>3. /\ DescriptorsAgree'
        /\ \A s \in Sockets : Exists(s)' <=> Exists(s)
        /\ \A s \in Sockets : sock'[s] = IF s \in S THEN NoFd ELSE sock[s]
    BY <1>t, <2>1, <2>2, CloseAgrees
  <2>4. \A g \in Slots : ccc'[g] \in {ccc[g], Nobody}
    BY <2>2
  <2>5. UsedExist'
    BY <1>t, <1>0, <2>2, <2>3, <2>4, PendingType DEF UsedExist, data, TypeOK, Event
  <2>6. EntriesAgree'
    BY <1>t, <2>2, <2>3, <2>4 DEF EntriesAgree, TypeOK
  <2>7. BatchDone' /\ Counted'
    BY <1>t, <1>7, <2>2 DEF Counted, data, CleanUp, BatchDone
  <2> QED
    BY <2>3, <2>5, <2>6, <2>7
<1>8. ASSUME ExtractEvents PROVE Goal
  <2>1. Pending' = Pending /\ BatchDone'
    BY <1>t, <1>8, PendingExtract DEF ExtractEvents, BatchDone
  <2> QED
    BY <1>t, <1>8, <1>00, <2>1, QuietStep DEF ExtractEvents, PipesInv, TypeOK
<1>9. ASSUME HandleAdd PROVE Goal
  <2> DEFINE s == Head(batch).sock
  <2>1. /\ batch # <<>> /\ batch' = Tail(batch) /\ events' = events
        /\ Head(batch).op = "add" /\ pc' = "batch"
        /\ ccc' = [ccc EXCEPT ![sock[s]] = IF @ = Nobody THEN s ELSE @]
        /\ UNCHANGED <<conns, sendBuf, written, received, call>>
    BY <1>9 DEF HandleAdd, data
  <2>2. s \in Sockets /\ Exists(s)
    BY <1>t, <2>1, HandledEvents, BatchHead DEF UsedExist
  <2> HIDE DEF s
  <2>3. \A t \in Sockets : Exists(t)' <=> Exists(t)
    BY <2>1 DEF Exists, conns
  <2>4. \A f \in Slots : ccc'[f] \in {ccc[f], Nobody} \/ (f = sock[s] /\ ccc'[f] = s)
    BY <1>t, <2>1 DEF TypeOK
  <2>5. ASSUME NEW i \in 1..Len(Pending'), Pending'[i].op = "add"
        PROVE  Exists(Pending[i].sock)'
    <3>1. i + 1 \in 1..Len(Pending) /\ Pending'[i] = Pending[i + 1]
      BY <1>t, <2>1, HandledEvents
    <3> QED
      BY <1>t, <2>3, <2>5, <3>1, PendingType DEF UsedExist, Event
  <2>6. UsedExist'
    <3>1. \A t \in Sockets : ~Exists(t)' => sock'[t] = NoFd /\ sendBuf'[t] = <<>>
      BY <1>t, <2>1, <2>3 DEF UsedExist, conns
    <3>2. \A w \in Writers : call'[w] # Nobody => Exists(call[w])'
      BY <1>t, <2>1, <2>3 DEF UsedExist, TypeOK
    <3>3. \A f \in Slots : ccc'[f] # Nobody => Exists(ccc[f])'
      BY <1>t, <2>2, <2>3, <2>4 DEF UsedExist, TypeOK
    <3> QED
      BY <2>5, <3>1, <3>2, <3>3 DEF UsedExist
  <2>7. EntriesAgree'
    BY <1>t, <2>1, <2>4, <2>2 DEF EntriesAgree, TypeOK, conns
  <2> QED
    BY <1>t, <2>1, <2>3, <2>6, <2>7 DEF Counted, BatchDone, DescriptorsAgree, conns
<1>10. ASSUME HandleRemove PROVE Goal
  <2>1. /\ batch # <<>> /\ pc' = "batch" /\ batch' = Tail(batch) /\ events' = events
        /\ UNCHANGED <<conns, data, call>>
        /\ \A f \in Slots : ccc'[f] \in {ccc[f], Nobody}
    BY <1>10, <1>t DEF HandleRemove, TypeOK
  <2>2. \A i \in 1..Len(Pending') :
          \E j \in 1..Len(Pending) : Pending'[i] = Pending[j]
    BY <1>t, <2>1, HandledEvents
  <2> QED
    BY <1>t, <2>1, <2>2, QuietStep DEF PipesInv, BatchDone
<1>11. ASSUME NEW r \in Answers, NEW full \in BOOLEAN, Poll(r, full) PROVE Goal
  <2>1. UNCHANGED <<conns, data, call, events, batch, ccc>> /\ batch = <<>>
    BY <1>11 DEF Poll
  <2> QED
    BY <1>t, <1>0, <1>00, <2>1, QuietStep DEF PipesInv, TypeOK, BatchDone
<1>12. ASSUME NEW f \in Slots, HandleError(f) PROVE Goal
  <2>1. {ccc[f]} \ {Nobody} \in SUBSET Sockets
    BY <1>t DEF TypeOK
  <2> QED
    BY <1>t, <1>12, <2>1, CloseEntry DEF HandleError, PipesInv, BatchDone
<1>13. ASSUME NEW f \in Slots, HasMoved(f) PROVE Goal
  BY <1>t, <1>0, <1>00, <1>13, QuietStep DEF HasMoved, Drop, PipesInv, TypeOK, BatchDone
<1>15. ASSUME NEW f \in Slots, SendBlocks(f) PROVE Goal
  BY <1>t, <1>0, <1>00, <1>15, QuietStep DEF SendBlocks, Sends, PipesInv, TypeOK, BatchDone
<1>16. ASSUME NEW f \in Slots, SendFails(f) PROVE Goal
  <2>1. {ccc[f]} \in SUBSET Sockets
    BY <1>t, <1>16 DEF TypeOK, SendFails, Sends
  <2> QED
    BY <1>t, <1>16, <2>1, CloseEntry DEF SendFails, Sends, PipesInv, BatchDone
<1>17. ASSUME NEW f \in Slots, NEW k \in 0..MaxWrites, SendTakes(f, k) PROVE Goal
  <2> DEFINE s == ccc[f]
             buf == sendBuf[s]
             part == SubSeq(buf, 1, k)
             rest == SubSeq(buf, k + 1, Len(buf))
  <2>1. /\ s \in Sockets /\ f \in Fds /\ sock[s] = f /\ kernel[f] = s /\ Exists(s)
        /\ buf \in Seq(Sockets \X Nat) /\ k \in 0..Len(buf)
    BY <1>t, <1>17 DEF SendTakes, Sends, TypeOK, DescriptorsAgree, UsedExist
  <2>2. /\ received' = [received EXCEPT ![s] = @ \o part]
        /\ sendBuf' = [sendBuf EXCEPT ![s] = rest]
        /\ ccc' = ccc \/ ccc' = [ccc EXCEPT ![f] = Nobody]
        /\ UNCHANGED <<conns, written, call, events, batch, pc>>
    BY <1>17, <2>1 DEF SendTakes, Sends, Drop
  <2>3. Len(received[s] \o part) + Len(rest) = Len(received[s]) + Len(buf)
    <3>1. received[s] \in Seq(Sockets \X Nat)
      BY <1>t, <2>1 DEF TypeOK
    <3> HIDE DEF buf, s
    <3> QED
      BY <2>1, <3>1, TransferLengths
  <2> HIDE DEF part, rest
  <2>4. ASSUME NEW t \in Sockets
        PROVE  written'[t] = Len(received'[t]) + Len(sendBuf'[t])
    <3>1. CASE t = s
      <4>1. received'[t] = received[s] \o part /\ sendBuf'[t] = rest
        BY <1>t, <2>1, <2>2, <3>1 DEF TypeOK
      <4>2. written'[t] = Len(received[s]) + Len(buf)
        BY <1>t, <2>1, <2>2, <3>1 DEF Counted
      <4> QED
        BY <2>3, <4>1, <4>2
    <3>2. CASE t # s
      BY <1>t, <2>1, <2>2, <3>2 DEF Counted, TypeOK
    <3> QED
      BY <3>1, <3>2
  <2>5. Counted'
    BY <2>4 DEF Counted
  <2>6. \A t \in Sockets : Exists(t)' <=> Exists(t)
    BY <2>2 DEF Exists, conns
  <2>7. \A g \in Slots : ccc'[g] \in {ccc[g], Nobody}
    BY <1>t, <2>2 DEF TypeOK
  <2>8. UsedExist'
    BY <1>t, <1>0, <2>1, <2>2, <2>6, <2>7, PendingType DEF UsedExist, TypeOK, Event, conns
  <2> QED
    BY <1>t, <2>2, <2>5, <2>6, <2>7, <2>8
       DEF EntriesAgree, DescriptorsAgree, BatchDone, conns, TypeOK
<1>18. ASSUME EndRound PROVE Goal
  BY <1>t, <1>0, <1>00, <1>18, QuietStep DEF EndRound, PipesInv, TypeOK, BatchDone
<1>19. ASSUME UNCHANGED vars PROVE Goal
  BY <1>t, <1>0, <1>00, <1>19, QuietStep DEF vars, sender, PipesInv, TypeOK, BatchDone
<1> QED
  BY <1>t, <1>1, <1>2, <1>3, <1>4, <1>5, <1>6, <1>7, <1>8, <1>9, <1>10, <1>11, <1>12,
     <1>13, <1>15, <1>16, <1>17, <1>18, <1>19
     DEF Next, SenderStep, OthersStep, PipesInv
-----------------------------------------------------------------------------
(* Each step of the sender and of the others is a step of a pipe, or none. *)
LEMMA PipesStep ==
  ASSUME SenderAssumption, PipesInv, PipesInv', [Next]_vars
  PROVE  [Pipes!Next]_(Pipes!vars)
<1> USE SenderAssumption
<1>t. TypeOK /\ DescriptorsAgree /\ EntriesAgree /\ Counted
  BY DEF PipesInv
<1> DEFINE up == {s \in Sockets : sock[s] # NoFd}
           Same == UNCHANGED <<sendBuf, received>>
<1>a. ASSUME up' = up, Same PROVE UNCHANGED Pipes!vars
  BY <1>a DEF Pipes!vars
<1>b. ASSUME NEW s \in Sockets, up' = up \cup {s}, Same PROVE Pipes!Next
  BY <1>b DEF Pipes!Next, Pipes!Open
<1>c. ASSUME NEW s \in Sockets, up' = up \ {s}, Same PROVE Pipes!Next
  BY <1>c DEF Pipes!Next, Pipes!Close
<1>d. ASSUME NEW S \in SUBSET Sockets, Close(S) PROVE up' = up \ S
  BY <1>d, <1>t DEF Close, TypeOK
<1> HIDE DEF up
<1>e. ASSUME UNCHANGED sock PROVE up' = up
  BY <1>e DEF up
<1> DEFINE Goal == [Pipes!Next]_(Pipes!vars)
<1>1. ASSUME NEW s \in Sockets, MakeObject(s) PROVE Goal
  <2>1. sock' = [sock EXCEPT ![s] = given[s]] /\ given[s] # NoFd /\ Same
    BY <1>1, <1>t DEF MakeObject, data, TypeOK
  <2>2. up' = up \cup {s}
    BY <1>t, <2>1 DEF up, TypeOK
  <2> QED
    BY <1>b, <2>1, <2>2
<1>2. ASSUME NEW w \in Writers, NEW s \in Sockets, WriteAppends(w, s) PROVE Goal
  <2>1. /\ sendBuf' = [sendBuf EXCEPT ![s] = Append(@, <<s, written[s] + 1>>)]
        /\ UNCHANGED <<sock, received>>
    BY <1>2 DEF WriteAppends, conns
  <2>2. Pipes!Fresh(s) = <<s, written[s] + 1>>
    BY <1>t DEF Pipes!Fresh, Counted
  <2>3. Pipes!Write(s, Pipes!Fresh(s))
    BY <1>e, <2>1, <2>2 DEF Pipes!Write, up
  <2> QED
    BY <2>3 DEF Pipes!Next
<1>3. ASSUME NEW s \in Sockets, Disconnect(s) PROVE Goal
  <2>1. Close({s}) /\ Same
    BY <1>3 DEF Disconnect, data
  <2> QED
    BY <1>c, <1>d, <2>1
<1>4. ASSUME CleanUp PROVE Goal
  <2> DEFINE S == {ccc[f] : f \in {g \in Slots : Stale(g)}}
  <2>1. S \in SUBSET Sockets
    BY <1>t DEF TypeOK, Stale
  <2>2. \A s \in S : sock[s] = NoFd
    BY <1>t DEF EntriesAgree, Stale
  <2>3. Close(S) /\ Same
    BY <1>4 DEF CleanUp, data
  <2> HIDE DEF S
  <2>4. up' = up \ S
    BY <1>d, <2>1, <2>3
  <2>5. up \ S = up
    BY <2>2 DEF up
  <2> QED
    BY <1>a, <2>3, <2>4, <2>5
<1>5. ASSUME NEW f \in Slots, HandleError(f) PROVE Goal
  <2>1. Close({ccc[f]} \ {Nobody}) /\ Same
    BY <1>5 DEF HandleError, data
  <2>2. CASE ccc[f] = Nobody
    <3>1. up' = up \ {}
      BY <1>d, <2>1, <2>2
    <3> QED
      BY <1>a, <2>1, <3>1
  <2>3. CASE ccc[f] # Nobody
    <3>1. ccc[f] \in Sockets /\ {ccc[f]} \ {Nobody} = {ccc[f]}
      BY <1>t, <2>3 DEF TypeOK
    <3> QED
      BY <1>c, <1>d, <2>1, <3>1
  <2> QED
    BY <2>2, <2>3
<1>6. ASSUME NEW f \in Slots, SendFails(f) PROVE Goal
  <2>1. ccc[f] \in Sockets /\ Close({ccc[f]}) /\ Same
    BY <1>6, <1>t DEF SendFails, Sends, data, TypeOK
  <2> QED
    BY <1>c, <1>d, <2>1
<1>7. ASSUME NEW f \in Slots, NEW k \in 0..MaxWrites, SendTakes(f, k) PROVE Goal
  <2> DEFINE s == ccc[f]
  <2>1. s \in Sockets /\ sock[s] = f /\ f # NoFd /\ kernel[f] = s
    BY <1>7, <1>t DEF SendTakes, Sends, TypeOK, DescriptorsAgree
  <2>2. /\ k \in 0..Len(sendBuf[s])
        /\ received' = [received EXCEPT ![s] = @ \o SubSeq(sendBuf[s], 1, k)]
        /\ sendBuf' = [sendBuf EXCEPT ![s] = SubSeq(@, k + 1, Len(@))]
        /\ UNCHANGED sock
    BY <1>7, <2>1 DEF SendTakes, conns
  <2> HIDE DEF s
  <2>3. s \in up
    BY <2>1 DEF up
  <2>4. Pipes!Transfer(s, k)
    BY <1>e, <2>2, <2>3 DEF Pipes!Transfer, up
  <2> QED
    BY <2>1, <2>2, <2>4 DEF Pipes!Next
<1>8. ASSUME UNCHANGED <<sock, sendBuf, received>> PROVE Goal
  BY <1>a, <1>e, <1>8
<1>9. ASSUME NEW s \in Sockets, (\E f \in Fds : TakeFd(s, f)) \/ Announce(s) PROVE Goal
  BY <1>8, <1>9 DEF TakeFd, Announce, data
<1>10. ASSUME NEW w \in Writers, WritePushes(w) PROVE Goal
  BY <1>8, <1>10 DEF WritePushes, conns, data
<1>11. ASSUME ExtractEvents \/ HandleAdd \/ HandleRemove \/ EndRound PROVE Goal
  BY <1>8, <1>11 DEF ExtractEvents, HandleAdd, HandleRemove, EndRound, conns, data
<1>12. ASSUME NEW r \in Answers, NEW full \in BOOLEAN, Poll(r, full) PROVE Goal
  BY <1>8, <1>12 DEF Poll, conns, data
<1>13. ASSUME NEW f \in Slots, HasMoved(f) \/ SendBlocks(f) PROVE Goal
  BY <1>8, <1>13 DEF HasMoved, SendBlocks, conns, data
<1>14. ASSUME UNCHANGED vars PROVE Goal
  BY <1>8, <1>14 DEF vars, conns, data
<1> QED
  BY <1>1, <1>2, <1>3, <1>4, <1>5, <1>6, <1>7, <1>9, <1>10, <1>11, <1>12, <1>13, <1>14
     DEF Next, SenderStep, OthersStep

(* The invariant of the pipes holds always. *)
LEMMA PipesInvHolds == Spec => []PipesInv
<1>1. Init => PipesInv
  <2>1. ASSUME Init PROVE TypeOK
    BY <2>1, SenderAssumption, EmptySeq DEF Init, TypeOK, Slots
  <2>2. ASSUME Init PROVE Pending = <<>> /\ Len(Pending) = 0 /\ Len(<<>>) = 0
    BY <2>2 DEF Init, Pending
  <2> QED
    BY <2>1, <2>2, SenderAssumption DEF Init, PipesInv, DescriptorsAgree, UsedExist,
       EntriesAgree, Counted, BatchDone, Exists, Slots
<1>2. PipesInv /\ [Next]_vars => PipesInv'
  BY SenderAssumption, PipesInductive
<1> QED
  BY <1>1, <1>2, PTL DEF Spec

(* The sender implements a pipe per connection, for every number of        *)
(* sockets, descriptors, writers and writes, dialed sockets included.      *)
THEOREM PipesImplemented == Spec => ImplementsPipes
<1>1. Init => Pipes!Init
  BY DEF Init, Pipes!Init
<1>2. PipesInv /\ PipesInv' /\ [Next]_vars => [Pipes!Next]_(Pipes!vars)
  BY SenderAssumption, PipesStep
<1> QED
  BY <1>1, <1>2, PipesInvHolds, PTL DEF Spec, ImplementsPipes, Pipes!Spec
-----------------------------------------------------------------------------
(* Why no data is stuck when all sockets are accepted ones: their removal  *)
(* is announced before the object exists.                                  *)
StuckInv == PipesInv /\ RemovalsFirst /\ NoStuckData

(* A step in which no event comes or goes and no socket opens.             *)
LEMMA StuckQuiet ==
  ASSUME SenderAssumption, StuckInv, TypeOK', Pending' = Pending, call' = call,
         UNCHANGED <<stage, given>>,
         \A s \in Sockets : sock'[s] \in {sock[s], NoFd},
         \A f \in Fds : kernel'[f] \in {kernel[f], Nobody},
         \A f \in Slots : ccc'[f] \in {ccc[f], Nobody},
         \A s \in Sockets : sock'[s] # NoFd /\ sendBuf'[s] # <<>>
                              => sendBuf[s] # <<>>
                                 /\ (ccc[sock[s]] = s => ccc'[sock[s]] = s)
  PROVE  RemovalsFirst' /\ NoStuckData'
<1> USE SenderAssumption DEF StuckInv, PipesInv
<1>1. RemovalsFirst'
  <2>1. ASSUME NEW i \in 1..Len(Pending'), NEW j \in 1..Len(Pending'),
               NEW s \in Sockets, NEW f \in Fds,
               i < j, Pending'[i] = Add(s), Pending'[j] = Remove(f)
        PROVE  sock'[s] # f
    BY <2>1 DEF RemovalsFirst
  <2>2. ASSUME NEW f \in Fds, NEW i \in 1..Len(Pending'),
               Pending'[i] = Remove(f), ccc'[f] # Nobody
        PROVE  sock'[ccc'[f]] # f
    BY <2>2 DEF RemovalsFirst, Slots, TypeOK
  <2>3. ASSUME NEW f \in Fds, ccc'[f] # Nobody, kernel'[f] \notin {Nobody, ccc'[f]},
               stage'[kernel'[f]] # "taken"
        PROVE  \E i \in 1..Len(Pending') : Pending'[i] = Remove(f)
    BY <2>3 DEF RemovalsFirst, Slots, TypeOK
  <2> QED
    BY <2>1, <2>2, <2>3 DEF RemovalsFirst, Add, Remove
<1>2. ASSUME NEW s \in Sockets, sock'[s] # NoFd, sendBuf'[s] # <<>>
      PROVE  Awaited(s)'
  <2>1. sock'[s] = sock[s] /\ sendBuf[s] # <<>> /\ Awaited(s)
    BY <1>2 DEF NoStuckData
  <2> QED
    BY <1>2, <2>1 DEF Awaited, Add
<1> QED
  BY <1>1, <1>2 DEF NoStuckData

(* Every step keeps the invariant of the data that waits. *)
LEMMA StuckInductive ==
  ASSUME SenderAssumption, Dialed = {}, StuckInv, [Next]_vars
  PROVE  StuckInv'
<1> USE SenderAssumption
<1>t. /\ TypeOK /\ TypeOK' /\ DescriptorsAgree /\ UsedExist /\ BatchDone
      /\ EntriesAgree /\ PipesInv' /\ RemovalsFirst /\ NoStuckData
  BY PipesInductive DEF StuckInv, PipesInv
<1> DEFINE Goal == RemovalsFirst' /\ NoStuckData'
<1>e. \A s \in Sockets : Exists(s) <=> stage[s] = "live"
  BY DEF Exists
<1>p. ASSUME UNCHANGED <<batch, events>> PROVE Pending' = Pending
  BY <1>p DEF Pending
<1>n. ASSUME NEW s \in Sockets, NEW t \in Sockets PROVE Add(s) = Add(t) <=> s = t
  BY DEF Add
<1>m. ASSUME NEW f \in Fds, NEW g \in Fds PROVE Remove(f) = Remove(g) <=> f = g
  BY DEF Remove
<1>k. ASSUME NEW s \in Sockets, NEW f \in Fds PROVE Add(s) # Remove(f)
  BY DEF Add, Remove
<1>1. ASSUME NEW s \in Sockets, NEW f \in Fds, TakeFd(s, f) PROVE Goal
  <2>1. /\ kernel[f] = Nobody /\ stage[s] = "new"
        /\ kernel' = [kernel EXCEPT ![f] = s]
        /\ stage' = [stage EXCEPT ![s] = "taken"]
        /\ UNCHANGED <<sock, sendBuf, call, ccc>> /\ Pending' = Pending
    BY <1>1, <1>p DEF TakeFd, data, sender
  <2>2. RemovalsFirst'
    <3>1. ASSUME NEW g \in Fds, ccc'[g] # Nobody, kernel'[g] \notin {Nobody, ccc'[g]},
                 stage'[kernel'[g]] # "taken"
          PROVE  \E i \in 1..Len(Pending') : Pending'[i] = Remove(g)
      BY <1>t, <2>1, <3>1 DEF RemovalsFirst, TypeOK
    <3> QED
      BY <1>t, <2>1, <3>1 DEF RemovalsFirst, Add, Remove
  <2> QED
    BY <1>t, <2>1, <2>2 DEF NoStuckData, Awaited, Add
<1>2. ASSUME NEW s \in Sockets, Announce(s) PROVE Goal
  <2> DEFINE h == given[s]
  <2>1. /\ stage[s] = "taken" /\ h \in Fds /\ kernel[h] = s /\ sock[s] = NoFd
        /\ stage' = [stage EXCEPT ![s] = "half"]
        /\ events' = Append(events, Remove(h)) /\ batch' = batch
        /\ Remove(h) \in Event
        /\ UNCHANGED <<kernel, sock, sendBuf, call, ccc>>
    BY <1>2, <1>t, <1>e DEF Announce, data, sender, TypeOK, Remove, Event,
       DescriptorsAgree, UsedExist
  <2> HIDE DEF h
  <2>2. /\ Len(Pending') = Len(Pending) + 1 /\ Len(Pending) \in Nat
        /\ \A i \in 1..Len(Pending) : Pending'[i] = Pending[i]
        /\ Pending'[Len(Pending) + 1] = Remove(h)
        /\ \A i \in 1..Len(Pending') : i \in 1..Len(Pending) \/ i = Len(Pending) + 1
    BY <1>t, <2>1, PushedEvents, PendingType
  <2>3. \A t \in Sockets : sock[t] # h
    BY <1>t, <2>1 DEF DescriptorsAgree
  <2>4. ASSUME NEW i \in 1..Len(Pending'), NEW j \in 1..Len(Pending'),
               NEW t \in Sockets, NEW f \in Fds,
               i < j, Pending'[i] = Add(t), Pending'[j] = Remove(f)
        PROVE  sock'[t] # f
    <3>1. CASE j \in 1..Len(Pending)
      BY <1>t, <2>1, <2>2, <2>4, <3>1 DEF RemovalsFirst
    <3>2. CASE j = Len(Pending) + 1
      <4>1. f = h
        BY <1>m, <2>1, <2>2, <2>4, <3>2
      <4> QED
        BY <2>1, <2>3, <4>1
    <3> QED
      BY <2>2, <3>1, <3>2
  <2>5. ASSUME NEW f \in Fds, NEW i \in 1..Len(Pending'),
               Pending'[i] = Remove(f), ccc'[f] # Nobody
        PROVE  sock'[ccc'[f]] # f
    <3>1. CASE i \in 1..Len(Pending)
      BY <1>t, <2>1, <2>2, <2>5, <3>1 DEF RemovalsFirst
    <3>2. CASE i = Len(Pending) + 1
      <4>1. f = h
        BY <1>m, <2>1, <2>2, <2>5, <3>2
      <4> QED
        BY <1>t, <2>1, <2>3, <2>5, <4>1 DEF TypeOK, Slots
    <3> QED
      BY <2>2, <3>1, <3>2
  <2>6. ASSUME NEW f \in Fds, ccc'[f] # Nobody, kernel'[f] \notin {Nobody, ccc'[f]},
               stage'[kernel'[f]] # "taken"
        PROVE  \E i \in 1..Len(Pending') : Pending'[i] = Remove(f)
    <3>1. CASE f = h
      <4>1. Len(Pending) + 1 \in 1..Len(Pending')
        BY <2>2
      <4> QED
        BY <2>2, <3>1, <4>1
    <3>2. CASE f # h
      <4>1. kernel[f] # s
        BY <1>t, <2>1, <2>6, <3>2 DEF DescriptorsAgree, h
      <4>2. \E i \in 1..Len(Pending) : Pending[i] = Remove(f)
        BY <1>t, <2>1, <2>6, <4>1 DEF RemovalsFirst, TypeOK
      <4> QED
        BY <2>2, <4>2
    <3> QED
      BY <3>1, <3>2
  <2>7. RemovalsFirst'
    BY <2>4, <2>5, <2>6 DEF RemovalsFirst, Add, Remove
  <2>8. NoStuckData'
    BY <1>t, <2>1, <2>2 DEF NoStuckData, Awaited, Add
  <2> QED
    BY <2>7, <2>8
<1>3. ASSUME NEW s \in Sockets, MakeObject(s) PROVE Goal
  <2>1. /\ stage[s] = "half" /\ ~Exists(s) /\ sendBuf[s] = <<>>
        /\ kernel[given[s]] = s /\ given[s] \in Fds
        /\ sock' = [sock EXCEPT ![s] = given[s]]
        /\ stage' = [stage EXCEPT ![s] = "live"]
        /\ UNCHANGED <<kernel, sendBuf, call, ccc>> /\ Pending' = Pending
    BY <1>3, <1>t, <1>e, <1>p DEF MakeObject, data, sender, TypeOK,
       DescriptorsAgree, UsedExist
  <2>2. \A f \in Slots : ccc[f] # Nobody => ccc[f] # s
    BY <1>t, <2>1 DEF UsedExist
  <2>3. \A i \in 1..Len(Pending) : Pending[i] # Add(s)
    BY <1>t, <2>1 DEF UsedExist, Add
  <2>4. ASSUME NEW i \in 1..Len(Pending'), NEW j \in 1..Len(Pending'),
               NEW t \in Sockets, NEW f \in Fds,
               i < j, Pending'[i] = Add(t), Pending'[j] = Remove(f)
        PROVE  sock'[t] # f
    BY <1>t, <2>1, <2>3, <2>4 DEF RemovalsFirst
  <2>5. ASSUME NEW f \in Fds, NEW i \in 1..Len(Pending'),
               Pending'[i] = Remove(f), ccc'[f] # Nobody
        PROVE  sock'[ccc'[f]] # f
    BY <1>t, <2>1, <2>2, <2>5 DEF RemovalsFirst, Slots
  <2>6. ASSUME NEW f \in Fds, ccc'[f] # Nobody, kernel'[f] \notin {Nobody, ccc'[f]},
               stage'[kernel'[f]] # "taken"
        PROVE  \E i \in 1..Len(Pending') : Pending'[i] = Remove(f)
    <3>1. kernel[f] \in Sockets /\ stage'[kernel[f]] # "taken"
      BY <1>t, <2>1, <2>6 DEF TypeOK
    <3>2. stage[kernel[f]] # "taken"
      BY <1>t, <2>1, <3>1 DEF TypeOK
    <3> QED
      BY <1>t, <2>1, <2>6, <3>2 DEF RemovalsFirst
  <2>7. RemovalsFirst'
    BY <2>4, <2>5, <2>6 DEF RemovalsFirst, Add, Remove
  <2>8. NoStuckData'
    BY <1>t, <2>1 DEF NoStuckData, Awaited, Add
  <2> QED
    BY <2>7, <2>8
<1>4. ASSUME NEW w \in Writers, NEW s \in Sockets, WriteAppends(w, s) PROVE Goal
  <2>1. /\ call[w] = Nobody /\ call' = [call EXCEPT ![w] = s]
        /\ sendBuf' = [sendBuf EXCEPT ![s] = Append(@, <<s, written[s] + 1>>)]
        /\ UNCHANGED <<kernel, stage, sock, ccc>> /\ Pending' = Pending
    BY <1>4, <1>p DEF WriteAppends, conns, sender
  <2>2. RemovalsFirst'
    BY <1>t, <2>1 DEF RemovalsFirst, Add, Remove
  <2>3. ASSUME NEW t \in Sockets, sock'[t] # NoFd, sendBuf'[t] # <<>>
        PROVE  Awaited(t)'
    <3>1. CASE t = s
      BY <1>t, <2>1, <3>1 DEF Awaited, TypeOK
    <3>2. CASE t # s
      <4>1. Awaited(t)
        BY <1>t, <2>1, <2>3, <3>2 DEF NoStuckData, TypeOK
      <4> QED
        BY <1>t, <2>1, <4>1 DEF Awaited, TypeOK, Add
    <3> QED
      BY <3>1, <3>2
  <2> QED
    BY <2>2, <2>3 DEF NoStuckData
<1>5. ASSUME NEW w \in Writers, WritePushes(w) PROVE Goal
  <2> DEFINE s == call[w]
  <2>1. /\ s \in Sockets /\ Add(s) \in Event
        /\ events' = Append(events, Add(s)) /\ batch' = batch
        /\ call' = [call EXCEPT ![w] = Nobody]
        /\ UNCHANGED <<kernel, stage, sock, sendBuf, ccc>>
    BY <1>5, <1>t DEF WritePushes, conns, data, sender, TypeOK, Add, Event
  <2> HIDE DEF s
  <2>2. /\ Len(Pending') = Len(Pending) + 1 /\ Len(Pending) \in Nat
        /\ \A i \in 1..Len(Pending) : i \in 1..Len(Pending') /\ Pending'[i] = Pending[i]
        /\ Len(Pending) + 1 \in 1..Len(Pending')
        /\ Pending'[Len(Pending) + 1] = Add(s)
        /\ \A i \in 1..Len(Pending') : i \in 1..Len(Pending) \/ i = Len(Pending) + 1
    BY <1>t, <2>1, PushedEvents, PendingType
  <2>3. \A i \in 1..Len(Pending'), f \in Fds :
          Pending'[i] = Remove(f) => i \in 1..Len(Pending) /\ Pending[i] = Remove(f)
    BY <1>k, <2>1, <2>2
  <2>4. ASSUME NEW i \in 1..Len(Pending'), NEW j \in 1..Len(Pending'),
               NEW t \in Sockets, NEW f \in Fds,
               i < j, Pending'[i] = Add(t), Pending'[j] = Remove(f)
        PROVE  sock'[t] # f
    <3>1. j \in 1..Len(Pending) /\ Pending[j] = Remove(f)
      BY <2>3, <2>4
    <3>2. i \in 1..Len(Pending) /\ Pending[i] = Add(t)
      BY <2>2, <2>4, <3>1
    <3> QED
      BY <1>t, <2>1, <2>4, <3>1, <3>2 DEF RemovalsFirst
  <2>5. ASSUME NEW f \in Fds, NEW i \in 1..Len(Pending'),
               Pending'[i] = Remove(f), ccc'[f] # Nobody
        PROVE  sock'[ccc'[f]] # f
    BY <1>t, <2>1, <2>3, <2>5 DEF RemovalsFirst
  <2>6. ASSUME NEW f \in Fds, ccc'[f] # Nobody, kernel'[f] \notin {Nobody, ccc'[f]},
               stage'[kernel'[f]] # "taken"
        PROVE  \E i \in 1..Len(Pending') : Pending'[i] = Remove(f)
    BY <1>t, <2>1, <2>2, <2>6 DEF RemovalsFirst
  <2>7. RemovalsFirst'
    BY <2>4, <2>5, <2>6 DEF RemovalsFirst, Add, Remove
  <2>8. ASSUME NEW t \in Sockets, sock'[t] # NoFd, sendBuf'[t] # <<>>
        PROVE  Awaited(t)'
    <3>1. Awaited(t)
      BY <1>t, <2>1, <2>8 DEF NoStuckData
    <3>2. CASE t = s
      BY <2>2, <3>2 DEF Awaited, Add
    <3>3. CASE t # s
      BY <1>t, <2>1, <2>2, <3>1, <3>3 DEF Awaited, Add, s, TypeOK
    <3> QED
      BY <3>2, <3>3
  <2> QED
    BY <2>7, <2>8 DEF NoStuckData
<1>6. ASSUME NEW s \in Sockets, Disconnect(s) PROVE Goal
  <2>1. /\ Close({s}) /\ UNCHANGED <<stage, given, sendBuf, call, ccc>>
        /\ Pending' = Pending
    BY <1>6, <1>p DEF Disconnect, data, sender, Close
  <2> QED
    BY <1>t, <2>1, StuckQuiet DEF Close, TypeOK
<1>7. ASSUME CleanUp PROVE Goal
  <2>1. /\ \A s \in Sockets : sock'[s] \in {sock[s], NoFd}
        /\ \A f \in Fds : kernel'[f] \in {kernel[f], Nobody}
        /\ UNCHANGED <<stage, given, sendBuf, call>> /\ Pending' = Pending
        /\ \A f \in Slots : ccc'[f] = IF Stale(f) THEN Nobody ELSE ccc[f]
    BY <1>7, <1>p DEF CleanUp, data, Close
  <2>2. ASSUME NEW s \in Sockets, sock'[s] # NoFd, ccc[sock[s]] = s
        PROVE  ccc'[sock[s]] = s
    BY <1>t, <2>1, <2>2 DEF Stale, TypeOK
  <2> QED
    BY <1>t, <2>1, <2>2, StuckQuiet
<1>8. ASSUME ExtractEvents PROVE Goal
  <2>1. Pending' = Pending
    BY <1>t, <1>8, PendingExtract DEF ExtractEvents, BatchDone
  <2> QED
    BY <1>t, <1>8, <2>1, StuckQuiet DEF ExtractEvents, conns, data
<1>9. ASSUME HandleAdd PROVE Goal
  <2> DEFINE s == Head(batch).sock
             h == sock[s]
  <2>1. /\ batch # <<>> /\ batch' = Tail(batch) /\ events' = events
        /\ Head(batch).op = "add" /\ UNCHANGED <<kernel, stage, sock, sendBuf, call>>
        /\ ccc' = [ccc EXCEPT ![h] = IF @ = Nobody THEN s ELSE @]
    BY <1>9 DEF HandleAdd, conns, data
  <2>2. /\ s \in Sockets /\ h \in Slots /\ Head(batch) = Add(s)
        /\ h # NoFd => kernel[h] = s
    BY <1>t, <2>1, BatchHead DEF Add, Event, TypeOK, DescriptorsAgree
  <2>3. /\ Len(Pending') = Len(Pending) - 1 /\ Len(Pending) \in Nat /\ Len(Pending) > 0
        /\ \A i \in 1..Len(Pending') :
             i + 1 \in 1..Len(Pending) /\ Pending'[i] = Pending[i + 1]
        /\ 1 \in 1..Len(Pending) /\ Pending[1] = Add(s)
    BY <1>t, <2>1, <2>2, HandledEvents, PendingType
  <2>4. \A f \in Slots : ccc'[f] = IF f = h /\ ccc[f] = Nobody THEN s ELSE ccc[f]
    BY <1>t, <2>1, <2>2 DEF TypeOK
  <2> HIDE DEF s, h
  <2>5. \A f \in Fds, i \in 1..Len(Pending) :
          Pending[i] = Remove(f) => sock[s] # f /\ i - 1 \in 1..Len(Pending')
                                    /\ Pending'[i - 1] = Pending[i]
    <3>1. ASSUME NEW f \in Fds, NEW i \in 1..Len(Pending), Pending[i] = Remove(f)
          PROVE  sock[s] # f /\ i - 1 \in 1..Len(Pending') /\ Pending'[i - 1] = Pending[i]
      <4>1. i # 1
        BY <1>k, <2>2, <2>3, <3>1
      <4>2. 1 < i /\ i - 1 \in 1..Len(Pending') /\ (i - 1) + 1 = i
        BY <2>3, <4>1
      <4>3. sock[s] # f
        BY <1>t, <2>2, <2>3, <3>1, <4>2 DEF RemovalsFirst
      <4> QED
        BY <2>3, <4>2, <4>3
    <3> QED
      BY <3>1
  <2>6. ASSUME NEW i \in 1..Len(Pending'), NEW j \in 1..Len(Pending'),
               NEW t \in Sockets, NEW f \in Fds,
               i < j, Pending'[i] = Add(t), Pending'[j] = Remove(f)
        PROVE  sock'[t] # f
    <3>1. /\ i + 1 \in 1..Len(Pending) /\ Pending[i + 1] = Add(t)
          /\ j + 1 \in 1..Len(Pending) /\ Pending[j + 1] = Remove(f)
          /\ i + 1 < j + 1
      BY <2>3, <2>6
    <3> QED
      BY <1>t, <2>1, <3>1 DEF RemovalsFirst
  <2>7. ASSUME NEW f \in Fds, NEW i \in 1..Len(Pending'),
               Pending'[i] = Remove(f), ccc'[f] # Nobody
        PROVE  sock'[ccc'[f]] # f
    <3>1. i + 1 \in 1..Len(Pending) /\ Pending[i + 1] = Remove(f) /\ f \in Slots
      BY <2>3, <2>7 DEF Slots
    <3>2. sock[s] # f
      BY <2>5, <3>1
    <3>3. f # h
      BY <3>2 DEF h
    <3> QED
      BY <1>t, <2>1, <2>4, <2>7, <3>1, <3>3 DEF RemovalsFirst
  <2>8. ASSUME NEW f \in Fds, ccc'[f] # Nobody, kernel'[f] \notin {Nobody, ccc'[f]},
               stage'[kernel'[f]] # "taken"
        PROVE  \E i \in 1..Len(Pending') : Pending'[i] = Remove(f)
    <3>1. ccc[f] = ccc'[f] /\ f \in Slots
      BY <2>1, <2>2, <2>4, <2>8, SenderAssumption DEF Slots
    <3>2. PICK i \in 1..Len(Pending) : Pending[i] = Remove(f)
      BY <1>t, <2>1, <2>8, <3>1 DEF RemovalsFirst
    <3> QED
      BY <2>5, <3>2
  <2>9. RemovalsFirst'
    BY <2>6, <2>7, <2>8 DEF RemovalsFirst, Add, Remove
  <2>10. ASSUME NEW t \in Sockets, sock'[t] # NoFd, sendBuf'[t] # <<>>
         PROVE  Awaited(t)'
    <3>1. Awaited(t) /\ sock[t] \in Fds /\ kernel[sock[t]] = t /\ stage[t] = "live"
      BY <1>t, <1>e, <2>1, <2>10
         DEF NoStuckData, TypeOK, Slots, DescriptorsAgree, UsedExist
    <3>2. CASE ccc[sock[t]] = t
      BY <2>1, <2>4, <3>1, <3>2 DEF Awaited, Slots
    <3>3. CASE \E w \in Writers : call[w] = t
      BY <2>1, <3>3 DEF Awaited
    <3>4. CASE \E i \in 1..Len(Pending) : Pending[i] = Add(t)
      <4>1. PICK i \in 1..Len(Pending) : Pending[i] = Add(t)
        BY <3>4
      <4>2. CASE i = 1
        <5>1. t = s /\ sock[t] = h
          BY <1>n, <2>2, <2>3, <4>1, <4>2 DEF h
        <5>2. ccc[h] # Nobody => ccc[h] = s
          <6>1. ASSUME ccc[h] # Nobody, ccc[h] # s PROVE FALSE
            <7>1. PICK k \in 1..Len(Pending) : Pending[k] = Remove(h)
              BY <1>t, <3>1, <5>1, <6>1, SenderAssumption DEF RemovalsFirst
            <7> QED
              BY <2>5, <3>1, <5>1, <7>1
          <6> QED
            BY <6>1
        <5> QED
          BY <2>1, <2>2, <2>4, <5>1, <5>2 DEF Awaited
      <4>3. CASE i # 1
        <5>1. i - 1 \in 1..Len(Pending') /\ Pending'[i - 1] = Add(t)
          <6>1. i - 1 \in 1..Len(Pending') /\ (i - 1) + 1 = i
            BY <2>3, <4>3
          <6> QED
            BY <2>3, <4>1, <6>1
        <5> QED
          BY <5>1 DEF Awaited, Add
      <4> QED
        BY <4>2, <4>3
    <3> QED
      BY <3>1, <3>2, <3>3, <3>4 DEF Awaited
  <2> QED
    BY <2>9, <2>10 DEF NoStuckData
<1>10. ASSUME HandleRemove PROVE Goal
  <2> DEFINE h == Head(batch).fd
  <2>1. /\ batch # <<>> /\ batch' = Tail(batch) /\ events' = events
        /\ Head(batch).op = "remove" /\ UNCHANGED <<kernel, stage, sock, sendBuf, call>>
        /\ ccc' = [ccc EXCEPT ![h] = Nobody]
    BY <1>10 DEF HandleRemove, conns, data
  <2>2. h \in Fds /\ Head(batch) = Remove(h)
    BY <1>t, <2>1, BatchHead DEF Remove, Event
  <2>3. /\ Len(Pending') = Len(Pending) - 1 /\ Len(Pending) \in Nat /\ Len(Pending) > 0
        /\ \A i \in 1..Len(Pending') :
             i + 1 \in 1..Len(Pending) /\ Pending'[i] = Pending[i + 1]
        /\ 1 \in 1..Len(Pending) /\ Pending[1] = Remove(h)
    BY <1>t, <2>1, <2>2, HandledEvents, PendingType
  <2>4. \A f \in Slots : ccc'[f] = IF f = h THEN Nobody ELSE ccc[f]
    BY <1>t, <2>1 DEF TypeOK
  <2> HIDE DEF h
  <2>5. ASSUME NEW i \in 1..Len(Pending), i # 1
        PROVE  i - 1 \in 1..Len(Pending') /\ Pending'[i - 1] = Pending[i]
    <3>1. i - 1 \in 1..Len(Pending') /\ (i - 1) + 1 = i
      BY <2>3, <2>5
    <3> QED
      BY <2>3, <3>1
  <2>6. ASSUME NEW i \in 1..Len(Pending'), NEW j \in 1..Len(Pending'),
               NEW t \in Sockets, NEW f \in Fds,
               i < j, Pending'[i] = Add(t), Pending'[j] = Remove(f)
        PROVE  sock'[t] # f
    <3>1. /\ i + 1 \in 1..Len(Pending) /\ Pending[i + 1] = Add(t)
          /\ j + 1 \in 1..Len(Pending) /\ Pending[j + 1] = Remove(f)
          /\ i + 1 < j + 1
      BY <2>3, <2>6
    <3> QED
      BY <1>t, <2>1, <3>1 DEF RemovalsFirst
  <2>7. ASSUME NEW f \in Fds, NEW i \in 1..Len(Pending'),
               Pending'[i] = Remove(f), ccc'[f] # Nobody
        PROVE  sock'[ccc'[f]] # f
    <3>1. i + 1 \in 1..Len(Pending) /\ Pending[i + 1] = Remove(f) /\ f \in Slots
      BY <2>3, <2>7 DEF Slots
    <3> QED
      BY <1>t, <2>1, <2>4, <2>7, <3>1 DEF RemovalsFirst
  <2>8. ASSUME NEW f \in Fds, ccc'[f] # Nobody, kernel'[f] \notin {Nobody, ccc'[f]},
               stage'[kernel'[f]] # "taken"
        PROVE  \E i \in 1..Len(Pending') : Pending'[i] = Remove(f)
    <3>1. f # h /\ ccc'[f] = ccc[f] /\ f \in Slots
      BY <2>4, <2>8 DEF Slots
    <3>2. PICK i \in 1..Len(Pending) : Pending[i] = Remove(f)
      BY <1>t, <2>1, <2>8, <3>1 DEF RemovalsFirst
    <3>3. i # 1
      BY <1>m, <2>2, <2>3, <3>1, <3>2
    <3> QED
      BY <2>5, <3>2, <3>3
  <2>9. RemovalsFirst'
    BY <2>6, <2>7, <2>8 DEF RemovalsFirst, Add, Remove
  <2>10. ASSUME NEW t \in Sockets, sock'[t] # NoFd, sendBuf'[t] # <<>>
         PROVE  Awaited(t)'
    <3>1. Awaited(t) /\ sock[t] \in Slots
      BY <1>t, <2>1, <2>10 DEF NoStuckData, TypeOK
    <3>2. CASE ccc[sock[t]] = t
      <4>1. sock[t] # h
        BY <1>t, <2>2, <2>3, <3>2, SenderAssumption DEF RemovalsFirst
      <4> QED
        BY <2>1, <2>4, <3>1, <3>2, <4>1 DEF Awaited
    <3>3. CASE \E w \in Writers : call[w] = t
      BY <2>1, <3>3 DEF Awaited
    <3>4. CASE \E i \in 1..Len(Pending) : Pending[i] = Add(t)
      <4>1. PICK i \in 1..Len(Pending) : Pending[i] = Add(t)
        BY <3>4
      <4>2. i # 1
        BY <1>k, <2>2, <2>3, <4>1
      <4> QED
        BY <2>5, <4>1, <4>2 DEF Awaited, Add
    <3> QED
      BY <3>1, <3>2, <3>3, <3>4 DEF Awaited
  <2> QED
    BY <2>9, <2>10 DEF NoStuckData
<1>11. ASSUME NEW r \in Answers, NEW full \in BOOLEAN, Poll(r, full) PROVE Goal
  BY <1>t, <1>p, <1>11, StuckQuiet DEF Poll, conns, data
<1>12. ASSUME NEW f \in Slots, NEW S \in SUBSET Sockets, Close(S), ccc[f] \in S \/ ccc[f] = Nobody,
              Drop(f), UNCHANGED <<data, call, events, batch>>
       PROVE  Goal
  <2>1. /\ \A s \in Sockets : sock'[s] = IF s \in S THEN NoFd ELSE sock[s]
        /\ \A g \in Fds : kernel'[g] \in {kernel[g], Nobody}
        /\ UNCHANGED <<stage, given, sendBuf, call>> /\ Pending' = Pending
        /\ \A g \in Slots : ccc'[g] = IF g = f THEN Nobody ELSE ccc[g]
    BY <1>12, <1>t, <1>p DEF Close, data, Drop, TypeOK
  <2>2. ASSUME NEW s \in Sockets, sock'[s] # NoFd, ccc[sock[s]] = s
        PROVE  ccc'[sock[s]] = s
    BY <1>t, <1>12, <2>1, <2>2, SenderAssumption DEF TypeOK
  <2> QED
    BY <1>t, <2>1, <2>2, StuckQuiet
<1>13. ASSUME NEW f \in Slots, HandleError(f) PROVE Goal
  <2>1. {ccc[f]} \ {Nobody} \in SUBSET Sockets
    BY <1>t DEF TypeOK
  <2> QED
    BY <1>12, <1>13, <2>1 DEF HandleError
<1>14. ASSUME NEW f \in Slots, HasMoved(f) PROVE Goal
  <2>1. /\ UNCHANGED <<kernel, stage, given, sock, sendBuf, call>> /\ Pending' = Pending
        /\ sock[ccc[f]] # f
        /\ \A g \in Slots : ccc'[g] = IF g = f THEN Nobody ELSE ccc[g]
    BY <1>t, <1>p, <1>14 DEF HasMoved, Drop, TypeOK, conns, data
  <2>2. ASSUME NEW s \in Sockets, ccc[sock[s]] = s
        PROVE  ccc'[sock[s]] = s
    BY <1>t, <2>1, <2>2 DEF TypeOK
  <2> QED
    BY <1>t, <2>1, <2>2, StuckQuiet
<1>15. ASSUME NEW f \in Slots, SendBlocks(f) PROVE Goal
  BY <1>t, <1>p, <1>15, StuckQuiet DEF SendBlocks, Sends, conns, data
<1>16. ASSUME NEW f \in Slots, SendFails(f) PROVE Goal
  <2>1. {ccc[f]} \in SUBSET Sockets
    BY <1>t, <1>16 DEF TypeOK, SendFails, Sends
  <2> QED
    BY <1>12, <1>16, <2>1 DEF SendFails, Sends
<1>17. ASSUME NEW f \in Slots, NEW k \in 0..MaxWrites, SendTakes(f, k) PROVE Goal
  <2> DEFINE s == ccc[f]
             buf == sendBuf[s]
             rest == SubSeq(buf, k + 1, Len(buf))
  <2>1. s \in Sockets /\ sock[s] = f /\ buf \in Seq(Sockets \X Nat) /\ k \in 0..Len(buf)
    BY <1>t, <1>17 DEF SendTakes, Sends, TypeOK
  <2>2. /\ sendBuf' = [sendBuf EXCEPT ![s] = rest]
        /\ IF k = Len(buf) THEN Drop(f) ELSE ccc' = ccc
        /\ UNCHANGED <<kernel, stage, given, sock, call>> /\ Pending' = Pending
    BY <1>17, <1>p DEF SendTakes, Sends, conns
  <2>3. k = Len(buf) => rest = <<>>
    BY <2>1, LenProperties, SubSeqEmpty
  <2>4. buf = <<>> => rest = <<>>
    <3>1. buf = <<>> => k = Len(buf)
      BY <2>1
    <3> QED
      BY <2>3, <3>1
  <2> HIDE DEF rest
  <2>5. \A t \in Sockets : sendBuf'[t] = IF t = s THEN rest ELSE sendBuf[t]
    BY <1>t, <2>2 DEF TypeOK
  <2>6. \A g \in Slots : ccc'[g] = IF g = f /\ k = Len(buf) THEN Nobody ELSE ccc[g]
    BY <1>t, <2>2 DEF Drop, TypeOK
  <2>7. ASSUME NEW t \in Sockets, sock'[t] # NoFd, sendBuf'[t] # <<>>
        PROVE  sendBuf[t] # <<>> /\ (ccc[sock[t]] = t => ccc'[sock[t]] = t)
    BY <1>t, <2>1, <2>2, <2>3, <2>4, <2>5, <2>6, <2>7 DEF TypeOK
  <2> QED
    BY <1>t, <2>2, <2>6, <2>7, StuckQuiet
<1>18. ASSUME EndRound \/ UNCHANGED vars PROVE Goal
  BY <1>t, <1>p, <1>18, StuckQuiet DEF EndRound, vars, sender, conns, data
<1> QED
  BY <1>t, <1>1, <1>2, <1>3, <1>4, <1>5, <1>6, <1>7, <1>8, <1>9, <1>10, <1>11, <1>13,
     <1>14, <1>15, <1>16, <1>17, <1>18 DEF Next, SenderStep, OthersStep, StuckInv

(* When no socket is dialed, an open socket with unsent data is always     *)
(* looked at again: the sender forgets nobody.                             *)
THEOREM NoDataStuck ==
  ASSUME Dialed = {} PROVE Spec => []NoStuckData
<1>1. Init /\ PipesInv => StuckInv
  <2>1. ASSUME Init PROVE Len(Pending) = 0
    BY <2>1 DEF Init, Pending
  <2> QED
    BY <2>1, SenderAssumption DEF Init, StuckInv, RemovalsFirst, NoStuckData, Slots
<1>2. StuckInv /\ [Next]_vars => StuckInv'
  BY SenderAssumption, StuckInductive
<1>3. StuckInv => NoStuckData
  BY DEF StuckInv
<1> QED
  BY <1>1, <1>2, <1>3, PipesInvHolds, PTL DEF Spec

-----------------------------------------------------------------------------
(* The pool of handler threads. *)

(* Fewer handlers than the limit when a listener checks it, and at most    *)
(* one more for each listener that is past the check.                      *)
LimitInductive ==
  MaxHandlers > 0 =>
    Cardinality(Created) + Cardinality(Creating)
      <= MaxHandlers + Cardinality(Listeners) - 1

(* What listeners have read of an empty pool is 0. *)
EmptySeen ==
  Created = {} => \A l \in Listeners : seen[l].count <= 0 /\ seen[l].busy <= 0

PoolInv == ServerTypeOK /\ HandlersCounted /\ LimitInductive /\ EmptySeen /\ QueueHasHandler

(* The sets that are counted are finite. *)
LEMMA PoolFinite ==
  ASSUME ServerAssumption
  PROVE  /\ \A S \in SUBSET Listeners : IsFiniteSet(S) /\ Cardinality(S) \in Nat
         /\ \A S \in SUBSET Handlers : IsFiniteSet(S) /\ Cardinality(S) \in Nat
  BY FS_Subset, FS_CardinalityType DEF ServerAssumption

(* Type correctness of a step; busy is a natural number as it counts the   *)
(* handlers that are busy.                                                 *)
LEMMA ServerTypeStep ==
  ASSUME ServerAssumption, ServerTypeOK, HandlersCounted, [ServerNext]_serverVars PROVE ServerTypeOK'
<1> USE DEF ServerTypeOK
<1>1. ASSUME NEW l \in Listeners, NEW c \in Conns, Accept(l, c) PROVE ServerTypeOK'
  BY <1>1, AppendProperties DEF Accept, pool
<1>2. ASSUME NEW l \in Listeners, ReadCount(l) PROVE ServerTypeOK'
  BY <1>2 DEF ReadCount, pool
<1>3. ASSUME NEW l \in Listeners, ReadBusy(l) PROVE ServerTypeOK'
  BY <1>3 DEF ReadBusy, pool
<1>4. ASSUME NEW l \in Listeners, Decide(l) PROVE ServerTypeOK'
  BY <1>4 DEF Decide, Unread, pool
<1>5. ASSUME NEW l \in Listeners, CheckLimit(l) PROVE ServerTypeOK'
  BY <1>5 DEF CheckLimit, pool
<1>6. ASSUME NEW l \in Listeners, NEW h \in Handlers, CreateHandler(l, h) PROVE ServerTypeOK'
  BY <1>6 DEF CreateHandler
<1>7. ASSUME NEW l \in Listeners, CreateFails(l) PROVE ServerTypeOK'
  BY <1>7 DEF CreateFails, pool
<1>8. ASSUME NEW l \in Listeners, CountHandler(l) PROVE ServerTypeOK'
  BY <1>8 DEF CountHandler, pool
<1>9. ASSUME NEW h \in Handlers, Extract(h) PROVE ServerTypeOK'
  BY <1>9, HeadTailProperties DEF Extract, lists
<1>10. ASSUME NEW h \in Handlers, MarkBusy(h) PROVE ServerTypeOK'
  <2>1. served' \in [Conns -> Nat]
    <3>1. CASE serving[h] \in Conns
      BY <1>10, <3>1 DEF MarkBusy
    <3>2. CASE serving[h] \notin Conns
      <4>1. served' = served
        BY <1>10, <3>2 DEF MarkBusy
      <4> QED
        BY <4>1
    <3> QED
      BY <3>1, <3>2
  <2> QED
    BY <1>10, <2>1 DEF MarkBusy, lists
<1>11. ASSUME NEW h \in Handlers, Finish(h) PROVE ServerTypeOK'
  <2>1. Serving # {} /\ Serving \in SUBSET Handlers
    BY <1>11 DEF Finish, Serving
  <2>2. Cardinality(Serving) # 0 /\ Cardinality(Serving) \in Nat
    BY <2>1, PoolFinite, FS_EmptySet
  <2>3. busy - 1 \in Nat
    BY <2>2 DEF HandlersCounted
  <2> QED
    BY <1>11, <2>3 DEF Finish, lists
<1>12. CASE UNCHANGED serverVars
  BY <1>12 DEF serverVars, lists, pool
<1> QED
  BY <1>1, <1>2, <1>3, <1>4, <1>5, <1>6, <1>7, <1>8, <1>9, <1>10, <1>11, <1>12
     DEF ServerNext, ListenerRuns, HandlerRuns

(* A step that creates no handler and passes no listener through "create"  *)
(* or "count".                                                             *)
LEMMA QuietCounts ==
  ASSUME PoolInv, Created' = Created, Serving' = Serving, Counting' = Counting,
         Creating' = Creating, count' = count, busy' = busy
  PROVE  HandlersCounted' /\ LimitInductive'
  BY DEF PoolInv, HandlersCounted, LimitInductive

(* The counters and the limit.                                             *)
LEMMA CountsInductive ==
  ASSUME ServerAssumption, PoolInv, [ServerNext]_serverVars PROVE HandlersCounted' /\ LimitInductive'
<1> USE DEF ServerTypeOK
<1>t. ServerTypeOK /\ ServerTypeOK' /\ HandlersCounted /\ LimitInductive
  BY ServerTypeStep DEF PoolInv
<1>f. /\ IsFiniteSet(Created) /\ Cardinality(Created) \in Nat
      /\ IsFiniteSet(Serving) /\ Cardinality(Serving) \in Nat
      /\ IsFiniteSet(Counting) /\ Cardinality(Counting) \in Nat
      /\ IsFiniteSet(Creating) /\ Cardinality(Creating) \in Nat
      /\ IsFiniteSet(Listeners) /\ Cardinality(Listeners) \in Nat
  BY PoolFinite DEF Created, Serving, Counting, Creating
<1> DEFINE Goal == HandlersCounted' /\ LimitInductive'
<1>1. ASSUME NEW l \in Listeners, NEW c \in Conns, Accept(l, c) PROVE Goal
  BY <1>1, <1>t, QuietCounts DEF Accept, pool, Created, Serving, Counting, Creating
<1>2. ASSUME NEW l \in Listeners, ReadCount(l) \/ ReadBusy(l) PROVE Goal
  BY <1>2, QuietCounts DEF ReadCount, ReadBusy, pool, Created, Serving, Counting, Creating
<1>4. ASSUME NEW l \in Listeners, Decide(l) PROVE Goal
  BY <1>4, <1>t, QuietCounts DEF Decide, pool, Created, Serving, Counting, Creating
<1>5. ASSUME NEW l \in Listeners, CheckLimit(l) PROVE Goal
  <2>1. /\ Created' = Created /\ Serving' = Serving /\ Counting' = Counting
        /\ count' = count /\ busy' = busy /\ l \notin Counting /\ l \notin Creating
    BY <1>5, <1>t DEF CheckLimit, pool, Created, Serving, Counting, Creating
  <2>2. HandlersCounted'
    BY <1>t, <2>1 DEF HandlersCounted
  <2>3. CASE MaxHandlers = 0
    BY <2>2, <2>3 DEF LimitInductive
  <2>4. CASE MaxHandlers # 0 /\ ~(count < MaxHandlers)
    <3>1. Creating' = Creating
      BY <1>5, <1>t, <2>4 DEF CheckLimit, Creating
    <3> QED
      BY <1>t, <2>1, <2>2, <3>1 DEF LimitInductive
  <2>5. CASE MaxHandlers # 0 /\ count < MaxHandlers
    <3>1. Creating' = Creating \cup {l}
      BY <1>5, <1>t, <2>5 DEF CheckLimit, Creating
    <3>2. Cardinality(Creating') = Cardinality(Creating) + 1
      BY <1>f, <2>1, <3>1, FS_AddElement
    <3> DEFINE past == Counting \cup (Creating \cup {l})
    <3>3. Cardinality(Counting) + Cardinality(Creating') <= Cardinality(Listeners)
      <4>1. Counting \cap Creating' = {} /\ Counting \cup Creating' \subseteq Listeners
        BY <2>1, <3>1 DEF Counting, Creating
      <4>2. IsFiniteSet(Creating')
        BY <1>f, <3>1, FS_AddElement
      <4>3. /\ Cardinality(Counting \cup Creating')
               = Cardinality(Counting) + Cardinality(Creating')
                   - Cardinality(Counting \cap Creating')
        BY <1>f, <4>2, FS_Union
      <4>4. Cardinality(Counting \cup Creating') <= Cardinality(Listeners)
        BY <1>f, <4>1, FS_Subset
      <4>5. Cardinality(Counting \cap Creating') = 0
        BY <4>1, FS_EmptySet
      <4> QED
        BY <1>f, <3>2, <4>3, <4>4, <4>5
    <3>4. Cardinality(Created) <= MaxHandlers - 1 + Cardinality(Counting)
      BY <1>t, <1>f, <2>5, ServerAssumption DEF HandlersCounted, ServerAssumption
    <3>5. LimitInductive'
      BY <1>f, <2>1, <3>2, <3>3, <3>4, ServerAssumption
         DEF LimitInductive, ServerAssumption
    <3> QED
      BY <2>2, <3>5
  <2> QED
    BY <2>2, <2>3, <2>4, <2>5
<1>6. ASSUME NEW l \in Listeners, NEW h \in Handlers, CreateHandler(l, h) PROVE Goal
  <2>1. /\ Created' = Created \cup {h} /\ h \notin Created /\ Serving' = Serving
        /\ Counting' = Counting \cup {l} /\ l \notin Counting
        /\ Creating' = Creating \ {l} /\ l \in Creating
        /\ count' = count /\ busy' = busy
    BY <1>6, <1>t DEF CreateHandler, Created, Serving, Counting, Creating
  <2>2. /\ Cardinality(Created') = Cardinality(Created) + 1
        /\ Cardinality(Counting') = Cardinality(Counting) + 1
        /\ Cardinality(Creating') = Cardinality(Creating) - 1
    BY <1>f, <2>1, FS_AddElement, FS_RemoveElement
  <2>3. HandlersCounted'
    BY <1>t, <1>f, <2>1, <2>2 DEF HandlersCounted
  <2>4. LimitInductive'
    BY <1>t, <1>f, <2>1, <2>2, ServerAssumption DEF LimitInductive, ServerAssumption
  <2> QED
    BY <2>3, <2>4
<1>7. ASSUME NEW l \in Listeners, CreateFails(l) PROVE Goal
  <2>1. /\ Created' = Created /\ Serving' = Serving /\ Counting' = Counting
        /\ Creating' = Creating \ {l} /\ l \in Creating
        /\ count' = count /\ busy' = busy
    BY <1>7, <1>t DEF CreateFails, pool, Created, Serving, Counting, Creating
  <2>2. Cardinality(Creating') = Cardinality(Creating) - 1
    BY <1>f, <2>1, FS_RemoveElement
  <2> QED
    BY <1>t, <1>f, <2>1, <2>2, ServerAssumption
       DEF HandlersCounted, LimitInductive, ServerAssumption
<1>8. ASSUME NEW l \in Listeners, CountHandler(l) PROVE Goal
  <2>1. /\ Created' = Created /\ Serving' = Serving /\ Creating' = Creating
        /\ Counting' = Counting \ {l} /\ l \in Counting
        /\ count' = count + 1 /\ busy' = busy
    BY <1>8, <1>t DEF CountHandler, pool, Created, Serving, Counting, Creating
  <2>2. Cardinality(Counting') = Cardinality(Counting) - 1
    BY <1>f, <2>1, FS_RemoveElement
  <2> QED
    BY <1>t, <1>f, <2>1, <2>2 DEF HandlersCounted, LimitInductive
<1>9. ASSUME NEW h \in Handlers, Extract(h) PROVE Goal
  BY <1>9, <1>t, QuietCounts DEF Extract, lists, Created, Serving, Counting, Creating
<1>10. ASSUME NEW h \in Handlers, MarkBusy(h) PROVE Goal
  <2>1. /\ Created' = Created /\ Serving' = Serving \cup {h} /\ h \notin Serving
        /\ Counting' = Counting /\ Creating' = Creating
        /\ count' = count /\ busy' = busy + 1
    BY <1>10, <1>t DEF MarkBusy, lists, Created, Serving, Counting, Creating
  <2>2. Cardinality(Serving') = Cardinality(Serving) + 1
    BY <1>f, <2>1, FS_AddElement
  <2> QED
    BY <1>t, <1>f, <2>1, <2>2 DEF HandlersCounted, LimitInductive
<1>11. ASSUME NEW h \in Handlers, Finish(h) PROVE Goal
  <2>1. /\ Created' = Created /\ Serving' = Serving \ {h} /\ h \in Serving
        /\ Counting' = Counting /\ Creating' = Creating
        /\ count' = count /\ busy' = busy - 1
    BY <1>11, <1>t DEF Finish, lists, Created, Serving, Counting, Creating
  <2>2. Cardinality(Serving') = Cardinality(Serving) - 1
    BY <1>f, <2>1, FS_RemoveElement
  <2> QED
    BY <1>t, <1>f, <2>1, <2>2 DEF HandlersCounted, LimitInductive
<1>12. CASE UNCHANGED serverVars
  BY <1>12, QuietCounts DEF serverVars, lists, pool, Created, Serving, Counting, Creating
<1> QED
  BY <1>1, <1>2, <1>4, <1>5, <1>6, <1>7, <1>8, <1>9, <1>10, <1>11, <1>12
     DEF ServerNext, ListenerRuns, HandlerRuns

(* A queue always has somebody who will come to it: what a listener read   *)
(* of an empty pool leads it to "create".                                  *)
LEMMA QueueInductive ==
  ASSUME ServerAssumption, PoolInv, [ServerNext]_serverVars
  PROVE  EmptySeen' /\ QueueHasHandler'
<1> USE DEF ServerTypeOK
<1>t. ServerTypeOK /\ ServerTypeOK' /\ HandlersCounted /\ EmptySeen /\ QueueHasHandler
  BY ServerTypeStep DEF PoolInv
<1>0. Created = {} => count = 0 /\ busy = 0
  <2>1. Created = {} => Serving = {} /\ Cardinality(Created) = 0
    BY FS_EmptySet DEF Created, Serving
  <2>2. Serving = {} => busy = 0
    BY <1>t, FS_EmptySet DEF HandlersCounted
  <2>3. Cardinality(Counting) \in Nat
    BY PoolFinite DEF Counting
  <2> QED
    BY <1>t, <2>1, <2>2, <2>3 DEF HandlersCounted
<1>1. Created \subseteq Created'
  BY <1>t DEF Created, ServerNext, ListenerRuns, HandlerRuns, Accept, ReadCount, ReadBusy,
     Decide, CheckLimit, CreateHandler, CreateFails, CountHandler, Extract, MarkBusy,
     Finish, serverVars, lists, pool
<1>2. CASE Created' # {}
  BY <1>2 DEF EmptySeen, QueueHasHandler
<1>3. CASE Created' = {}
  <2>0. Created = {} /\ count = 0 /\ busy = 0
    BY <1>0, <1>1, <1>3
  <2>h. \A h \in Handlers : handler[h] = "none"
    BY <2>0 DEF Created
  <2>s. \A l \in Listeners : seen[l].count <= 0 /\ seen[l].busy <= 0
    BY <1>t, <2>0 DEF EmptySeen
  <2>q. connList # <<>> /\ ~refused => Deciding # {}
    BY <1>t, <2>0 DEF QueueHasHandler
  <2> DEFINE Goal == EmptySeen' /\ QueueHasHandler'
  <2>1. ASSUME NEW l \in Listeners, NEW c \in Conns, Accept(l, c) PROVE Goal
    <3>1. l \in Deciding'
      BY <2>1, <1>t DEF Accept, Deciding
    <3> QED
      BY <2>1, <2>s, <3>1 DEF Accept, EmptySeen, QueueHasHandler
  <2>2. ASSUME NEW l \in Listeners, ReadCount(l) \/ ReadBusy(l) PROVE Goal
    <3>1. Deciding' = Deciding /\ connList' = connList /\ refused' = refused
      BY <2>2 DEF ReadCount, ReadBusy, Deciding
    <3>2. seen' = [seen EXCEPT ![l] = seen'[l]]
      BY <2>2, <1>t DEF ReadCount, ReadBusy
    <3>3. ASSUME ReadCount(l) PROVE EmptySeen'
      <4>1. seen'[l] = [seen[l] EXCEPT !.count = 0]
        BY <3>3, <2>0, <1>t DEF ReadCount
      <4>2. seen[l] \in [count : Nat \cup {-1}, busy : Nat \cup {-1}]
        BY <1>t
      <4>3. seen'[l].count = 0 /\ seen'[l].busy = seen[l].busy
        BY <4>1, <4>2
      <4>4. seen'[l].count <= 0 /\ seen'[l].busy <= 0
        BY <2>s, <4>3
      <4>5. \A x \in Listeners \ {l} : seen'[x] = seen[x]
        BY <3>2, <1>t
      <4>6. \A x \in Listeners : seen'[x].count <= 0 /\ seen'[x].busy <= 0
        BY <2>s, <4>4, <4>5
      <4> QED
        BY <4>6 DEF EmptySeen
    <3>4. ASSUME ReadBusy(l) PROVE EmptySeen'
      <4>1. seen'[l] = [seen[l] EXCEPT !.busy = 0]
        BY <3>4, <2>0, <1>t DEF ReadBusy
      <4>2. seen[l] \in [count : Nat \cup {-1}, busy : Nat \cup {-1}]
        BY <1>t
      <4>3. seen'[l].busy = 0 /\ seen'[l].count = seen[l].count
        BY <4>1, <4>2
      <4>4. seen'[l].count <= 0 /\ seen'[l].busy <= 0
        BY <2>s, <4>3
      <4>5. \A x \in Listeners \ {l} : seen'[x] = seen[x]
        BY <3>2, <1>t
      <4>6. \A x \in Listeners : seen'[x].count <= 0 /\ seen'[x].busy <= 0
        BY <2>s, <4>4, <4>5
      <4> QED
        BY <4>6 DEF EmptySeen
    <3>5. EmptySeen'
      BY <2>2, <3>3, <3>4
    <3> QED
      BY <2>q, <3>1, <3>5 DEF QueueHasHandler
  <2>3. ASSUME NEW l \in Listeners, Decide(l) PROVE Goal
    <3>1. seen[l].count = 0 /\ seen[l].busy = 0
      BY <2>3, <2>s, <1>t DEF Decide
    <3>2. ~FoundFree(l)
      BY <3>1, ServerAssumption DEF FoundFree, ServerAssumption
    <3>3. l \in Deciding'
      BY <2>3, <3>2, <1>t DEF Decide, Deciding
    <3>4. EmptySeen'
      BY <2>3, <2>s, <1>t DEF Decide, EmptySeen, Unread
    <3> QED
      BY <3>3, <3>4 DEF QueueHasHandler
  <2>4. ASSUME NEW l \in Listeners, CheckLimit(l) PROVE Goal
    <3>1. l \in Deciding'
      BY <2>4, <2>0, <1>t, ServerAssumption DEF CheckLimit, Deciding, ServerAssumption
    <3>2. EmptySeen'
      BY <2>4, <2>s DEF CheckLimit, EmptySeen
    <3> QED
      BY <3>1, <3>2 DEF QueueHasHandler
  <2>5. ASSUME NEW l \in Listeners, NEW h \in Handlers, CreateHandler(l, h) PROVE Goal
    <3>1. h \in Created'
      BY <2>5, <1>t DEF CreateHandler, Created
    <3> QED
      BY <1>3, <3>1
  <2>6. ASSUME NEW l \in Listeners, CreateFails(l) PROVE Goal
    BY <2>6, <2>s DEF CreateFails, EmptySeen, QueueHasHandler
  <2>7. ASSUME NEW l \in Listeners, CountHandler(l) PROVE Goal
    <3>1. l \in Counting
      BY <2>7 DEF CountHandler, Counting
    <3>2. Cardinality(Counting) \in Nat /\ Cardinality(Counting) # 0
      BY <3>1, PoolFinite, FS_EmptySet DEF Counting
    <3>3. Cardinality(Created) = 0
      BY <2>0, FS_EmptySet
    <3> QED
      BY <2>0, <3>2, <3>3, <1>t DEF HandlersCounted
  <2>8. ASSUME NEW h \in Handlers, HandlerRuns(h) PROVE Goal
    BY <2>8, <2>h DEF HandlerRuns, Extract, MarkBusy, Finish
  <2>9. CASE UNCHANGED serverVars
    BY <2>9, <2>s, <2>q DEF serverVars, lists, pool, EmptySeen, QueueHasHandler, Deciding
  <2> QED
    BY <2>1, <2>2, <2>3, <2>4, <2>5, <2>6, <2>7, <2>8, <2>9 DEF ServerNext, ListenerRuns
<1> QED
  BY <1>2, <1>3

(* Nothing is created and nothing read when the server starts.             *)
LEMMA PoolFirst == ASSUME ServerAssumption, ServerInit PROVE PoolInv
<1>1. /\ Created = {} /\ Serving = {} /\ Counting = {} /\ Creating = {}
  BY DEF ServerInit, Created, Serving, Counting, Creating
<1>2. ServerTypeOK
  <2>1. Unread \in [count : Nat \cup {-1}, busy : Nat \cup {-1}]
    BY DEF Unread
  <2>2. connList \in Seq(Conns)
    BY EmptySeq DEF ServerInit
  <2> QED
    BY <2>1, <2>2 DEF ServerInit, ServerTypeOK
<1>3. HandlersCounted
  BY <1>1, FS_EmptySet DEF ServerInit, HandlersCounted
<1>4. LimitInductive
  <2>1. Cardinality(Listeners) \in Nat /\ Cardinality({}) = 0
    BY PoolFinite, FS_EmptySet
  <2>2. MaxHandlers \in Nat
    BY DEF ServerAssumption
  <2> QED
    BY <1>1, <2>1, <2>2 DEF LimitInductive
<1>5. EmptySeen /\ QueueHasHandler
  BY DEF ServerInit, EmptySeen, Unread, QueueHasHandler
<1> QED
  BY <1>2, <1>3, <1>4, <1>5 DEF PoolInv

(* Every step keeps the pool's invariant. *)
LEMMA PoolStep == ASSUME ServerAssumption, PoolInv, [ServerNext]_serverVars PROVE PoolInv'
  BY ServerTypeStep, CountsInductive, QueueInductive DEF PoolInv


(* It holds always. *)
LEMMA PoolAlways == ServerSpec => []PoolInv
  BY ServerAssumption, PoolFirst, PoolStep, PTL DEF ServerSpec

(* The variables of the pool keep their types; in particular handlers_busy *)
(* never goes below 0 (tcp_server.cpp:125-130).                            *)
THEOREM ServerTyped == ServerSpec => []ServerTypeOK
  BY PoolAlways, PTL DEF PoolInv

(* handlers_count is the number of handlers but for those about to be      *)
(* counted, handlers_busy that of the handlers in process_tcp.             *)
THEOREM AlwaysCounted == ServerSpec => []HandlersCounted
  BY PoolAlways, PTL DEF PoolInv

(* The check of the limit (tcp_server.cpp:305) lets the listeners exceed   *)
(* it by at most one handler for each listener but the first.              *)
THEOREM LimitAlwaysKept == ServerSpec => []LimitKept
<1>1. PoolInv => LimitKept
  <2>1. Cardinality(Created) \in Nat /\ Cardinality(Creating) \in Nat
    BY PoolFinite, ServerAssumption DEF Created, Creating
  <2>2. Cardinality(Listeners) \in Nat /\ MaxHandlers \in Nat
    BY PoolFinite, ServerAssumption DEF ServerAssumption
  <2> QED
    BY <2>1, <2>2 DEF PoolInv, LimitInductive, LimitKept
<1> QED
  BY <1>1, PoolAlways, PTL

(* A connection in conn_list has a handler, or a listener that may still   *)
(* create one (tcp_server.cpp:302-307), unless pthread_create has failed.  *)
THEOREM QueueAlwaysHasHandler == ServerSpec => []QueueHasHandler
  BY PoolAlways, PTL DEF PoolInv
==============================================================================
