------------------------- MODULE DialogServer_proofs --------------------------
(***************************************************************************)
(* What holds of the dialog server for every set of sockets, descriptors   *)
(* and handlers.                                                           *)
(***************************************************************************)
EXTENDS DialogServer, SequenceTheorems, FiniteSetTheorems, TLAPS

(* A descriptor is the connection of the socket that has it, and of no     *)
(* other.                                                                  *)
Owned ==
  /\ \A s \in Socks : stage[s] = "new" => sock[s] = NoFd /\ recv0[s] = 0
  /\ \A s \in Socks, f \in Fds : sock[s] = f <=> kernel[f] = s

(* A socket is closed with the empty read that is one too many.            *)
ReadsBounded == \A s \in Socks : recv0[s] > ZeroReads => sock[s] = NoFd

(* A handler processes commands of the socket it took.                     *)
RunningServes == \A h \in running : serving[h] # Nobody

ConnInv == TypeOK /\ Owned /\ ReadsBounded /\ RunningServes

(* Closing a socket gives back its descriptor.                             *)
LEMMA ClosedProperties ==
  ASSUME DialogAssumption, ConnInv, NEW s \in Socks, Closed(s)
  PROVE  /\ kernel' \in [Fds -> Socks \cup {Nobody}] /\ sock' \in [Socks -> Slots]
         /\ sock'[s] = NoFd
         /\ \A t \in Socks : t # s => sock'[t] = sock[t]
         /\ \A t \in Socks, f \in Fds : sock'[t] = f <=> kernel'[f] = t
  BY DEF ConnInv, TypeOK, Owned, DialogAssumption, Closed, Slots

(* What the selector does to a socket it gives up.                         *)
LEMMA DeleteProperties ==
  ASSUME DialogAssumption, ConnInv, NEW f \in Fds, ccc[f] # Nobody, Delete(f)
  PROVE  /\ ccc[f] \in Socks
         /\ deleted' = [deleted EXCEPT ![ccc[f]] = @ + 1]
         /\ deleted' \in [Socks -> Nat]
         /\ ccc' = [g \in Slots |-> IF g = f THEN Nobody ELSE ccc[g]]
         /\ ccc' \in [Slots -> Socks \cup {Nobody}]
         /\ UNCHANGED <<stage, peer, sent, inbox>>
         /\ kernel' \in [Fds -> Socks \cup {Nobody}] /\ sock' \in [Socks -> Slots]
         /\ sock'[ccc[f]] = NoFd
         /\ \A t \in Socks : t # ccc[f] => sock'[t] = sock[t]
         /\ \A t \in Socks, g \in Fds : sock'[t] = g <=> kernel'[g] = t
<1>1. ccc[f] \in Socks
  BY DEF ConnInv, TypeOK, Slots
<1>2. Closed(ccc[f])
  BY DEF Delete
<1>3. ccc' = [g \in Slots |-> IF g = f THEN Nobody ELSE ccc[g]]
  BY DEF Delete, Forget
<1>4. ccc' \in [Slots -> Socks \cup {Nobody}]
  BY <1>3 DEF ConnInv, TypeOK
<1>5. deleted' = [deleted EXCEPT ![ccc[f]] = @ + 1] /\ deleted' \in [Socks -> Nat]
  BY <1>1 DEF ConnInv, TypeOK, Delete
<1>6. UNCHANGED <<stage, peer, sent, inbox>>
  BY <1>2 DEF Closed
<1> QED
  BY <1>1, <1>2, <1>3, <1>4, <1>5, <1>6, ClosedProperties

(* A socket the selector finds under its own descriptor is connected.      *)
LEMMA ReadableSocket ==
  ASSUME DialogAssumption, ConnInv, NEW f \in Fds, Readable(f)
  PROVE  ccc[f] \in Socks /\ sock[ccc[f]] = f /\ kernel[f] = ccc[f]
  BY DEF ConnInv, TypeOK, Owned, Readable, Stale, Slots

(* A set of numbers that is not empty has a least one.                     *)
LEMMA LeastNumber ==
  ASSUME NEW T \in SUBSET Nat, T # {}
  PROVE  \E m \in T : \A n \in T : m <= n
<1> DEFINE U == {0..n : n \in T}
<1>1. U \subseteq FiniteSubsetsOf(Nat)
  <2>1. ASSUME NEW n \in T PROVE 0..n \subseteq Nat /\ IsFiniteSet(0..n)
    BY FS_Interval
  <2> QED
    BY <2>1 DEF FiniteSubsetsOf
<1>2. U # {}
  OBVIOUS
<1>3. PICK u \in U : \A v \in U : ~(<<v, u>> \in StrictSubsetOrdering(Nat))
  BY <1>1, <1>2, FS_StrictSubsetOrderingWellFounded, WFMin
<1>4. PICK m \in T : u = 0..m
  OBVIOUS
<1>5. ASSUME NEW n \in T PROVE m <= n
  <2>1. ASSUME n < m PROVE FALSE
    <3>1. 0..n \subseteq 0..m /\ m \in 0..m /\ m \notin 0..n
      BY <2>1
    <3>2. <<0..n, 0..m>> \in StrictSubsetOrdering(Nat)
      BY <3>1 DEF StrictSubsetOrdering
    <3> QED
      BY <1>3, <1>4, <3>2
  <2> QED
    BY <2>1
<1> QED
  BY <1>5

(* The end of the first line of a buffer: a place of it, with none before. *)
LEMMA FirstLineEnd ==
  ASSUME ConnInv, NEW s \in Socks, HasLine(s)
  PROVE  /\ LineEnd(s) \in 1..Len(rdBuf[s])
         /\ EndsLine(s, LineEnd(s))
         /\ \A j \in 1..(LineEnd(s) - 1) : ~EndsLine(s, j)
<1> DEFINE T == {i \in 1..Len(rdBuf[s]) : EndsLine(s, i)}
<1>1. rdBuf[s] \in Seq(Char) /\ Len(rdBuf[s]) \in Nat
  BY DEF ConnInv, TypeOK
<1>2. T \in SUBSET Nat /\ T # {}
  BY <1>1 DEF HasLine
<1>3. PICK m \in T : \A n \in T : m <= n
  BY <1>2, LeastNumber
<1>4. /\ m \in 1..Len(rdBuf[s]) /\ EndsLine(s, m)
      /\ \A j \in 1..(m - 1) : ~EndsLine(s, j)
  BY <1>1, <1>3
<1> QED
  BY <1>4 DEF LineEnd

(* Taking a line from a buffer leaves a buffer.                            *)
LEMMA LineTaken ==
  ASSUME ConnInv, NEW s \in Socks
  PROVE  LET rest == SubSeq(rdBuf[s], LineEnd(s) + 1, Len(rdBuf[s])) IN
         /\ LineEnd(s) \in 0..Len(rdBuf[s])
         /\ rest \in Seq(Char)
         /\ Len(rest) = Len(rdBuf[s]) - LineEnd(s)
         /\ \A i \in 1..Len(rest) : rest[i] = rdBuf[s][LineEnd(s) + i]
         /\ ~HasLine(s) => rest = rdBuf[s]
<1> DEFINE b == rdBuf[s]
           rest == SubSeq(b, LineEnd(s) + 1, Len(b))
<1>1. b \in Seq(Char) /\ Len(b) \in Nat
  BY DEF ConnInv, TypeOK
<1>2. LineEnd(s) \in 0..Len(b)
  <2>1. CASE HasLine(s)
    BY <1>1, <2>1, FirstLineEnd
  <2>2. CASE ~HasLine(s)
    BY <1>1, <2>2 DEF LineEnd
  <2> QED
    BY <2>1, <2>2
<1>3. LineEnd(s) + 1 \in 1..(Len(b) + 1)
  BY <1>1, <1>2
<1>4. /\ rest \in Seq(Char)
      /\ Len(rest) = Len(b) - LineEnd(s)
      /\ \A i \in 1..Len(rest) : rest[i] = b[LineEnd(s) + i]
  BY <1>1, <1>2, <1>3, SubSeqProperties
<1>5. ASSUME ~HasLine(s) PROVE rest = b
  <2>1. LineEnd(s) = 0
    BY <1>5 DEF LineEnd
  <2> QED
    BY <1>1, <2>1, SubSeqFull
<1> QED
  BY <1>2, <1>4, <1>5

(* The initial state.                                                      *)
LEMMA ConnInit ==
  ASSUME DialogAssumption, Init PROVE ConnInv
  BY EmptySeq DEF DialogAssumption, Init, ConnInv, TypeOK, Owned, ReadsBounded,
                  RunningServes, Slots

(* Type correctness of a step.                                             *)
LEMMA TypeInductive ==
  ASSUME DialogAssumption, ConnInv, [Next]_vars PROVE TypeOK'
<1>t. TypeOK
  BY DEF ConnInv
<1>z. ZeroReads \in Nat /\ \A i \in 0..ZeroReads : i + 1 \in 0..(ZeroReads + 1)
  BY DEF DialogAssumption
<1> USE DEF TypeOK
<1>1. ASSUME NEW s \in Socks, NEW f \in Fds, Accept(s, f) PROVE TypeOK'
  BY <1>1, <1>t DEF Accept, bufs, selector, workers, Slots
<1>2. ASSUME NEW s \in Socks, Enqueue(s) PROVE TypeOK'
  BY <1>2, <1>t, AppendProperties DEF Enqueue, bufs, selector, workers
<1>3. ASSUME NEW s \in Socks, NEW ch \in {"text", "eol"}, Send(s, ch) PROVE TypeOK'
  <2>1. [from |-> s, ch |-> ch] \in Char
    BY DEF Char
  <2>2. inbox' \in [Socks -> Seq(Char)]
    BY <1>3, <1>t, <2>1, AppendProperties DEF Send
  <2>3. sent' \in [Socks -> Nat]
    <3>1. sent' = [sent EXCEPT ![s] = @ + 1]
      BY <1>3 DEF Send
    <3> QED
      BY <1>t, <3>1
  <2> QED
    BY <1>3, <1>t, <2>2, <2>3 DEF Send, bufs, selector, workers
<1>4. ASSUME NEW s \in Socks, NEW how \in {"closed", "broken"}, Leave(s, how)
      PROVE  TypeOK'
  BY <1>4, <1>t DEF Leave, bufs, selector, workers
<1>5. ASSUME NEW s \in Socks, Disconnect(s) PROVE TypeOK'
  <2>1. /\ kernel' \in [Fds -> Socks \cup {Nobody}] /\ sock' \in [Socks -> Slots]
    BY <1>5, ClosedProperties DEF Disconnect
  <2>2. UNCHANGED <<stage, peer, sent, inbox>>
    BY <1>5 DEF Disconnect, Closed
  <2> QED
    BY <1>5, <1>t, <2>1, <2>2 DEF Disconnect, bufs, selector, workers
<1>6. ASSUME TakeAccepted PROVE TypeOK'
  BY <1>6, <1>t, EmptySeq DEF TakeAccepted, net, bufs, workers
<1>7. ASSUME Insert PROVE TypeOK'
  <2>1. Head(batch) \in Socks /\ Tail(batch) \in Seq(Socks)
    BY <1>7, <1>t, HeadTailProperties DEF Insert
  <2>2. ccc' \in [Slots -> Socks \cup {Nobody}]
    BY <1>7, <1>t, <2>1 DEF Insert
  <2> QED
    BY <1>7, <1>t, <2>1, <2>2 DEF Insert, net, bufs, workers
<1>8. ASSUME CleanUp PROVE TypeOK'
  <2>1. deleted' \in [Socks -> Nat]
    BY <1>8, <1>t DEF CleanUp
  <2>2. ccc' \in [Slots -> Socks \cup {Nobody}]
    BY <1>8, <1>t DEF CleanUp, Forget
  <2> QED
    BY <1>8, <1>t, <2>1, <2>2 DEF CleanUp, net, bufs, workers
<1>9. ASSUME SkipCleanUp PROVE TypeOK'
  BY <1>9, <1>t DEF SkipCleanUp, net, bufs, workers
<1>10. ASSUME Poll PROVE TypeOK'
  <2>1. \A f \in Fds : Answer(f) \subseteq Events
    BY DEF Answer, Events
  <2>2. todo' \in [Fds -> SUBSET Events]
    BY <1>10, <2>1 DEF Poll
  <2> QED
    BY <1>10, <1>t, <2>2 DEF Poll, net, bufs, workers
<1>11. ASSUME QueueReadable PROVE TypeOK'
  BY <1>11, <1>t, AppendProperties DEF QueueReadable, net, bufs, workers
<1>12. ASSUME EndRound PROVE TypeOK'
  BY <1>12, <1>t DEF EndRound, net, bufs, workers
<1>13. ASSUME NEW f \in Fds, ReadStale(f) PROVE TypeOK'
  BY <1>13, <1>t DEF ReadStale, Forget, net, bufs, workers
<1>14. ASSUME NEW f \in Fds, ReadData(f) PROVE TypeOK'
  <2> DEFINE s == ccc[f]
  <2>1. s \in Socks /\ kernel[f] = s
    BY <1>14, ReadableSocket DEF ReadData
  <2>2. rdBuf[s] \o inbox[s] \in Seq(Char) /\ <<>> \in Seq(Char)
    BY <1>t, <2>1, ConcatProperties, EmptySeq
  <2>3. rdBuf' = [rdBuf EXCEPT ![s] = rdBuf[s] \o inbox[s]]
    BY <1>14, <2>1 DEF ReadData
  <2>4. inbox' = [inbox EXCEPT ![s] = <<>>]
    BY <1>14, <2>1 DEF ReadData
  <2>5. rdBuf' \in [Socks -> Seq(Char)] /\ inbox' \in [Socks -> Seq(Char)]
    BY <1>t, <2>1, <2>2, <2>3, <2>4
  <2>6. recv0' \in [Socks -> 0..(ZeroReads + 1)]
    <3>1. recv0' = [recv0 EXCEPT ![s] = 0] /\ 0 \in 0..(ZeroReads + 1)
      BY <1>14, <1>z DEF ReadData
    <3> QED
      BY <1>t, <3>1
  <2>7. fresh' \in Socks /\ todo' \in [Fds -> SUBSET Events]
    BY <1>14, <1>t, <2>1 DEF ReadData
  <2> QED
    BY <1>14, <1>t, <2>5, <2>6, <2>7 DEF ReadData, workers
<1>15. ASSUME NEW f \in Fds, ReadEnd(f) PROVE TypeOK'
  <2> DEFINE s == ccc[f]
  <2>1. s \in Socks /\ s # Nobody /\ sock[s] # NoFd
    BY <1>15, ReadableSocket DEF ReadEnd, DialogAssumption
  <2>r. ReadsBounded
    BY DEF ConnInv
  <2>2. recv0[s] \in 0..ZeroReads
    BY <1>t, <1>z, <2>r, <2>1 DEF ReadsBounded
  <2>3. recv0' \in [Socks -> 0..(ZeroReads + 1)]
    <3>1. recv0' = [recv0 EXCEPT ![s] = @ + 1]
      BY <1>15 DEF ReadEnd
    <3> QED
      BY <1>t, <1>z, <2>1, <2>2, <3>1
  <2>4. todo' \in [Fds -> SUBSET Events]
    BY <1>15, <1>t DEF ReadEnd
  <2>5. CASE recv0[s] + 1 > ZeroReads
    <3>1. Delete(f)
      BY <1>15, <2>5 DEF ReadEnd
    <3>2. /\ deleted' \in [Socks -> Nat] /\ ccc' \in [Slots -> Socks \cup {Nobody}]
          /\ kernel' \in [Fds -> Socks \cup {Nobody}] /\ sock' \in [Socks -> Slots]
          /\ UNCHANGED <<stage, peer, sent, inbox>>
      BY <2>1, <3>1, DeleteProperties
    <3> QED
      BY <1>15, <1>t, <2>1, <2>3, <2>4, <3>2 DEF ReadEnd, workers
  <2>6. CASE ~(recv0[s] + 1 > ZeroReads)
    BY <1>15, <1>t, <2>3, <2>4, <2>6 DEF ReadEnd, net, workers
  <2> QED
    BY <2>5, <2>6
<1>16. ASSUME NEW f \in Fds, ReadFails(f) PROVE TypeOK'
  <2>1. ccc[f] # Nobody
    BY <1>16, ReadableSocket DEF ReadFails, DialogAssumption
  <2>2. todo' \in [Fds -> SUBSET Events]
    BY <1>16, <1>t DEF ReadFails
  <2>3. CASE peer[kernel[f]] = "broken"
    <3>1. Delete(f)
      BY <1>16, <2>3 DEF ReadFails
    <3>2. /\ deleted' \in [Socks -> Nat] /\ ccc' \in [Slots -> Socks \cup {Nobody}]
          /\ kernel' \in [Fds -> Socks \cup {Nobody}] /\ sock' \in [Socks -> Slots]
          /\ UNCHANGED <<stage, peer, sent, inbox>>
      BY <2>1, <3>1, DeleteProperties
    <3> QED
      BY <1>16, <1>t, <2>1, <2>2, <3>2 DEF ReadFails, bufs, workers
  <2>4. CASE peer[kernel[f]] # "broken"
    BY <1>16, <1>t, <2>2, <2>4 DEF ReadFails, net, bufs, workers
  <2> QED
    BY <2>3, <2>4
<1>17. ASSUME NEW f \in Fds, HandleError(f) PROVE TypeOK'
  <2>1. todo' \in [Fds -> SUBSET Events]
    BY <1>17, <1>t DEF HandleError
  <2>2. CASE ccc[f] # Nobody
    <3>1. Delete(f)
      BY <1>17, <2>2 DEF HandleError
    <3>2. /\ deleted' \in [Socks -> Nat] /\ ccc' \in [Slots -> Socks \cup {Nobody}]
          /\ kernel' \in [Fds -> Socks \cup {Nobody}] /\ sock' \in [Socks -> Slots]
          /\ UNCHANGED <<stage, peer, sent, inbox>>
      BY <2>2, <3>1, DeleteProperties
    <3> QED
      BY <1>17, <1>t, <2>1, <2>2, <3>2 DEF HandleError, bufs, workers
  <2>3. CASE ccc[f] = Nobody
    BY <1>17, <1>t, <2>1, <2>3 DEF HandleError, net, bufs, workers
  <2> QED
    BY <2>2, <2>3
<1>18. ASSUME NEW h \in Handlers, TakeReadable(h) PROVE TypeOK'
  BY <1>18, <1>t, HeadTailProperties DEF TakeReadable, net, bufs, selector
<1>19. ASSUME NEW h \in Handlers, ExtractCommand(h) PROVE TypeOK'
  <2>1. serving[h] \in Socks
    BY <1>19, <1>t DEF ExtractCommand
  <2>2. rdBuf' \in [Socks -> Seq(Char)]
    BY <1>19, <1>t, <2>1, LineTaken DEF ExtractCommand
  <2> QED
    BY <1>19, <1>t, <2>2 DEF ExtractCommand, net, selector
<1>20. ASSUME NEW h \in Handlers, NoCommand(h) PROVE TypeOK'
  <2>1. serving[h] \in Socks
    BY <1>20, <1>t DEF NoCommand
  <2>2. rdBuf' \in [Socks -> Seq(Char)]
    BY <1>20, <1>t, <2>1, LineTaken DEF NoCommand
  <2>3. serving' \in [Handlers -> Socks \cup {Nobody}] /\ stopped' \subseteq Socks
    BY <1>20, <1>t, <2>1 DEF NoCommand
  <2> QED
    BY <1>20, <1>t, <2>2, <2>3 DEF NoCommand, net, selector
<1>21. ASSUME NEW h \in Handlers, CommandReturns(h) PROVE TypeOK'
  BY <1>21, <1>t DEF CommandReturns, net, bufs, selector
<1>22. ASSUME NEW h \in Handlers, CommandThrows(h) PROVE TypeOK'
  <2>1. serving[h] \in Socks
    BY <1>22, <1>t DEF CommandThrows, ConnInv, RunningServes
  <2> QED
    BY <1>22, <1>t, <2>1 DEF CommandThrows, net, bufs, selector
<1>23. ASSUME UNCHANGED vars PROVE TypeOK'
  BY <1>23, <1>t DEF vars, net, bufs, selector, workers
<1> QED
  BY <1>1, <1>2, <1>3, <1>4, <1>5, <1>6, <1>7, <1>8, <1>9, <1>10, <1>11, <1>12,
     <1>13, <1>14, <1>15, <1>16, <1>17, <1>18, <1>19, <1>20, <1>21, <1>22, <1>23
     DEF Next, SelectorRuns, HandlerRuns

(* Who has which descriptor after a step, and how often it was read empty. *)
LEMMA OwnersInductive ==
  ASSUME DialogAssumption, ConnInv, [Next]_vars PROVE Owned' /\ ReadsBounded'
<1> DEFINE Goal == Owned' /\ ReadsBounded'
<1>t. TypeOK /\ Owned /\ ReadsBounded
  BY DEF ConnInv
<1>z. ZeroReads \in Nat /\ \A s \in Socks : recv0[s] \in Nat
  BY <1>t DEF DialogAssumption, TypeOK
<1> USE DEF Owned, ReadsBounded
<1>1. ASSUME NEW s \in Socks, NEW f \in Fds, Accept(s, f) PROVE Goal
  <2>1. sock[s] = NoFd /\ recv0[s] = 0 /\ kernel[f] = Nobody
    BY <1>1, <1>t DEF Accept
  <2>2. sock' = [sock EXCEPT ![s] = f] /\ kernel' = [kernel EXCEPT ![f] = s]
        /\ stage' = [stage EXCEPT ![s] = "accepted"] /\ recv0' = recv0
    BY <1>1 DEF Accept, bufs
  <2>3. \A t \in Socks : t # s => sock'[t] = sock[t] /\ sock[t] # f
    BY <1>t, <2>1, <2>2 DEF DialogAssumption, TypeOK
  <2>4. \A g \in Fds : g # f => kernel'[g] = kernel[g] /\ kernel[g] # s
    BY <1>t, <2>1, <2>2 DEF DialogAssumption, TypeOK
  <2>5. sock'[s] = f /\ kernel'[f] = s
    BY <1>t, <2>2 DEF TypeOK
  <2>6. Owned'
    <3>1. ASSUME NEW t \in Socks, stage'[t] = "new" PROVE sock'[t] = NoFd /\ recv0'[t] = 0
      <4>1. t # s /\ stage[t] = "new"
        BY <1>t, <2>2, <3>1 DEF TypeOK
      <4> QED
        BY <1>t, <2>2, <2>3, <4>1
    <3>2. ASSUME NEW t \in Socks, NEW g \in Fds PROVE sock'[t] = g <=> kernel'[g] = t
      <4>1. CASE t # s /\ g # f
        BY <1>t, <2>3, <2>4, <4>1
      <4>2. CASE t = s
        BY <2>4, <2>5, <4>2
      <4>3. CASE t # s /\ g = f
        BY <2>3, <2>5, <4>3
      <4> QED
        BY <4>1, <4>2, <4>3
    <3> QED
      BY <3>1, <3>2
  <2>7. ReadsBounded'
    BY <1>t, <2>1, <2>2, <2>3 DEF DialogAssumption
  <2> QED
    BY <2>6, <2>7
<1>2. ASSUME NEW s \in Socks, Enqueue(s) PROVE Goal
  BY <1>2, <1>t DEF Enqueue, bufs, TypeOK
<1>5. ASSUME NEW s \in Socks, Disconnect(s) PROVE Goal
  <2>1. Closed(s) /\ recv0' = recv0
    BY <1>5 DEF Disconnect, bufs
  <2>2. /\ sock'[s] = NoFd /\ \A u \in Socks : u # s => sock'[u] = sock[u]
        /\ \A u \in Socks, f \in Fds : sock'[u] = f <=> kernel'[f] = u
    BY <2>1, ClosedProperties
  <2>3. stage' = stage
    BY <2>1 DEF Closed
  <2> QED
    BY <1>t, <2>1, <2>2, <2>3
<1>6. ASSUME UNCHANGED <<kernel, stage, sock, recv0>> PROVE Goal
  BY <1>6, <1>t
<1>14. ASSUME NEW f \in Fds, ReadData(f) PROVE Goal
  <2>1. \A s \in Socks : recv0'[s] = recv0[s] \/ recv0'[s] = 0
    BY <1>14, <1>t DEF ReadData, TypeOK
  <2>2. UNCHANGED <<kernel, stage, sock>>
    BY <1>14 DEF ReadData
  <2>3. Owned'
    <3>1. ASSUME NEW s \in Socks, stage[s] = "new" PROVE recv0'[s] = 0
      BY <1>t, <2>1, <3>1
    <3> QED
      BY <1>t, <2>2, <3>1
  <2>4. ReadsBounded'
    <3>1. ASSUME NEW s \in Socks, recv0'[s] > ZeroReads PROVE recv0[s] > ZeroReads
      BY <1>z, <2>1, <3>1
    <3> QED
      BY <1>t, <2>2, <3>1
  <2> QED
    BY <2>3, <2>4
<1>15. ASSUME NEW f \in Fds, ReadEnd(f) PROVE Goal
  <2> DEFINE s == ccc[f]
  <2>1. s \in Socks /\ s # Nobody /\ sock[s] # NoFd
    BY <1>15, ReadableSocket DEF ReadEnd, DialogAssumption
  <2>2. stage[s] # "new" /\ stage' = stage
    BY <1>15, <1>t, <2>1, DeleteProperties DEF ReadEnd, net
  <2>3. recv0[s] \in Nat /\ recv0'[s] = recv0[s] + 1
        /\ \A t \in Socks : t # s => recv0'[t] = recv0[t]
    BY <1>15, <1>t, <1>z, <2>1 DEF ReadEnd, TypeOK
  <2>4. CASE recv0[s] + 1 > ZeroReads
    <3>1. Delete(f)
      BY <1>15, <2>4 DEF ReadEnd
    <3>2. /\ sock'[s] = NoFd /\ \A t \in Socks : t # s => sock'[t] = sock[t]
          /\ \A t \in Socks, g \in Fds : sock'[t] = g <=> kernel'[g] = t
      BY <2>1, <3>1, DeleteProperties
    <3>3. ASSUME NEW u \in Socks, stage'[u] = "new"
          PROVE  sock'[u] = NoFd /\ recv0'[u] = 0
      <4>1. u # s /\ stage[u] = "new"
        BY <2>2, <3>3
      <4> QED
        BY <1>t, <2>3, <3>2, <4>1
    <3>4. Owned'
      BY <3>2, <3>3
    <3>5. ReadsBounded'
      BY <1>t, <2>3, <3>2
    <3> QED
      BY <3>4, <3>5
  <2>5. CASE ~(recv0[s] + 1 > ZeroReads)
    <3>1. UNCHANGED <<kernel, sock>>
      BY <1>15, <2>5 DEF ReadEnd, net
    <3>2. recv0'[s] <= ZeroReads
      BY <1>z, <2>3, <2>5
    <3>3. ASSUME NEW u \in Socks, stage'[u] = "new"
          PROVE  sock'[u] = NoFd /\ recv0'[u] = 0
      <4>1. u # s /\ stage[u] = "new"
        BY <2>2, <3>3
      <4> QED
        BY <1>t, <2>3, <3>1, <4>1
    <3>4. Owned'
      BY <1>t, <3>1, <3>3
    <3>5. ASSUME NEW u \in Socks, recv0'[u] > ZeroReads PROVE sock'[u] = NoFd
      <4>1. u # s
        BY <1>z, <2>3, <3>2, <3>5
      <4> QED
        BY <1>t, <2>3, <3>1, <3>5, <4>1
    <3> QED
      BY <3>4, <3>5
  <2> QED
    BY <2>4, <2>5
<1>16. ASSUME NEW f \in Fds, ccc[f] # Nobody, Delete(f), recv0' = recv0 PROVE Goal
  <2>1. /\ stage' = stage /\ sock'[ccc[f]] = NoFd
        /\ \A t \in Socks : t # ccc[f] => sock'[t] = sock[t]
        /\ \A t \in Socks, g \in Fds : sock'[t] = g <=> kernel'[g] = t
    BY <1>16, DeleteProperties
  <2> QED
    BY <1>16, <1>t, <2>1
<1>17. ASSUME NEW f \in Fds, ReadFails(f) PROVE Goal
  <2>1. ccc[f] # Nobody
    BY <1>17, ReadableSocket DEF ReadFails, DialogAssumption
  <2> QED
    BY <1>6, <1>16, <1>17, <2>1 DEF ReadFails, net, bufs
<1>18. ASSUME NEW f \in Fds, HandleError(f) PROVE Goal
  BY <1>6, <1>16, <1>18 DEF HandleError, net, bufs
<1> HIDE DEF Goal
<1>19. ASSUME NEW s \in Socks,
              \/ \E ch \in {"text", "eol"} : Send(s, ch)
              \/ \E how \in {"closed", "broken"} : Leave(s, how)
       PROVE  Goal
  BY <1>6, <1>19 DEF Send, Leave, bufs
<1>20. ASSUME \/ TakeAccepted \/ Insert \/ CleanUp \/ SkipCleanUp \/ Poll
              \/ QueueReadable \/ EndRound \/ \E f \in Fds : ReadStale(f)
       PROVE  Goal
  BY <1>6, <1>20 DEF TakeAccepted, Insert, CleanUp, SkipCleanUp, Poll, QueueReadable,
     EndRound, ReadStale, net, bufs
<1>21. ASSUME NEW h \in Handlers, HandlerRuns(h) PROVE Goal
  BY <1>6, <1>21 DEF HandlerRuns, TakeReadable, ExtractCommand, NoCommand,
     CommandReturns, CommandThrows, net, bufs
<1>22. ASSUME UNCHANGED vars PROVE Goal
  BY <1>6, <1>22 DEF vars, net, bufs
<1>23. Goal
  BY <1>1, <1>2, <1>5, <1>14, <1>15, <1>17, <1>18, <1>19, <1>20, <1>21, <1>22
     DEF Next, SelectorRuns
<1> QED
  BY <1>23 DEF Goal

(* A handler is between taking a socket and leaving it while it runs.      *)
LEMMA RunningInductive ==
  ASSUME DialogAssumption, ConnInv, [Next]_vars PROVE RunningServes'
<1>t. TypeOK /\ RunningServes
  BY DEF ConnInv
<1> USE DEF RunningServes
<1>1. ASSUME NEW h \in Handlers, HandlerRuns(h) PROVE RunningServes'
  BY <1>1, <1>t DEF HandlerRuns, TakeReadable, ExtractCommand, NoCommand,
     CommandReturns, CommandThrows, TypeOK
<1>2. ASSUME UNCHANGED workers PROVE RunningServes'
  BY <1>2, <1>t DEF workers
<1>3. ASSUME NEW s \in Socks,
             \/ \E f \in Fds : Accept(s, f)
             \/ Enqueue(s) \/ Disconnect(s)
             \/ \E ch \in {"text", "eol"} : Send(s, ch)
             \/ \E how \in {"closed", "broken"} : Leave(s, how)
      PROVE  UNCHANGED workers
  BY <1>3 DEF Accept, Enqueue, Disconnect, Send, Leave
<1>4. ASSUME SelectorRuns PROVE UNCHANGED workers
  BY <1>4 DEF SelectorRuns, TakeAccepted, Insert, CleanUp, SkipCleanUp, Poll,
     QueueReadable, EndRound, ReadStale, ReadData, ReadEnd, ReadFails, HandleError
<1>5. ASSUME UNCHANGED vars PROVE UNCHANGED workers
  BY <1>5 DEF vars
<1> QED
  BY <1>1, <1>2, <1>3, <1>4, <1>5 DEF Next

(* The invariant of the connections.                                       *)
LEMMA ConnAlways == Spec => []ConnInv
<1>1. Init => ConnInv
  BY ConnInit, DialogAssumption
<1>2. ConnInv /\ [Next]_vars => ConnInv'
  BY TypeInductive, OwnersInductive, RunningInductive,
     DialogAssumption DEF ConnInv
<1> QED
  BY <1>1, <1>2, PTL DEF Spec

(* The variables have their types; recv0 never passes ZeroReads + 1, since *)
(* the read that is one too many closes the socket.                        *)
THEOREM TypeCorrect == Spec => []TypeOK
<1>1. ConnInv => TypeOK
  BY DEF ConnInv
<1> QED
  BY <1>1, ConnAlways, PTL
-----------------------------------------------------------------------------
(* Whose bytes are in a buffer.                                            *)

From(s, b) == \A i \in 1..Len(b) : b[i].from = s

(* What has arrived at a socket and what was read of it are its client's.  *)
BytesInductive == \A s \in Socks : From(s, inbox[s]) /\ From(s, rdBuf[s])

(* An empty buffer has nobody's bytes.                                     *)
LEMMA FromEmpty == ASSUME NEW s PROVE From(s, <<>>)
<1>1. Len(<<>>) = 0 /\ \A i \in 1..0 : FALSE
  OBVIOUS
<1> QED
  BY <1>1 DEF From

(* What is read is put behind what is there.                               *)
LEMMA FromConcat ==
  ASSUME NEW s, NEW b \in Seq(Char), NEW c \in Seq(Char), From(s, b), From(s, c)
  PROVE  From(s, b \o c)
<1>1. /\ Len(b) \in Nat /\ Len(c) \in Nat /\ Len(b \o c) = Len(b) + Len(c)
      /\ \A i \in 1..(Len(b) + Len(c)) :
           (b \o c)[i] = IF i <= Len(b) THEN b[i] ELSE c[i - Len(b)]
  BY ConcatProperties
<1>2. ASSUME NEW i \in 1..(Len(b) + Len(c)) PROVE (b \o c)[i].from = s
  <2>1. CASE i <= Len(b)
    BY <1>1, <2>1 DEF From
  <2>2. CASE ~(i <= Len(b))
    <3>1. i - Len(b) \in 1..Len(c)
      BY <1>1, <2>2
    <3> QED
      BY <1>1, <2>2, <3>1 DEF From
  <2> QED
    BY <2>1, <2>2
<1> QED
  BY <1>1, <1>2 DEF From

(* What a client sends arrives behind what it sent before.                 *)
LEMMA FromAppend ==
  ASSUME NEW s, NEW b \in Seq(Char), NEW c \in Char, From(s, b), c.from = s
  PROVE  From(s, Append(b, c))
<1>1. /\ Len(b) \in Nat /\ Len(Append(b, c)) = Len(b) + 1
      /\ \A i \in 1..Len(b) : Append(b, c)[i] = b[i]
      /\ Append(b, c)[Len(b) + 1] = c
  BY AppendProperties
<1>2. ASSUME NEW i \in 1..(Len(b) + 1) PROVE Append(b, c)[i].from = s
  <2>1. CASE i = Len(b) + 1
    BY <1>1, <2>1
  <2>2. CASE i # Len(b) + 1
    <3>1. i \in 1..Len(b)
      BY <1>1, <2>2
    <3> QED
      BY <1>1, <3>1 DEF From
  <2> QED
    BY <2>1, <2>2
<1> QED
  BY <1>1, <1>2 DEF From

(* Taking a line leaves the client's bytes.                                *)
LEMMA FromTaken ==
  ASSUME ConnInv, NEW s \in Socks, From(s, rdBuf[s])
  PROVE  From(s, SubSeq(rdBuf[s], LineEnd(s) + 1, Len(rdBuf[s])))
<1> DEFINE b == rdBuf[s]
           n == LineEnd(s)
           rest == SubSeq(b, n + 1, Len(b))
<1>1. b \in Seq(Char) /\ Len(b) \in Nat
  BY DEF ConnInv, TypeOK
<1>2. /\ n \in 0..Len(b) /\ Len(rest) = Len(b) - n
      /\ \A i \in 1..Len(rest) : rest[i] = b[n + i]
  BY LineTaken
<1> HIDE DEF n, rest
<1>3. ASSUME NEW i \in 1..Len(rest) PROVE rest[i].from = s
  <2>1. n + i \in 1..Len(b)
    BY <1>1, <1>2
  <2> QED
    BY <1>2, <2>1 DEF From
<1>4. From(s, rest)
  BY <1>3 DEF From
<1> QED
  BY <1>4 DEF n, rest

(* At first nothing has arrived.                                           *)
LEMMA BytesInit ==
  ASSUME DialogAssumption, Init PROVE BytesInductive
  BY FromEmpty DEF Init, BytesInductive

(* A step in which a socket reads reads what its own client sent: the      *)
(* descriptor that is read is the socket's.                                *)
LEMMA BytesStep ==
  ASSUME DialogAssumption, ConnInv, BytesInductive, [Next]_vars PROVE BytesInductive'
<1>t. \A s \in Socks : inbox[s] \in Seq(Char) /\ rdBuf[s] \in Seq(Char)
  BY DEF ConnInv, TypeOK
<1>u. inbox \in [Socks -> Seq(Char)] /\ rdBuf \in [Socks -> Seq(Char)]
  BY DEF ConnInv, TypeOK
<1>1. ASSUME UNCHANGED <<inbox, rdBuf>> PROVE BytesInductive'
  BY <1>1 DEF BytesInductive, From
<1>2. ASSUME NEW s \in Socks, NEW ch \in {"text", "eol"}, Send(s, ch)
      PROVE  BytesInductive'
  <2> DEFINE c == [from |-> s, ch |-> ch]
  <2>1. c \in Char /\ c.from = s
    BY DEF Char
  <2>2. inbox' = [inbox EXCEPT ![s] = Append(inbox[s], c)] /\ rdBuf' = rdBuf
    BY <1>2 DEF Send, bufs
  <2>3. From(s, Append(inbox[s], c))
    BY <1>t, <2>1, FromAppend DEF BytesInductive
  <2>4. ASSUME NEW t \in Socks PROVE From(t, inbox'[t]) /\ From(t, rdBuf'[t])
    <3>1. inbox'[t] = IF t = s THEN Append(inbox[s], c) ELSE inbox[t]
      BY <1>u, <2>2
    <3> QED
      BY <2>2, <2>3, <3>1 DEF BytesInductive
  <2> QED
    BY <2>4 DEF BytesInductive, From
<1>3. ASSUME NEW f \in Fds, ReadData(f) PROVE BytesInductive'
  <2> DEFINE s == ccc[f]
  <2>1. s \in Socks /\ kernel[f] = s
    BY <1>3, ReadableSocket DEF ReadData
  <2>2. /\ rdBuf' = [rdBuf EXCEPT ![s] = rdBuf[s] \o inbox[s]]
        /\ inbox' = [inbox EXCEPT ![s] = <<>>]
    BY <1>3, <2>1 DEF ReadData
  <2>3. From(s, rdBuf[s] \o inbox[s]) /\ From(s, <<>>)
    BY <1>t, <2>1, FromConcat, FromEmpty DEF BytesInductive
  <2>4. ASSUME NEW t \in Socks PROVE From(t, inbox'[t]) /\ From(t, rdBuf'[t])
    <3>1. /\ inbox'[t] = IF t = s THEN <<>> ELSE inbox[t]
          /\ rdBuf'[t] = IF t = s THEN rdBuf[s] \o inbox[s] ELSE rdBuf[t]
      BY <1>u, <2>2
    <3> QED
      BY <2>3, <3>1 DEF BytesInductive
  <2> QED
    BY <2>4 DEF BytesInductive, From
<1>4. ASSUME NEW h \in Handlers, ExtractCommand(h) \/ NoCommand(h)
      PROVE  BytesInductive'
  <2> DEFINE s == serving[h]
             rest == SubSeq(rdBuf[s], LineEnd(s) + 1, Len(rdBuf[s]))
  <2>1. s \in Socks
    BY <1>4 DEF ExtractCommand, NoCommand, ConnInv, TypeOK
  <2>2. inbox' = inbox /\ rdBuf' = [rdBuf EXCEPT ![s] = rest]
    BY <1>4 DEF ExtractCommand, NoCommand, net
  <2>3. From(s, rest)
    BY <2>1, FromTaken DEF BytesInductive
  <2>4. ASSUME NEW t \in Socks PROVE From(t, inbox'[t]) /\ From(t, rdBuf'[t])
    <3>1. rdBuf'[t] = IF t = s THEN rest ELSE rdBuf[t]
      BY <1>u, <2>2
    <3> QED
      BY <2>2, <2>3, <3>1 DEF BytesInductive
  <2> QED
    BY <2>4 DEF BytesInductive, From
<1>5. ASSUME NEW s \in Socks,
             \/ \E f \in Fds : Accept(s, f)
             \/ Enqueue(s) \/ Disconnect(s)
             \/ \E how \in {"closed", "broken"} : Leave(s, how)
      PROVE  BytesInductive'
  BY <1>1, <1>5 DEF Accept, Enqueue, Disconnect, Closed, Leave, bufs
<1>6. ASSUME \/ TakeAccepted \/ Insert \/ CleanUp \/ SkipCleanUp \/ Poll
             \/ QueueReadable \/ EndRound
             \/ \E f \in Fds :
                  ReadStale(f) \/ ReadEnd(f) \/ ReadFails(f) \/ HandleError(f)
      PROVE  BytesInductive'
  BY <1>1, <1>6 DEF TakeAccepted, Insert, CleanUp, SkipCleanUp, Poll, QueueReadable,
     EndRound, ReadStale, ReadEnd, ReadFails, HandleError, Delete, Closed, net, bufs
<1>7. ASSUME NEW h \in Handlers, TakeReadable(h) \/ CommandReturns(h) \/ CommandThrows(h)
      PROVE  BytesInductive'
  BY <1>1, <1>7 DEF TakeReadable, CommandReturns, CommandThrows, net, bufs
<1>8. ASSUME UNCHANGED vars PROVE BytesInductive'
  BY <1>1, <1>8 DEF vars, net, bufs
<1> QED
  BY <1>2, <1>3, <1>4, <1>5, <1>6, <1>7, <1>8 DEF Next, SelectorRuns, HandlerRuns

(* Although the kernel gives the descriptor of a closed socket to the next *)
(* connection while the selector still has it for the old one, no buffer   *)
(* ever holds what another client sent.                                    *)
THEOREM OwnBytes == Spec => []OwnBytesOnly
<1>1. Init => BytesInductive
  BY BytesInit, DialogAssumption
<1>2. ConnInv /\ BytesInductive /\ [Next]_vars => BytesInductive'
  BY BytesStep, DialogAssumption
<1>3. BytesInductive => OwnBytesOnly
  BY DEF BytesInductive, From, OwnBytesOnly
<1> QED
  BY <1>1, <1>2, <1>3, ConnAlways, PTL DEF Spec
-----------------------------------------------------------------------------
(* How often a session is ended.                                           *)

Distinct(q) == \A i, j \in 1..Len(q) : q[i] = q[j] => i = j

Mapped(s) == \E f \in Slots : ccc[f] = s

(* A socket is on its way to the selector, or in its map, or given up: it  *)
(* is never in two of these places, and in none of them twice.             *)
OncePlaced ==
  /\ Distinct(batch) /\ Distinct(accepteds)
  /\ \A s \in Socks :
       /\ stage[s] # "queued" => ~In(s, accepteds) /\ ~In(s, batch) /\ ~Mapped(s)
       /\ ~(In(s, accepteds) /\ In(s, batch))
       /\ In(s, accepteds) \/ In(s, batch) => ~Mapped(s)
       /\ stage[s] # "queued" \/ In(s, accepteds) \/ In(s, batch) \/ Mapped(s)
            => deleted[s] = 0
       /\ deleted[s] \in {0, 1}
  /\ \A f, g \in Slots : ccc[f] = ccc[g] /\ ccc[f] # Nobody => f = g

(* At first no socket is anywhere on its way.                              *)
LEMMA PlacedInit ==
  ASSUME DialogAssumption, Init PROVE OncePlaced
<1>1. Len(accepteds) = 0 /\ Len(batch) = 0 /\ \A i \in 1..0 : FALSE
  BY DEF Init
<1>2. \A s \in Socks : ~In(s, accepteds) /\ ~In(s, batch)
  BY <1>1 DEF In
<1>3. Distinct(batch) /\ Distinct(accepteds)
  BY <1>1 DEF Distinct
<1>4. \A f \in Slots : ccc[f] = Nobody
  BY DEF Init
<1>5. \A s \in Socks : ~Mapped(s) /\ deleted[s] = 0
  BY <1>4 DEF Mapped, DialogAssumption, Init
<1> QED
  BY <1>2, <1>3, <1>4, <1>5 DEF OncePlaced

(* Steps that leave the way to the selector alone.                         *)
LEMMA PlacedSame ==
  ASSUME OncePlaced, UNCHANGED <<accepteds, batch, ccc, deleted>>,
         \A s \in Socks : stage'[s] = stage[s] \/ (stage[s] = "new" /\ stage'[s] = "accepted")
  PROVE  OncePlaced'
<1>1. /\ Distinct(batch') /\ Distinct(accepteds')
      /\ \A s \in Socks : /\ (In(s, accepteds'))  <=> In(s, accepteds)
                          /\ (In(s, batch')) <=> In(s, batch)
                          /\ Mapped(s)' <=> Mapped(s)
  BY DEF OncePlaced, Distinct, In, Mapped
<1>2. \A s \in Socks : stage'[s] # "queued" => stage[s] # "queued"
  OBVIOUS
<1> QED
  BY <1>1, <1>2 DEF OncePlaced

(* The selector gives up what it has under the descriptors of F, and ends  *)
(* the session of each socket of D.                                        *)
LEMMA PlacedForget ==
  ASSUME ConnInv, OncePlaced, NEW F \in SUBSET Slots, NEW D \in SUBSET Socks,
         UNCHANGED <<accepteds, batch, stage>>,
         ccc' = [f \in Slots |-> IF f \in F THEN Nobody ELSE ccc[f]],
         \A s \in D : \E f \in F : ccc[f] = s,
         \A s \in Socks : deleted'[s] = IF s \in D THEN deleted[s] + 1 ELSE deleted[s],
         Nobody \notin Socks
  PROVE  OncePlaced'
<1>1. /\ Distinct(batch') /\ Distinct(accepteds')
      /\ \A s \in Socks : /\ (In(s, accepteds'))  <=> In(s, accepteds)
                          /\ (In(s, batch')) <=> In(s, batch)
  BY DEF OncePlaced, Distinct, In
<1>2. \A f, g \in Slots : ccc'[f] = ccc'[g] /\ ccc'[f] # Nobody => f = g
  BY DEF OncePlaced
<1>3. ASSUME NEW s \in Socks, Mapped(s)' PROVE Mapped(s) /\ s \notin D
  <2>1. PICK f \in Slots : ccc'[f] = s
    BY <1>3 DEF Mapped
  <2>2. f \notin F /\ ccc[f] = s
    BY <2>1
  <2>3. \A g \in F : ccc[g] # s
    BY <2>2 DEF OncePlaced
  <2> QED
    BY <2>2, <2>3 DEF Mapped
<1>4. ASSUME NEW s \in D
      PROVE  s \in Socks /\ Mapped(s) /\ deleted[s] = 0 /\ stage[s] = "queued"
             /\ ~In(s, accepteds) /\ ~In(s, batch)
  BY DEF OncePlaced, Mapped
<1>5. \A s \in Socks : deleted'[s] \in {0, 1}
  BY <1>4 DEF OncePlaced
<1> QED
  BY <1>1, <1>2, <1>3, <1>4, <1>5 DEF OncePlaced

(* A socket put at the end of a queue that does not have it.               *)
LEMMA InAppend ==
  ASSUME NEW q \in Seq(Socks), NEW s \in Socks
  PROVE  /\ \A t : In(t, Append(q, s)) <=> t = s \/ In(t, q)
         /\ Distinct(q) /\ ~In(s, q) => Distinct(Append(q, s))
<1>1. /\ Len(q) \in Nat /\ Len(Append(q, s)) = Len(q) + 1
      /\ \A i \in 1..Len(q) : Append(q, s)[i] = q[i]
      /\ Append(q, s)[Len(q) + 1] = s
  BY AppendProperties
<1>2. \A i \in 1..(Len(q) + 1) : i \in 1..Len(q) \/ i = Len(q) + 1
  BY <1>1
<1>3. Len(q) + 1 \in 1..(Len(q) + 1) /\ \A i \in 1..Len(q) : i \in 1..(Len(q) + 1)
  BY <1>1
<1>4. \A t : In(t, Append(q, s)) <=> t = s \/ In(t, q)
  BY <1>1, <1>2, <1>3 DEF In
<1>5. ASSUME Distinct(q), ~In(s, q) PROVE Distinct(Append(q, s))
  BY <1>1, <1>2, <1>5 DEF In, Distinct
<1> QED
  BY <1>4, <1>5

(* A socket taken from the front of a queue.                               *)
LEMMA InTail ==
  ASSUME NEW q \in Seq(Socks), q # <<>>
  PROVE  /\ Head(q) \in Socks /\ In(Head(q), q)
         /\ \A t : In(t, q) <=> t = Head(q) \/ In(t, Tail(q))
         /\ Distinct(q) => Distinct(Tail(q)) /\ ~In(Head(q), Tail(q))
<1>1. /\ Head(q) \in Socks /\ Tail(q) \in Seq(Socks) /\ Len(q) \in Nat /\ Len(q) # 0
      /\ Len(Tail(q)) = Len(q) - 1 /\ Head(q) = q[1]
      /\ \A i \in 1..Len(Tail(q)) : Tail(q)[i] = q[i + 1]
  BY HeadTailProperties, EmptySeq
<1>2. /\ 1 \in 1..Len(q)
      /\ \A i \in 1..Len(Tail(q)) : i + 1 \in 1..Len(q) /\ i + 1 # 1
      /\ \A i \in 1..Len(q) : i = 1 \/ (i - 1 \in 1..Len(Tail(q)) /\ (i - 1) + 1 = i)
  BY <1>1
<1>3. In(Head(q), q)
  <2>1. 1 \in 1..Len(q) /\ q[1] = Head(q)
    BY <1>1
  <2> QED
    BY <2>1 DEF In
<1>4. ASSUME NEW t PROVE In(t, q) <=> t = Head(q) \/ In(t, Tail(q))
  <2>1. ASSUME In(t, q), t # Head(q) PROVE In(t, Tail(q))
    <3>1. PICK i \in 1..Len(q) : q[i] = t
      BY <2>1 DEF In
    <3>2. i - 1 \in 1..Len(Tail(q)) /\ (i - 1) + 1 = i
      BY <1>1, <1>2, <2>1, <3>1
    <3>3. Tail(q)[i - 1] = t
      BY <1>1, <3>1, <3>2
    <3> QED
      BY <3>2, <3>3 DEF In
  <2>2. ASSUME In(t, Tail(q)) PROVE In(t, q)
    BY <1>1, <1>2, <2>2 DEF In
  <2> QED
    BY <1>3, <2>1, <2>2
<1>5. ASSUME Distinct(q) PROVE Distinct(Tail(q)) /\ ~In(Head(q), Tail(q))
  <2>1. ASSUME NEW i \in 1..Len(Tail(q)), NEW j \in 1..Len(Tail(q)),
               Tail(q)[i] = Tail(q)[j]
        PROVE  i = j
    <3>1. i + 1 = j + 1
      BY <1>1, <1>2, <1>5, <2>1 DEF Distinct
    <3> QED
      BY <3>1
  <2>2. ASSUME NEW i \in 1..Len(Tail(q)) PROVE Tail(q)[i] # Head(q)
    BY <1>1, <1>2, <1>5 DEF Distinct
  <2> QED
    BY <2>1, <2>2 DEF Distinct, In
<1> QED
  BY <1>1, <1>3, <1>4, <1>5

(* A step moves a socket one place on.                                     *)
LEMMA PlacedStep ==
  ASSUME DialogAssumption, ConnInv, OncePlaced, [Next]_vars PROVE OncePlaced'
<1>t. /\ accepteds \in Seq(Socks) /\ batch \in Seq(Socks)
      /\ stage \in [Socks -> {"new", "accepted", "queued"}]
      /\ sock \in [Socks -> Slots] /\ ccc \in [Slots -> Socks \cup {Nobody}]
      /\ deleted \in [Socks -> Nat]
  BY DEF ConnInv, TypeOK
<1>s. Nobody \notin Socks /\ Fds \subseteq Slots
  BY DEF DialogAssumption, Slots
<1>1. ASSUME NEW s \in Socks, NEW f \in Fds, Accept(s, f) PROVE OncePlaced'
  <2>1. UNCHANGED <<accepteds, batch, ccc, deleted>>
    BY <1>1 DEF Accept, selector
  <2>2. \A t \in Socks : stage'[t] = stage[t] \/ (stage[t] = "new" /\ stage'[t] = "accepted")
    BY <1>1, <1>t DEF Accept
  <2> QED
    BY <2>1, <2>2, PlacedSame
<1>2. ASSUME NEW s \in Socks, Enqueue(s) PROVE OncePlaced'
  <2>1. /\ stage[s] # "queued" /\ accepteds' = Append(accepteds, s)
        /\ \A t \in Socks : stage'[t] = IF t = s THEN "queued" ELSE stage[t]
        /\ UNCHANGED <<batch, ccc, deleted>>
    BY <1>2, <1>t DEF Enqueue, selector
  <2>2. ~In(s, accepteds) /\ ~In(s, batch) /\ ~Mapped(s) /\ deleted[s] = 0
    BY <2>1 DEF OncePlaced
  <2>3. /\ \A t : In(t, accepteds') <=> t = s \/ In(t, accepteds)
        /\ Distinct(accepteds')
    BY <1>t, <2>1, <2>2, InAppend DEF OncePlaced
  <2>4. \A t \in Socks : Mapped(t)' <=> Mapped(t)
    BY <2>1 DEF Mapped
  <2> QED
    BY <2>1, <2>2, <2>3, <2>4 DEF OncePlaced
<1>3. ASSUME TakeAccepted PROVE OncePlaced'
  <2>1. batch' = accepteds /\ accepteds' = <<>> /\ UNCHANGED <<stage, ccc, deleted>>
    BY <1>3 DEF TakeAccepted, net
  <2>2. Len(<<>>) = 0 /\ \A i \in 1..0 : FALSE
    OBVIOUS
  <2>3. Distinct(accepteds') /\ \A t \in Socks : ~In(t, accepteds')
    BY <2>1, <2>2 DEF Distinct, In
  <2>4. \A t \in Socks : Mapped(t)' <=> Mapped(t)
    BY <2>1 DEF Mapped
  <2> QED
    BY <2>1, <2>3, <2>4 DEF OncePlaced
<1>4. ASSUME Insert PROVE OncePlaced'
  <2> DEFINE s == Head(batch)
             g == sock[s]
  <2>1. /\ batch # <<>> /\ batch' = Tail(batch) /\ UNCHANGED <<accepteds, stage, deleted>>
        /\ ccc' = [ccc EXCEPT ![g] = IF @ = Nobody THEN s ELSE @]
    BY <1>4 DEF Insert, net
  <2>2. /\ s \in Socks /\ In(s, batch)
        /\ \A t : In(t, batch) <=> t = s \/ In(t, Tail(batch))
        /\ Distinct(Tail(batch)) /\ ~In(s, Tail(batch))
    BY <1>t, <2>1, InTail DEF OncePlaced
  <2>3. ~In(s, accepteds) /\ ~Mapped(s) /\ deleted[s] = 0 /\ stage[s] = "queued"
    <3>1. s \in Socks /\ In(s, batch)
      BY <2>2
    <3> HIDE DEF s
    <3> QED
      BY <3>1 DEF OncePlaced
  <2>4. \A f \in Slots : ccc'[f] = ccc[f] \/ (f = g /\ ccc[g] = Nobody /\ ccc'[f] = s)
    BY <1>t, <2>1, <2>2
  <2>5. \A t \in Socks : Mapped(t)' => Mapped(t) \/ t = s
    BY <2>4 DEF Mapped
  <2>6. \A f, h \in Slots : ccc'[f] = ccc'[h] /\ ccc'[f] # Nobody => f = h
    BY <2>3, <2>4 DEF OncePlaced, Mapped
  <2>7. ASSUME NEW t \in Socks
        PROVE  /\ In(t, batch') => In(t, batch) /\ t # s
               /\ In(t, accepteds') <=> In(t, accepteds)
    BY <2>1, <2>2
  <2>8. ASSUME NEW t \in Socks
        PROVE  /\ stage[t] # "queued" => ~Mapped(t)'
               /\ In(t, accepteds') \/ In(t, batch') => ~Mapped(t)'
               /\ In(t, accepteds') \/ In(t, batch') \/ Mapped(t)' => deleted[t] = 0
    BY <2>3, <2>5, <2>7 DEF OncePlaced
  <2>9. Distinct(batch') /\ Distinct(accepteds')
    BY <2>1, <2>2 DEF OncePlaced
  <2> QED
    BY <2>1, <2>6, <2>7, <2>8, <2>9 DEF OncePlaced
<1>5. ASSUME CleanUp PROVE OncePlaced'
  <2> DEFINE F == {f \in Slots : Stale(f)}
             D == {s \in Socks : \E f \in F : ccc[f] = s}
  <2>1. /\ UNCHANGED <<accepteds, batch, stage>>
        /\ ccc' = [f \in Slots |-> IF f \in F THEN Nobody ELSE ccc[f]]
    BY <1>5 DEF CleanUp, Forget, net
  <2>2. \A s \in Socks : deleted'[s] = IF s \in D THEN deleted[s] + 1 ELSE deleted[s]
    BY <1>5, <1>t DEF CleanUp
  <2>3. F \in SUBSET Slots /\ D \in SUBSET Socks /\ \A s \in D : \E f \in F : ccc[f] = s
    OBVIOUS
  <2> HIDE DEF F, D
  <2> QED
    BY <1>s, <2>1, <2>2, <2>3, PlacedForget
<1>6. ASSUME NEW f \in Fds, ReadStale(f) PROVE OncePlaced'
  <2> DEFINE F == {f}
             D == {s \in Socks : FALSE}
  <2>1. /\ UNCHANGED <<accepteds, batch, stage, deleted>>
        /\ ccc' = [g \in Slots |-> IF g \in F THEN Nobody ELSE ccc[g]]
    BY <1>6 DEF ReadStale, Forget, net
  <2>2. \A s \in Socks : deleted'[s] = IF s \in D THEN deleted[s] + 1 ELSE deleted[s]
    BY <2>1
  <2>3. F \in SUBSET Slots /\ D \in SUBSET Socks /\ \A s \in D : \E g \in F : ccc[g] = s
    BY <1>s
  <2> HIDE DEF F, D
  <2> QED
    BY <1>s, <2>1, <2>2, <2>3, PlacedForget
<1>7. ASSUME NEW f \in Fds, ccc[f] # Nobody, Delete(f), UNCHANGED <<accepteds, batch>>
      PROVE  OncePlaced'
  <2> DEFINE F == {f}
             D == {ccc[f]}
  <2>1. /\ ccc[f] \in Socks /\ stage' = stage
        /\ deleted' = [deleted EXCEPT ![ccc[f]] = @ + 1]
        /\ ccc' = [g \in Slots |-> IF g = f THEN Nobody ELSE ccc[g]]
    BY <1>7, DeleteProperties
  <2>2. \A s \in Socks : deleted'[s] = IF s \in D THEN deleted[s] + 1 ELSE deleted[s]
    BY <1>t, <2>1
  <2>3. /\ F \in SUBSET Slots /\ D \in SUBSET Socks /\ \A s \in D : \E g \in F : ccc[g] = s
        /\ ccc' = [g \in Slots |-> IF g \in F THEN Nobody ELSE ccc[g]]
    BY <1>s, <2>1
  <2>4. UNCHANGED <<accepteds, batch, stage>>
    BY <1>7, <2>1
  <2> HIDE DEF F, D
  <2> QED
    BY <1>s, <2>2, <2>3, <2>4, PlacedForget
<1>8. ASSUME UNCHANGED <<accepteds, batch, ccc, deleted, stage>> PROVE OncePlaced'
  <2>1. UNCHANGED <<accepteds, batch, ccc, deleted>>
    BY <1>8
  <2>2. \A t \in Socks : stage'[t] = stage[t] \/ (stage[t] = "new" /\ stage'[t] = "accepted")
    BY <1>8
  <2> QED
    BY <2>1, <2>2, PlacedSame
<1>9. ASSUME NEW f \in Fds, ReadEnd(f) \/ ReadFails(f) \/ HandleError(f)
      PROVE  OncePlaced'
  <2>1. UNCHANGED <<accepteds, batch>>
    BY <1>9 DEF ReadEnd, ReadFails, HandleError
  <2>2. CASE UNCHANGED <<net, ccc, deleted>>
    BY <1>8, <2>1, <2>2 DEF net
  <2>3. CASE Delete(f) /\ ccc[f] # Nobody
    BY <1>7, <2>1, <2>3
  <2>4. Readable(f) => ccc[f] # Nobody
    BY DEF Readable
  <2> QED
    BY <1>9, <2>2, <2>3, <2>4 DEF ReadEnd, ReadFails, HandleError
<1>10. ASSUME NEW f \in Fds, ReadData(f) PROVE OncePlaced'
  BY <1>8, <1>10 DEF ReadData
<1>11. ASSUME SkipCleanUp \/ Poll \/ QueueReadable \/ EndRound PROVE OncePlaced'
  BY <1>8, <1>11 DEF SkipCleanUp, Poll, QueueReadable, EndRound, net
<1>12. ASSUME NEW s \in Socks,
              \/ Disconnect(s)
              \/ \E ch \in {"text", "eol"} : Send(s, ch)
              \/ \E how \in {"closed", "broken"} : Leave(s, how)
       PROVE  OncePlaced'
  BY <1>8, <1>12 DEF Disconnect, Closed, Send, Leave, selector
<1>13. ASSUME NEW h \in Handlers, HandlerRuns(h) PROVE OncePlaced'
  BY <1>8, <1>13 DEF HandlerRuns, TakeReadable, ExtractCommand, NoCommand,
     CommandReturns, CommandThrows, net, selector
<1>14. ASSUME UNCHANGED vars PROVE OncePlaced'
  BY <1>8, <1>14 DEF vars, net, selector
<1> QED
  BY <1>1, <1>2, <1>3, <1>4, <1>5, <1>6, <1>9, <1>10, <1>11, <1>12, <1>13, <1>14
     DEF Next, SelectorRuns

(* on_delete is called at most once for a socket, in whatever order other  *)
(* threads close sockets, the kernel gives their descriptors away and the  *)
(* selector comes to an event of poll or to the cleaning.                  *)
THEOREM SessionsEndOnce == Spec => []DeletedOnce
<1>1. Init => OncePlaced
  BY PlacedInit, DialogAssumption
<1>2. ConnInv /\ OncePlaced /\ [Next]_vars => OncePlaced'
  BY PlacedStep, DialogAssumption
<1>3. OncePlaced => DeletedOnce
  <2>1. ASSUME OncePlaced, NEW s \in Socks PROVE deleted[s] <= 1
    <3>1. deleted[s] = 0 \/ deleted[s] = 1
      BY <2>1 DEF OncePlaced
    <3> QED
      BY <3>1
  <2> QED
    BY <2>1 DEF DeletedOnce
<1> QED
  BY <1>1, <1>2, <1>3, ConnAlways, PTL DEF Spec
-----------------------------------------------------------------------------
(* Who comes to a line that has been read.                                 *)

Awaited(s) == In(s, readable) \/ fresh = s \/ \E h \in Handlers : serving[h] = s

(* Whether a buffer has a line is a matter of the buffer alone.            *)
LEMMA LineSame ==
  ASSUME NEW s, rdBuf'[s] = rdBuf[s] PROVE HasLine(s)' <=> HasLine(s)
  BY DEF HasLine, EndsLine

(* A step that neither reads for a socket nor leaves it keeps the          *)
(* invariant of that socket.                                               *)
LEMMA AwaitedSame ==
  ASSUME NoLineForgotten, NEW s \in Socks, rdBuf'[s] = rdBuf[s],
         s \in stopped => s \in stopped', Awaited(s) => Awaited(s)'
  PROVE  HasLine(s)' /\ s \notin stopped' => Awaited(s)'
  BY LineSame DEF NoLineForgotten, Awaited

(* A step leaves no line behind: who takes a socket from one place holds   *)
(* it in the next.                                                         *)
LEMMA LineStep ==
  ASSUME DialogAssumption, ConnInv, NoLineForgotten, [Next]_vars PROVE NoLineForgotten'
<1>t. /\ readable \in Seq(Socks) /\ rdBuf \in [Socks -> Seq(Char)]
      /\ serving \in [Handlers -> Socks \cup {Nobody}]
      /\ fresh \in Socks \cup {Nobody} /\ Nobody \notin Socks
  BY DEF ConnInv, TypeOK, DialogAssumption
<1> DEFINE Goal == \A s \in Socks : HasLine(s)' /\ s \notin stopped' => Awaited(s)'
<1>1. ASSUME UNCHANGED <<rdBuf, stopped, readable, fresh, serving>> PROVE Goal
  <2>1. ASSUME NEW s \in Socks PROVE Awaited(s) => Awaited(s)'
    BY <1>1 DEF Awaited, In
  <2> QED
    BY <1>1, <2>1, AwaitedSame
<1>2. ASSUME NEW f \in Fds, ReadData(f) PROVE Goal
  <2> PICK s \in Socks : s = ccc[f]
    BY <1>2, ReadableSocket DEF ReadData
  <2>1. /\ fresh' = s /\ fresh = Nobody
        /\ UNCHANGED <<readable, serving, stopped>>
    BY <1>2 DEF ReadData, Readable, Handling, workers
  <2>2. Awaited(s)'
    BY <2>1 DEF Awaited
  <2>3. ASSUME NEW t \in Socks, t # s PROVE HasLine(t)' /\ t \notin stopped' => Awaited(t)'
    <3>1. rdBuf'[t] = rdBuf[t]
      BY <1>2, <1>t, <2>3 DEF ReadData
    <3>2. Awaited(t) => Awaited(t)'
      BY <1>t, <2>1 DEF Awaited, In
    <3> QED
      BY <2>1, <3>1, <3>2, AwaitedSame
  <2> QED
    BY <2>2, <2>3
<1>3. ASSUME QueueReadable PROVE Goal
  <2>1. /\ fresh \in Socks /\ readable' = Append(readable, fresh)
        /\ stopped' = stopped \ {fresh} /\ UNCHANGED <<rdBuf, serving>>
    BY <1>3, <1>t DEF QueueReadable, bufs, workers
  <2>2. \A t : In(t, readable') <=> t = fresh \/ In(t, readable)
    BY <1>t, <2>1, InAppend
  <2>3. ASSUME NEW t \in Socks PROVE HasLine(t)' /\ t \notin stopped' => Awaited(t)'
    <3>1. CASE t = fresh
      BY <2>2, <3>1 DEF Awaited
    <3>2. CASE t # fresh
      <4>1. Awaited(t) => Awaited(t)'
        BY <2>1, <2>2, <3>2 DEF Awaited
      <4>2. t \in stopped => t \in stopped'
        BY <2>1, <3>2
      <4> QED
        BY <2>1, <4>1, <4>2, AwaitedSame
    <3> QED
      BY <3>1, <3>2
  <2> QED
    BY <2>3
<1>4. ASSUME NEW h \in Handlers, TakeReadable(h) PROVE Goal
  <2>1. /\ serving[h] = Nobody /\ readable # <<>>
        /\ serving' = [serving EXCEPT ![h] = Head(readable)]
        /\ readable' = Tail(readable) /\ UNCHANGED <<rdBuf, fresh, stopped>>
    BY <1>4 DEF TakeReadable, bufs, selector
  <2>2. \A t : In(t, readable) <=> t = Head(readable) \/ In(t, readable')
    BY <1>t, <2>1, InTail
  <2>3. serving'[h] = Head(readable) /\ \A g \in Handlers : g # h => serving'[g] = serving[g]
    BY <1>t, <2>1
  <2>4. ASSUME NEW t \in Socks, Awaited(t) PROVE Awaited(t)'
    <3>1. CASE t = Head(readable)
      BY <2>3, <3>1 DEF Awaited
    <3>2. CASE t # Head(readable) /\ In(t, readable)
      BY <2>2, <3>2 DEF Awaited
    <3>3. CASE fresh = t
      BY <2>1, <3>3 DEF Awaited
    <3>4. CASE \E g \in Handlers : serving[g] = t
      BY <1>t, <2>1, <2>3, <3>4 DEF Awaited
    <3> QED
      BY <2>4, <3>1, <3>2, <3>3, <3>4 DEF Awaited
  <2> QED
    BY <2>1, <2>4, AwaitedSame
<1>5. ASSUME NEW h \in Handlers, ExtractCommand(h) PROVE Goal
  <2> PICK s \in Socks : s = serving[h]
    BY <1>5, <1>t DEF ExtractCommand
  <2>1. /\ UNCHANGED <<readable, fresh, serving, stopped>>
        /\ \A t \in Socks : t # s => rdBuf'[t] = rdBuf[t]
    BY <1>5, <1>t DEF ExtractCommand, selector
  <2>2. Awaited(s)'
    BY <2>1 DEF Awaited
  <2>3. ASSUME NEW t \in Socks, t # s PROVE HasLine(t)' /\ t \notin stopped' => Awaited(t)'
    <3>1. Awaited(t) => Awaited(t)'
      BY <2>1 DEF Awaited, In
    <3> QED
      BY <2>1, <2>3, <3>1, AwaitedSame
  <2> QED
    BY <2>2, <2>3
<1>6. ASSUME NEW h \in Handlers, NEW s \in Socks, serving[h] = s,
             serving' = [serving EXCEPT ![h] = Nobody],
             UNCHANGED <<readable, fresh>>, stopped \subseteq stopped',
             HasLine(s)' => s \in stopped',
             \A t \in Socks : t # s => rdBuf'[t] = rdBuf[t]
      PROVE  Goal
  <2>1. ASSUME NEW t \in Socks, t # s
        PROVE  HasLine(t)' /\ t \notin stopped' => Awaited(t)'
    <3>1. \A g \in Handlers : serving[g] = t => serving'[g] = t
      BY <1>6, <1>t, <2>1
    <3>2. Awaited(t) => Awaited(t)'
      BY <1>6, <3>1 DEF Awaited, In
    <3> QED
      BY <1>6, <2>1, <3>2, AwaitedSame
  <2> QED
    BY <1>6, <2>1
<1>7. ASSUME NEW h \in Handlers, NoCommand(h) PROVE Goal
  <2> PICK s \in Socks : s = serving[h]
    BY <1>7, <1>t DEF NoCommand
  <2>1. /\ UNCHANGED <<readable, fresh>>
        /\ serving' = [serving EXCEPT ![h] = Nobody]
        /\ stopped' = IF HasLine(s) THEN stopped \cup {s} ELSE stopped
        /\ rdBuf' = [rdBuf EXCEPT ![s] = SubSeq(@, LineEnd(s) + 1, Len(@))]
    BY <1>7, <1>t DEF NoCommand, selector
  <2>2. \A t \in Socks : t # s => rdBuf'[t] = rdBuf[t]
    BY <1>t, <2>1
  <2>3. ASSUME ~HasLine(s) PROVE rdBuf'[s] = rdBuf[s]
    BY <1>t, <2>1, <2>3, LineTaken
  <2>4. HasLine(s)' => s \in stopped'
    <3>1. CASE HasLine(s)
      BY <2>1, <3>1
    <3>2. CASE ~HasLine(s)
      BY <2>3, <3>2 DEF HasLine, EndsLine
    <3> QED
      BY <3>1, <3>2
  <2>5. stopped \subseteq stopped'
    BY <2>1
  <2> QED
    BY <1>6, <2>1, <2>2, <2>4, <2>5
<1>8. ASSUME NEW h \in Handlers, CommandThrows(h) PROVE Goal
  <2> PICK s \in Socks : serving[h] = s
    BY <1>8, <1>t DEF CommandThrows, ConnInv, RunningServes
  <2>2. /\ serving' = [serving EXCEPT ![h] = Nobody]
        /\ stopped' = stopped \cup {s}
        /\ UNCHANGED <<readable, fresh, rdBuf>>
    BY <1>8 DEF CommandThrows, bufs, selector
  <2> QED
    BY <1>6, <2>2
<1> HIDE DEF Goal
<1>9. ASSUME NEW h \in Handlers, CommandReturns(h) PROVE Goal
  BY <1>1, <1>9 DEF CommandReturns, bufs, selector
<1>10. ASSUME NEW s \in Socks,
              \/ \E f \in Fds : Accept(s, f)
              \/ Enqueue(s) \/ Disconnect(s)
              \/ \E ch \in {"text", "eol"} : Send(s, ch)
              \/ \E how \in {"closed", "broken"} : Leave(s, how)
       PROVE  Goal
  BY <1>1, <1>10 DEF Accept, Enqueue, Disconnect, Send, Leave, bufs, selector, workers
<1>11. ASSUME \/ TakeAccepted \/ Insert \/ CleanUp \/ SkipCleanUp \/ Poll \/ EndRound
              \/ \E f \in Fds :
                   ReadStale(f) \/ ReadEnd(f) \/ ReadFails(f) \/ HandleError(f)
       PROVE  Goal
  BY <1>1, <1>11 DEF TakeAccepted, Insert, CleanUp, SkipCleanUp, Poll, EndRound,
     ReadStale, ReadEnd, ReadFails, HandleError, bufs, workers
<1>12. ASSUME UNCHANGED vars PROVE Goal
  BY <1>1, <1>12 DEF vars, bufs, selector, workers
<1>13. Goal
  BY <1>2, <1>3, <1>4, <1>5, <1>7, <1>8, <1>9, <1>10, <1>11, <1>12
     DEF Next, SelectorRuns, HandlerRuns
<1>14. ASSUME NEW s \in Socks
       PROVE  Awaited(s)' => \/ In(s, readable') \/ fresh' = s
                             \/ \E h \in Handlers : serving'[h] = s
  BY DEF Awaited
<1> QED
  BY <1>13, <1>14 DEF NoLineForgotten, Goal

(* However selector and handlers interleave on one socket, a line in its   *)
(* buffer has somebody who will come to it: the selector, which queues the *)
(* socket after every read, the queue, or a handler that has not seen the  *)
(* buffer without a line.                                                  *)
THEOREM LinesNotForgotten == Spec => []NoLineForgotten
<1>1. Init => NoLineForgotten
  <2>1. Init => \A s \in Socks : ~HasLine(s)
    <3>1. Len(<<>>) = 0 /\ \A i \in 1..0 : FALSE
      OBVIOUS
    <3> QED
      BY <3>1 DEF Init, HasLine
  <2> QED
    BY <2>1 DEF NoLineForgotten
<1>2. ConnInv /\ NoLineForgotten /\ [Next]_vars => NoLineForgotten'
  BY LineStep, DialogAssumption
<1> QED
  BY <1>1, <1>2, ConnAlways, PTL DEF Spec
===============================================================================
