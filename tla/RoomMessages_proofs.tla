-------------------------- MODULE RoomMessages_proofs --------------------------
(***************************************************************************)
(* What holds of pages, log and files for every set of users and rooms and  *)
(* every number of pages and messages.                                      *)
(***************************************************************************)
EXTENDS RoomMessages, SequenceTheorems, WellFoundedInduction, TLAPS

-----------------------------------------------------------------------------
(* The inductive invariant                                                  *)

Different(s) == \A i, j \in 1..Len(s) : s[i] = s[j] => i = j

(* A socket belongs to a page of its user that has taken over; what is      *)
(* recorded of a page is about one that a user listens to.                  *)
SocketsKnown ==
  \A u \in Users : socket[u] # None =>
    /\ socket[u] \in 1..Len(pages)
    /\ pages[socket[u]].user = u /\ pages[socket[u]].stage = "done"

FollowedPages ==
  \A p \in Pages : follows[p] # Never =>
    follows[p] <= Len(said) /\ \E u \in Users : socket[u] = p

PageInv == SocketsKnown /\ FollowedPages /\ NothingMissed

(* Whoever waits to be handled names a room, unless he leaves.              *)
RoomsNamed ==
  \A q \in {events, batch} : \A k \in 1..Len(q) : q[k].type # "part" => q[k].room # None

(* The n-th message that was said has the number n; a file misses only what *)
(* was said.                                                                *)
InTurn(s) == \A k \in 1..Len(s) : s[k].n = k /\ s[k].kind = "said" /\ s[k].to = None

UnwrittenSaid ==
  unwritten.bin \subseteq 1..Len(said) /\ unwritten.txt \subseteq 1..Len(said)

FileInv == InTurn(said) /\ UnwrittenSaid /\ BackupExact

(* Notices in the queue and in the copy are different notices, ...          *)
NoticesOnly ==
  \A s \in {external, copy} : Different(s) /\ \A x \in Range(s) : x.kind = "notice"

(* ... a notice that is still to be handed over was never handed over, ...  *)
NoticesNew ==
  /\ handed \subseteq 1..inputs
  /\ \A m \in telling :
       m.kind = "notice" /\ m.n \in 1..inputs /\ m.n \notin handed
  /\ \A v, w \in telling : v.n = w.n => v = w

(* ... and while the queue is cleared, what is lost is what is not copied.  *)
CopyTaken ==
  /\ Numbers(external) \cap NoticesIn(log) = {}
  /\ pc = "clear" => Numbers(copy) = Numbers(external) \ lost
  /\ pc # "clear" => copy = <<>> /\ Numbers(external) \cap lost = {}

NoticeInv == NoticesOnly /\ NoticesNew /\ CopyTaken /\ LogExact /\ NoticesLogged

MessagesInv == TypeOK /\ PageInv /\ RoomsNamed /\ FileInv /\ NoticeInv

-----------------------------------------------------------------------------
(* Induction, over sets of numbers and of sequences                         *)

(* A set of numbers that is not empty has a least one.                      *)
LEMMA LeastOf ==
  ASSUME NEW T \in SUBSET Nat, T # {}
  PROVE  \E x \in T : \A y \in T : x <= y
<1> DEFINE R == OpToRel(<, Nat)
<1>1. IsWellFoundedOn(R, Nat)
  BY NatLessThanWellFounded, Zenon
<1>2. PICK x \in T : \A y \in T : ~(<<y, x>> \in R)
  <2> HIDE DEF R
  <2> QED
    BY <1>1, WFMin
<1>3. ASSUME NEW y \in T PROVE x <= y
  <2>1. \A i, j \in Nat : i < j => <<i, j>> \in R
    BY Zenon DEF OpToRel
  <2> HIDE DEF R
  <2>2. x \in Nat /\ y \in Nat /\ ~(<<y, x>> \in R)
    BY <1>2
  <2>3. ~(y < x)
    BY <2>1, <2>2
  <2> QED
    BY <2>2, <2>3
<1> HIDE DEF R
<1> QED
  BY <1>3

(* A set that has zero and the successors of its elements has all numbers.  *)
LEMMA NumbersByInduction ==
  ASSUME NEW P, 0 \in P, \A n \in Nat : n \in P => n + 1 \in P
  PROVE  \A n \in Nat : n \in P
<1> DEFINE T == Nat \ P
<1>1. SUFFICES ASSUME T # {} PROVE FALSE
  OBVIOUS
<1>2. PICK x \in T : \A y \in T : x <= y
  <2>1. T \in SUBSET Nat /\ T # {}
    BY <1>1
  <2> HIDE DEF T
  <2> QED
    BY <2>1, LeastOf
<1>3. x # 0 /\ x - 1 \in Nat /\ ~(x <= x - 1)
  BY <1>2
<1>4. x - 1 \in P
  BY <1>2, <1>3
<1>5. (x - 1) + 1 = x
  BY <1>2
<1> QED
  BY <1>2, <1>3, <1>4, <1>5

(* A set that has the empty sequence and keeps what is appended has all.    *)
LEMMA SequencesByInduction ==
  ASSUME NEW S, NEW P, <<>> \in P,
         \A s \in Seq(S), e \in S : s \in P => Append(s, e) \in P
  PROVE  \A s \in Seq(S) : s \in P
<1> DEFINE Q == {n \in Nat : \A s \in Seq(S) : Len(s) = n => s \in P}
<1>1. 0 \in Q
  <2>1. ASSUME NEW s \in Seq(S), Len(s) = 0 PROVE s \in P
    BY <2>1, EmptySeq
  <2> QED
    BY <2>1
<1>2. ASSUME NEW n \in Nat, n \in Q PROVE n + 1 \in Q
  <2>1. ASSUME NEW s \in Seq(S), Len(s) = n + 1 PROVE s \in P
    <3>1. s # <<>>
      BY <2>1, EmptySeq
    <3>2. PICK t \in Seq(S), e \in S : s = Append(t, e)
      BY <3>1, SequenceEmptyOrAppend
    <3>3. Len(t) = n
      BY <2>1, <3>2, AppendProperties, LenProperties
    <3>4. t \in P
      BY <1>2, <3>3
    <3> QED
      BY <3>2, <3>4
  <2> QED
    BY <2>1
<1>3. \A n \in Nat : n \in Q
  <2> HIDE DEF Q
  <2> QED
    BY <1>1, <1>2, NumbersByInduction
<1>4. ASSUME NEW s \in Seq(S) PROVE s \in P
  <2>1. Len(s) \in Nat
    BY LenProperties
  <2> QED
    BY <1>3, <2>1
<1> QED
  BY <1>4

-----------------------------------------------------------------------------
(* Select *)

(* The function upTo of Select.                                             *)
UpTo(s, T, n, f) ==
  f = [i \in 0..n |->
        IF i = 0 THEN <<>>
        ELSE IF s[i] \in T THEN Append(f[i - 1], s[i]) ELSE f[i - 1]]

LEMMA UpToStep ==
  ASSUME NEW s, NEW T, NEW n \in Nat, NEW f, UpTo(s, T, n, f)
  PROVE  /\ f[0] = <<>>
         /\ \A i \in 1..n :
              f[i] = IF s[i] \in T THEN Append(f[i - 1], s[i]) ELSE f[i - 1]
<1>1. f[0] = <<>>
  BY DEF UpTo
<1>2. ASSUME NEW i \in 1..n
      PROVE  f[i] = IF s[i] \in T THEN Append(f[i - 1], s[i]) ELSE f[i - 1]
  <2>1. i \in 0..n /\ i # 0
    OBVIOUS
  <2>2. f = [j \in 0..n |->
              IF j = 0 THEN <<>>
              ELSE IF s[j] \in T THEN Append(f[j - 1], s[j]) ELSE f[j - 1]]
    BY DEF UpTo
  <2> QED
    BY <2>1, <2>2, Zenon
<1> QED
  BY <1>1, <1>2

LEMMA UpToExists ==
  ASSUME NEW s, NEW T
  PROVE  \A n \in Nat : \E f : UpTo(s, T, n, f)
<1> DEFINE P == {n \in Nat : \E f : UpTo(s, T, n, f)}
<1>1. 0 \in P
  <2> DEFINE f == [i \in 0..0 |-> <<>>]
  <2>1. UpTo(s, T, 0, f)
    BY DEF UpTo
  <2> QED
    BY <2>1
<1>2. ASSUME NEW n \in Nat, n \in P PROVE n + 1 \in P
  <2>1. PICK f : UpTo(s, T, n, f)
    BY <1>2
  <2> DEFINE last == IF s[n + 1] \in T THEN Append(f[n], s[n + 1]) ELSE f[n]
             g == [i \in 0..(n + 1) |-> IF i <= n THEN f[i] ELSE last]
  <2>2. ASSUME NEW i \in 0..(n + 1)
        PROVE  g[i] = IF i = 0 THEN <<>>
                      ELSE IF s[i] \in T THEN Append(g[i - 1], s[i]) ELSE g[i - 1]
    <3>1. CASE i = 0
      BY <2>1, <3>1 DEF UpTo
    <3>2. CASE i \in 1..n
      <4>1. g[i] = f[i] /\ g[i - 1] = f[i - 1]
        BY <3>2
      <4>2. f[i] = IF s[i] \in T THEN Append(f[i - 1], s[i]) ELSE f[i - 1]
        BY <2>1, <3>2, UpToStep
      <4> HIDE DEF g
      <4> QED
        BY <3>2, <4>1, <4>2
    <3>3. CASE i = n + 1
      <4>1. g[i] = last /\ g[i - 1] = f[n]
        BY <3>3
      <4> QED
        BY <3>3, <4>1
    <3> QED
      BY <3>1, <3>2, <3>3
  <2>3. UpTo(s, T, n + 1, g)
    BY <2>2 DEF UpTo
  <2> QED
    BY <2>3
<1>3. \A n \in Nat : n \in P
  <2> HIDE DEF P
  <2> QED
    BY <1>1, <1>2, NumbersByInduction
<1> QED
  BY <1>3

LEMMA SelectDef ==
  ASSUME NEW S, NEW s \in Seq(S), NEW T
  PROVE  \E f : UpTo(s, T, Len(s), f) /\ Select(s, T) = f[Len(s)]
<1>1. \E f : UpTo(s, T, Len(s), f)
  BY UpToExists, LenProperties
<1>2. UpTo(s, T, Len(s), CHOOSE f : UpTo(s, T, Len(s), f))
  BY <1>1
<1>3. Select(s, T) = (CHOOSE f : UpTo(s, T, Len(s), f))[Len(s)]
  BY DEF Select, UpTo
<1> QED
  BY <1>2, <1>3

LEMMA SelectEmpty ==
  ASSUME NEW T
  PROVE  Select(<<>>, T) = <<>>
<1>1. <<>> \in Seq({}) /\ Len(<<>>) = 0
  BY EmptySeq
<1>2. PICK f : UpTo(<<>>, T, 0, f) /\ Select(<<>>, T) = f[0]
  BY <1>1, SelectDef
<1> QED
  BY <1>2 DEF UpTo

LEMMA SelectAppend ==
  ASSUME NEW S, NEW s \in Seq(S), NEW e \in S, NEW T
  PROVE  Select(Append(s, e), T) = IF e \in T THEN Append(Select(s, T), e) ELSE Select(s, T)
<1> DEFINE t == Append(s, e)
<1>1. /\ Len(s) \in Nat /\ t \in Seq(S) /\ Len(t) = Len(s) + 1
      /\ t[Len(s) + 1] = e /\ \A i \in 1..Len(s) : t[i] = s[i]
  BY AppendProperties, LenProperties
<1>2. PICK f : UpTo(s, T, Len(s), f) /\ Select(s, T) = f[Len(s)]
  BY SelectDef
<1>3. PICK g : UpTo(t, T, Len(s) + 1, g) /\ Select(t, T) = g[Len(s) + 1]
  <2> HIDE DEF t
  <2> QED
    BY <1>1, SelectDef
<1> HIDE DEF t
<1>4. \A i \in 1..(Len(s) + 1) :
        g[i] = IF t[i] \in T THEN Append(g[i - 1], t[i]) ELSE g[i - 1]
  <2>1. Len(s) + 1 \in Nat
    BY <1>1
  <2> QED
    BY <1>3, <2>1, UpToStep
<1> DEFINE P == {n \in Nat : n <= Len(s) => f[n] = g[n]}
<1>5. 0 \in P
  BY <1>1, <1>2, <1>3 DEF UpTo
<1>6. ASSUME NEW n \in Nat, n \in P PROVE n + 1 \in P
  <2>1. SUFFICES ASSUME n + 1 <= Len(s) PROVE f[n + 1] = g[n + 1]
    OBVIOUS
  <2>2. n + 1 \in 1..Len(s) /\ (n + 1) - 1 = n /\ n + 1 # 0
    BY <1>1, <2>1
  <2>3. f[n] = g[n] /\ t[n + 1] = s[n + 1]
    BY <1>1, <1>6, <2>1, <2>2
  <2>4. f[n + 1] = IF s[n + 1] \in T THEN Append(f[n], s[n + 1]) ELSE f[n]
    BY <1>1, <1>2, <2>2, UpToStep
  <2>5. g[n + 1] = IF t[n + 1] \in T THEN Append(g[n], t[n + 1]) ELSE g[n]
    BY <1>1, <1>4, <2>2
  <2> QED
    BY <2>3, <2>4, <2>5
<1>7. \A n \in Nat : n \in P
  <2> HIDE DEF P
  <2> QED
    BY <1>5, <1>6, NumbersByInduction
<1>8. f[Len(s)] = g[Len(s)]
  BY <1>1, <1>7
<1>9. g[Len(s) + 1] = IF e \in T THEN Append(g[Len(s)], e) ELSE g[Len(s)]
  <2>1. Len(s) + 1 \in Nat /\ Len(s) + 1 \in 1..(Len(s) + 1) /\ (Len(s) + 1) - 1 = Len(s)
    BY <1>1
  <2> QED
    BY <1>1, <1>4, <2>1
<1> QED
  BY <1>2, <1>3, <1>8, <1>9 DEF t

LEMMA SelectType ==
  ASSUME NEW S, NEW s \in Seq(S), NEW T
  PROVE  Select(s, T) \in Seq(S) /\ Len(Select(s, T)) <= Len(s)
<1> DEFINE P == {t \in Seq(S) : Select(t, T) \in Seq(S) /\ Len(Select(t, T)) <= Len(t)}
<1>1. <<>> \in P
  <2>1. <<>> \in Seq(S) /\ Select(<<>>, T) = <<>>
    BY EmptySeq, SelectEmpty
  <2>2. Len(<<>>) <= Len(<<>>)
    OBVIOUS
  <2> QED
    BY <2>1, <2>2, Zenon
<1>2. ASSUME NEW t \in Seq(S), NEW e \in S, t \in P PROVE Append(t, e) \in P
  <2>1. Select(t, T) \in Seq(S) /\ Len(Select(t, T)) <= Len(t)
    BY <1>2
  <2>2. Append(t, e) \in Seq(S) /\ Len(Append(t, e)) = Len(t) + 1 /\ Len(t) \in Nat
    BY AppendProperties, LenProperties
  <2>3. /\ Append(Select(t, T), e) \in Seq(S)
        /\ Len(Append(Select(t, T), e)) = Len(Select(t, T)) + 1
        /\ Len(Select(t, T)) \in Nat
    BY <2>1, AppendProperties, LenProperties
  <2>4. Select(Append(t, e), T) = IF e \in T THEN Append(Select(t, T), e) ELSE Select(t, T)
    BY SelectAppend
  <2>5. /\ Select(Append(t, e), T) \in Seq(S)
        /\ Len(Select(Append(t, e), T)) <= Len(Append(t, e))
    <3>1. CASE e \in T
      BY <2>1, <2>2, <2>3, <2>4, <3>1
    <3>2. CASE e \notin T
      BY <2>1, <2>2, <2>3, <2>4, <3>2
    <3> QED
      BY <3>1, <3>2
  <2> QED
    BY <2>2, <2>5, Zenon
<1> HIDE DEF P
<1>3. \A t \in Seq(S) : t \in P
  BY <1>1, <1>2, SequencesByInduction
<1> QED
  BY <1>3 DEF P

LEMMA RangeAppend ==
  ASSUME NEW S, NEW s \in Seq(S), NEW e \in S
  PROVE  Range(Append(s, e)) = Range(s) \cup {e}
<1>1. Append(s, e) = s \o <<e>> /\ <<e>> \in Seq(S)
  BY AppendIsConcat
<1>2. Range(<<e>>) = {e}
  BY DEF Range
<1>3. Range(s \o <<e>>) = Range(s) \cup Range(<<e>>)
  BY <1>1, RangeConcatenation, SMTT(30)
<1> QED
  BY <1>1, <1>2, <1>3

LEMMA RangeEmpty == Range(<<>>) = {}
  BY DEF Range

LEMMA SelectRange ==
  ASSUME NEW S, NEW s \in Seq(S), NEW T
  PROVE  Range(Select(s, T)) = Range(s) \cap T
<1> DEFINE P == {t \in Seq(S) : Range(Select(t, T)) = Range(t) \cap T}
<1>1. <<>> \in P
  BY EmptySeq, SelectEmpty, RangeEmpty
<1>2. ASSUME NEW t \in Seq(S), NEW e \in S, t \in P PROVE Append(t, e) \in P
  <2>1. Range(Select(t, T)) = Range(t) \cap T /\ Select(t, T) \in Seq(S)
    BY <1>2, SelectType
  <2>2. Append(t, e) \in Seq(S) /\ Range(Append(t, e)) = Range(t) \cup {e}
    BY AppendProperties, RangeAppend
  <2>3. Range(Append(Select(t, T), e)) = Range(Select(t, T)) \cup {e}
    BY <2>1, RangeAppend
  <2>4. Select(Append(t, e), T) = IF e \in T THEN Append(Select(t, T), e) ELSE Select(t, T)
    BY SelectAppend
  <2> QED
    BY <2>1, <2>2, <2>3, <2>4
<1> HIDE DEF P
<1>3. \A t \in Seq(S) : t \in P
  BY <1>1, <1>2, SequencesByInduction
<1> QED
  BY <1>3 DEF P

LEMMA ConcatAppend ==
  ASSUME NEW S, NEW s \in Seq(S), NEW t \in Seq(S), NEW e \in S
  PROVE  s \o Append(t, e) = Append(s \o t, e)
<1>1. Append(t, e) = t \o <<e>> /\ <<e>> \in Seq(S) /\ s \o t \in Seq(S)
  BY AppendIsConcat, ConcatProperties
<1>2. Append(s \o t, e) = (s \o t) \o <<e>>
  BY <1>1, AppendIsConcat
<1> QED
  BY <1>1, <1>2, ConcatAssociative

LEMMA SelectConcat ==
  ASSUME NEW S, NEW s \in Seq(S), NEW t \in Seq(S), NEW T
  PROVE  Select(s \o t, T) = Select(s, T) \o Select(t, T)
<1> DEFINE P == {v \in Seq(S) : Select(s \o v, T) = Select(s, T) \o Select(v, T)}
<1>1. <<>> \in P
  BY EmptySeq, SelectEmpty, SelectType, ConcatEmptySeq
<1>2. ASSUME NEW v \in Seq(S), NEW e \in S, v \in P PROVE Append(v, e) \in P
  <2>1. /\ Select(s \o v, T) = Select(s, T) \o Select(v, T)
        /\ Select(s, T) \in Seq(S) /\ Select(v, T) \in Seq(S) /\ s \o v \in Seq(S)
    BY <1>2, SelectType, ConcatProperties
  <2>2. Append(v, e) \in Seq(S) /\ s \o Append(v, e) = Append(s \o v, e)
    BY AppendProperties, ConcatAppend
  <2>3. Select(Append(s \o v, e), T)
          = IF e \in T THEN Append(Select(s \o v, T), e) ELSE Select(s \o v, T)
    <3>1. s \o v \in Seq(S)
      BY <2>1
    <3> QED
      BY <3>1, SelectAppend
  <2>4. Select(Append(v, e), T) = IF e \in T THEN Append(Select(v, T), e) ELSE Select(v, T)
    BY SelectAppend
  <2>5. Select(s, T) \o Append(Select(v, T), e) = Append(Select(s, T) \o Select(v, T), e)
    BY <2>1, ConcatAppend
  <2> QED
    BY <2>1, <2>2, <2>3, <2>4, <2>5
<1> HIDE DEF P
<1>3. \A v \in Seq(S) : v \in P
  BY <1>1, <1>2, SequencesByInduction
<1> QED
  BY <1>3 DEF P

LEMMA SelectTwice ==
  ASSUME NEW S, NEW s \in Seq(S), NEW T, NEW U
  PROVE  Select(Select(s, T), U) = Select(s, T \cap U)
<1> DEFINE P == {v \in Seq(S) : Select(Select(v, T), U) = Select(v, T \cap U)}
<1>1. <<>> \in P
  BY EmptySeq, SelectEmpty
<1>2. ASSUME NEW v \in Seq(S), NEW e \in S, v \in P PROVE Append(v, e) \in P
  <2>1. Select(Select(v, T), U) = Select(v, T \cap U) /\ Select(v, T) \in Seq(S)
    BY <1>2, SelectType
  <2>2. Append(v, e) \in Seq(S)
    BY AppendProperties
  <2>3. Select(Append(v, e), T) = IF e \in T THEN Append(Select(v, T), e) ELSE Select(v, T)
    BY SelectAppend
  <2>4. Select(Append(Select(v, T), e), U)
          = IF e \in U THEN Append(Select(Select(v, T), U), e) ELSE Select(Select(v, T), U)
    <3>1. Select(v, T) \in Seq(S)
      BY <2>1
    <3> QED
      BY <3>1, SelectAppend, Zenon
  <2>5. Select(Append(v, e), T \cap U)
          = IF e \in T \cap U THEN Append(Select(v, T \cap U), e) ELSE Select(v, T \cap U)
    BY SelectAppend
  <2>6. Select(Select(Append(v, e), T), U) = Select(Append(v, e), T \cap U)
    <3>1. CASE e \in T /\ e \in U
      BY <2>1, <2>3, <2>4, <2>5, <3>1
    <3>2. CASE e \in T /\ e \notin U
      BY <2>1, <2>3, <2>4, <2>5, <3>2
    <3>3. CASE e \notin T
      BY <2>1, <2>3, <2>5, <3>3
    <3> QED
      BY <3>1, <3>2, <3>3
  <2> QED
    BY <2>2, <2>6
<1> HIDE DEF P
<1>3. \A v \in Seq(S) : v \in P
  BY <1>1, <1>2, SequencesByInduction
<1> QED
  BY <1>3 DEF P

(* Sets that have the same elements of s select the same.                   *)
LEMMA SelectAgree ==
  ASSUME NEW S, NEW s \in Seq(S), NEW T, NEW U, \A x \in Range(s) : x \in T <=> x \in U
  PROVE  Select(s, T) = Select(s, U)
<1> DEFINE P == {v \in Seq(S) :
                   (\A x \in Range(v) : x \in T <=> x \in U) => Select(v, T) = Select(v, U)}
<1>1. <<>> \in P
  BY EmptySeq, SelectEmpty
<1>2. ASSUME NEW v \in Seq(S), NEW e \in S, v \in P PROVE Append(v, e) \in P
  <2>1. Append(v, e) \in Seq(S) /\ Range(Append(v, e)) = Range(v) \cup {e}
    BY AppendProperties, RangeAppend
  <2>2. SUFFICES ASSUME \A x \in Range(v) \cup {e} : x \in T <=> x \in U
                 PROVE  Select(Append(v, e), T) = Select(Append(v, e), U)
    BY <2>1
  <2>3. Select(v, T) = Select(v, U) /\ (e \in T <=> e \in U)
    BY <1>2, <2>2
  <2>4. Select(Append(v, e), T) = IF e \in T THEN Append(Select(v, T), e) ELSE Select(v, T)
    BY SelectAppend
  <2>5. Select(Append(v, e), U) = IF e \in U THEN Append(Select(v, U), e) ELSE Select(v, U)
    BY SelectAppend
  <2> QED
    BY <2>3, <2>4, <2>5
<1> HIDE DEF P
<1>3. \A v \in Seq(S) : v \in P
  BY <1>1, <1>2, SequencesByInduction
<1> QED
  BY <1>3 DEF P

LEMMA SelectAll ==
  ASSUME NEW S, NEW s \in Seq(S), NEW T, Range(s) \subseteq T
  PROVE  Select(s, T) = s
<1> DEFINE P == {v \in Seq(S) : Range(v) \subseteq T => Select(v, T) = v}
<1>1. <<>> \in P
  BY EmptySeq, SelectEmpty
<1>2. ASSUME NEW v \in Seq(S), NEW e \in S, v \in P PROVE Append(v, e) \in P
  <2>1. Append(v, e) \in Seq(S) /\ Range(Append(v, e)) = Range(v) \cup {e}
    BY AppendProperties, RangeAppend
  <2> QED
    BY <1>2, <2>1, SelectAppend
<1> HIDE DEF P
<1>3. \A v \in Seq(S) : v \in P
  BY <1>1, <1>2, SequencesByInduction
<1> QED
  BY <1>3 DEF P

LEMMA SelectNothing ==
  ASSUME NEW S, NEW s \in Seq(S), NEW T, Range(s) \cap T = {}
  PROVE  Select(s, T) = <<>>
<1>1. Select(s, T) \in Seq(S) /\ Range(Select(s, T)) = {}
  BY SelectType, SelectRange
<1>2. ASSUME Select(s, T) # <<>> PROVE FALSE
  <2>1. Len(Select(s, T)) \in Nat \ {0}
    BY <1>1, <1>2, EmptySeq
  <2>2. Select(s, T)[1] \in Range(Select(s, T))
    <3>1. Range(Select(s, T)) = {Select(s, T)[i] : i \in 1..Len(Select(s, T))}
      BY <1>1, RangeEquality
    <3> QED
      BY <2>1, <3>1
  <2> QED
    BY <1>1, <2>2
<1> QED
  BY <1>2

-----------------------------------------------------------------------------
(* Ends of sequences, elements that differ, elements in order               *)

(* t is s with something before it. *)
Front(S, s, t) == s \in Seq(S) /\ \E p \in Seq(S) : t = p \o s

LEMMA EndHasFront ==
  ASSUME NEW S, NEW t \in Seq(S), NEW s, IsEndOf(s, t)
  PROVE  Front(S, s, t)
<1>1. Len(t) \in Nat /\ \A i \in 1..Len(t) : t[i] \in S
  BY LenProperties, ElementOfSeq
<1>2. PICK k \in 0..Len(t) : s = SubSeq(t, k + 1, Len(t))
  BY DEF IsEndOf
<1>3. s \in Seq(S)
  <2>1. k + 1 \in Int /\ Len(t) \in Int /\ \A i \in (k + 1)..Len(t) : t[i] \in S
    BY <1>1
  <2> QED
    BY <1>2, <2>1, SubSeqProperties
<1>4. SubSeq(t, 1, k) \in Seq(S)
  <2>1. k \in Int /\ \A i \in 1..k : t[i] \in S
    BY <1>1
  <2> QED
    BY <2>1, SubSeqProperties
<1>5. SubSeq(t, 1, k) \o SubSeq(t, k + 1, Len(t)) = SubSeq(t, 1, Len(t))
  <2>1. 1 \in 1..(Len(t) + 1) /\ k \in (1 - 1)..Len(t) /\ Len(t) \in k..Len(t)
    BY <1>1
  <2> QED
    BY <2>1, ConcatAdjacentSubSeq
<1>6. SubSeq(t, 1, Len(t)) = t
  BY SubSeqFull
<1>7. t = SubSeq(t, 1, k) \o s
  BY <1>2, <1>5, <1>6, Zenon
<1> QED
  BY <1>3, <1>4, <1>7, Zenon DEF Front

LEMMA ConcatHasEnd ==
  ASSUME NEW S, NEW p \in Seq(S), NEW s \in Seq(S)
  PROVE  IsEndOf(s, p \o s)
<1> DEFINE t == p \o s
           v == SubSeq(t, Len(p) + 1, Len(t))
<1>1. /\ Len(p) \in Nat /\ Len(s) \in Nat /\ Len(t) = Len(p) + Len(s) /\ t \in Seq(S)
      /\ \A i \in 1..(Len(p) + Len(s)) : t[i] = IF i <= Len(p) THEN p[i] ELSE s[i - Len(p)]
  BY ConcatProperties, LenProperties
<1>2. \A i \in 1..Len(t) : t[i] \in S
  BY <1>1, ElementOfSeq
<1> HIDE DEF t
<1>3. /\ v \in Seq(S)
      /\ Len(v) = IF Len(p) + 1 <= Len(t) THEN Len(t) - (Len(p) + 1) + 1 ELSE 0
      /\ \A i \in 1..(Len(t) - (Len(p) + 1) + 1) : v[i] = t[(Len(p) + 1) + i - 1]
  <2>1. Len(p) + 1 \in Int /\ Len(t) \in Int /\ \A i \in (Len(p) + 1)..Len(t) : t[i] \in S
    BY <1>1, <1>2
  <2> QED
    BY <2>1, SubSeqProperties
<1>4. Len(v) = Len(s)
  BY <1>1, <1>3
<1>5. ASSUME NEW i \in 1..Len(v) PROVE v[i] = s[i]
  <2>1. i \in 1..(Len(t) - (Len(p) + 1) + 1) /\ (Len(p) + 1) + i - 1 = Len(p) + i
    BY <1>1, <1>4
  <2>2. v[i] = t[Len(p) + i]
    BY <1>3, <2>1
  <2>3. Len(p) + i \in 1..(Len(p) + Len(s)) /\ ~(Len(p) + i <= Len(p)) /\ (Len(p) + i) - Len(p) = i
    BY <1>1, <1>4
  <2> QED
    BY <1>1, <2>2, <2>3
<1>6. v = s
  <2> HIDE DEF v
  <2> QED
    BY <1>3, <1>4, <1>5, SeqEqual
<1>7. Len(p) \in 0..Len(t)
  BY <1>1
<1>8. IsEndOf(s, t)
  BY <1>6, <1>7 DEF IsEndOf
<1> QED
  BY <1>8 DEF t

LEMMA EndConcat ==
  ASSUME NEW S, NEW t \in Seq(S), NEW s, IsEndOf(s, t), NEW v \in Seq(S)
  PROVE  IsEndOf(s \o v, t \o v)
<1>1. PICK p \in Seq(S) : s \in Seq(S) /\ t = p \o s
  <2>1. Front(S, s, t)
    BY EndHasFront
  <2> QED
    BY <2>1 DEF Front
<1>2. s \o v \in Seq(S)
  BY <1>1, ConcatProperties
<1>3. t \o v = p \o (s \o v)
  BY <1>1, ConcatAssociative
<1> QED
  BY <1>2, <1>3, ConcatHasEnd

LEMMA EndOfEnd ==
  ASSUME NEW S, NEW v \in Seq(S), NEW t, IsEndOf(t, v), NEW s, IsEndOf(s, t)
  PROVE  IsEndOf(s, v)
<1>1. PICK p \in Seq(S) : t \in Seq(S) /\ v = p \o t
  <2>1. Front(S, t, v)
    BY EndHasFront
  <2> QED
    BY <2>1 DEF Front
<1>2. PICK q \in Seq(S) : s \in Seq(S) /\ t = q \o s
  <2>1. Front(S, s, t)
    BY <1>1, EndHasFront
  <2> QED
    BY <2>1 DEF Front
<1>3. (p \o q) \o s = p \o (q \o s) /\ p \o q \in Seq(S)
  BY <1>1, <1>2, ConcatAssociative, ConcatProperties, SMTT(30)
<1>4. IsEndOf(s, (p \o q) \o s)
  BY <1>2, <1>3, ConcatHasEnd
<1> QED
  BY <1>1, <1>2, <1>3, <1>4

LEMMA SelectEnd ==
  ASSUME NEW S, NEW t \in Seq(S), NEW s, IsEndOf(s, t), NEW T
  PROVE  IsEndOf(Select(s, T), Select(t, T))
<1>1. PICK p \in Seq(S) : s \in Seq(S) /\ t = p \o s
  <2>1. Front(S, s, t)
    BY EndHasFront
  <2> QED
    BY <2>1 DEF Front
<1>2. Select(t, T) = Select(p, T) \o Select(s, T)
  BY <1>1, SelectConcat
<1>3. Select(t, T) \in Seq(S) /\ Select(p, T) \in Seq(S) /\ Select(s, T) \in Seq(S)
  BY <1>1, SelectType
<1> QED
  BY <1>2, <1>3, ConcatHasEnd

LEMMA EndItself ==
  ASSUME NEW S, NEW t \in Seq(S)
  PROVE  IsEndOf(t, t)
<1>1. <<>> \in Seq(S) /\ t = <<>> \o t
  BY EmptySeq, ConcatEmptySeq
<1> QED
  BY <1>1, ConcatHasEnd

LEMMA EndRange ==
  ASSUME NEW S, NEW t \in Seq(S), NEW s, IsEndOf(s, t)
  PROVE  s \in Seq(S) /\ Range(s) \subseteq Range(t)
<1>1. PICK p \in Seq(S) : s \in Seq(S) /\ t = p \o s
  <2>1. Front(S, s, t)
    BY EndHasFront
  <2> QED
    BY <2>1 DEF Front
<1>2. Range(t) = Range(p) \cup Range(s)
  BY <1>1, RangeConcatenation
<1> QED
  BY <1>1, <1>2

LEMMA DifferentConcat ==
  ASSUME NEW S, NEW s \in Seq(S), NEW t \in Seq(S)
  PROVE  Different(s \o t) <=> Different(s) /\ Different(t) /\ Range(s) \cap Range(t) = {}
<1>1. /\ Len(s) \in Nat /\ Len(t) \in Nat /\ Len(s \o t) = Len(s) + Len(t)
      /\ \A i \in 1..(Len(s) + Len(t)) : (s \o t)[i] = IF i <= Len(s) THEN s[i] ELSE t[i - Len(s)]
  BY ConcatProperties, LenProperties
<1>2. Range(s) = {s[i] : i \in 1..Len(s)} /\ Range(t) = {t[i] : i \in 1..Len(t)}
  BY RangeEquality
<1>3. \A i \in 1..Len(s) : i \in 1..(Len(s) + Len(t)) /\ (s \o t)[i] = s[i]
  BY <1>1
<1>4. \A i \in 1..Len(t) : Len(s) + i \in 1..(Len(s) + Len(t)) /\ (s \o t)[Len(s) + i] = t[i]
  <2>1. ASSUME NEW i \in 1..Len(t)
        PROVE  Len(s) + i \in 1..(Len(s) + Len(t)) /\ (s \o t)[Len(s) + i] = t[i]
    <3>1. Len(s) + i \in 1..(Len(s) + Len(t)) /\ ~(Len(s) + i <= Len(s)) /\ (Len(s) + i) - Len(s) = i
      BY <1>1
    <3> QED
      BY <1>1, <3>1
  <2> QED
    BY <2>1
<1>5. ASSUME Different(s \o t)
      PROVE  Different(s) /\ Different(t) /\ Range(s) \cap Range(t) = {}
  <2>1. Different(s)
    BY <1>1, <1>3, <1>5 DEF Different
  <2>2. ASSUME NEW i \in 1..Len(t), NEW j \in 1..Len(t), t[i] = t[j] PROVE i = j
    <3>1. Len(s) + i = Len(s) + j
      BY <1>1, <1>4, <1>5, <2>2 DEF Different
    <3> QED
      BY <1>1, <3>1
  <2>3. ASSUME NEW i \in 1..Len(s), NEW j \in 1..Len(t), s[i] = t[j] PROVE FALSE
    <3>1. i = Len(s) + j
      BY <1>1, <1>3, <1>4, <1>5, <2>3 DEF Different
    <3> QED
      BY <1>1, <3>1
  <2> QED
    BY <1>2, <2>1, <2>2, <2>3 DEF Different
<1>6. ASSUME Different(s), Different(t), Range(s) \cap Range(t) = {},
             NEW i \in 1..(Len(s) + Len(t)), NEW j \in 1..(Len(s) + Len(t)),
             (s \o t)[i] = (s \o t)[j]
      PROVE  i = j
  <2>1. ASSUME NEW k \in 1..(Len(s) + Len(t)), k <= Len(s)
        PROVE  k \in 1..Len(s) /\ (s \o t)[k] = s[k]
    BY <1>1, <2>1
  <2>2. ASSUME NEW k \in 1..(Len(s) + Len(t)), ~(k <= Len(s))
        PROVE  k - Len(s) \in 1..Len(t) /\ (s \o t)[k] = t[k - Len(s)]
    BY <1>1, <2>2
  <2>3. CASE i <= Len(s) /\ j <= Len(s)
    BY <1>6, <2>1, <2>3 DEF Different
  <2>4. CASE ~(i <= Len(s)) /\ ~(j <= Len(s))
    <3>1. i - Len(s) = j - Len(s)
      BY <1>6, <2>2, <2>4 DEF Different
    <3> QED
      BY <1>1, <3>1
  <2>5. CASE i <= Len(s) /\ ~(j <= Len(s))
    BY <1>2, <1>6, <2>1, <2>2, <2>5
  <2>6. CASE ~(i <= Len(s)) /\ j <= Len(s)
    BY <1>2, <1>6, <2>1, <2>2, <2>6
  <2> QED
    BY <2>3, <2>4, <2>5, <2>6
<1> QED
  BY <1>1, <1>5, <1>6 DEF Different

LEMMA DifferentEnd ==
  ASSUME NEW S, NEW t \in Seq(S), NEW s, IsEndOf(s, t), Different(t)
  PROVE  Different(s)
<1>1. PICK p \in Seq(S) : s \in Seq(S) /\ t = p \o s
  <2>1. Front(S, s, t)
    BY EndHasFront
  <2> QED
    BY <2>1 DEF Front
<1> QED
  BY <1>1, DifferentConcat

InOrder(s) == \A i, j \in 1..Len(s) : i < j => s[i].n < s[j].n

LEMMA InOrderAppend ==
  ASSUME NEW S, NEW s \in Seq(S), NEW e \in S
  PROVE  InOrder(Append(s, e)) <=> InOrder(s) /\ \A x \in Range(s) : x.n < e.n
<1> DEFINE t == Append(s, e)
<1>1. /\ Len(s) \in Nat /\ Len(t) = Len(s) + 1
      /\ t[Len(s) + 1] = e /\ \A i \in 1..Len(s) : t[i] = s[i]
  BY AppendProperties, LenProperties
<1>2. Range(s) = {s[i] : i \in 1..Len(s)}
  BY RangeEquality
<1> HIDE DEF t
<1>3. ASSUME InOrder(t) PROVE InOrder(s) /\ \A x \in Range(s) : x.n < e.n
  <2>1. ASSUME NEW i \in 1..Len(s), NEW j \in 1..Len(s), i < j PROVE s[i].n < s[j].n
    <3>1. i \in 1..Len(t) /\ j \in 1..Len(t)
      BY <1>1
    <3> QED
      BY <1>1, <1>3, <2>1, <3>1 DEF InOrder
  <2>2. ASSUME NEW i \in 1..Len(s) PROVE s[i].n < e.n
    <3>1. i \in 1..Len(t) /\ Len(s) + 1 \in 1..Len(t) /\ i < Len(s) + 1
      BY <1>1
    <3> QED
      BY <1>1, <1>3, <3>1 DEF InOrder
  <2> QED
    BY <1>2, <2>1, <2>2 DEF InOrder
<1>4. ASSUME InOrder(s), \A x \in Range(s) : x.n < e.n,
             NEW i \in 1..Len(t), NEW j \in 1..Len(t), i < j
      PROVE  t[i].n < t[j].n
  <2>1. i \in 1..Len(s)
    BY <1>1, <1>4
  <2>2. CASE j \in 1..Len(s)
    BY <1>1, <1>4, <2>1, <2>2 DEF InOrder
  <2>3. CASE j = Len(s) + 1
    BY <1>1, <1>2, <1>4, <2>1, <2>3
  <2> QED
    BY <1>1, <2>2, <2>3
<1>5. InOrder(t) <=> InOrder(s) /\ \A x \in Range(s) : x.n < e.n
  BY <1>3, <1>4 DEF InOrder
<1> QED
  BY <1>5 DEF t

LEMMA SelectInOrder ==
  ASSUME NEW S, NEW s \in Seq(S), InOrder(s), NEW T
  PROVE  InOrder(Select(s, T))
<1> DEFINE P == {v \in Seq(S) : InOrder(v) => InOrder(Select(v, T))}
<1>1. <<>> \in P
  BY EmptySeq, SelectEmpty
<1>2. ASSUME NEW v \in Seq(S), NEW e \in S, v \in P PROVE Append(v, e) \in P
  <2>1. Append(v, e) \in Seq(S) /\ Select(v, T) \in Seq(S)
    BY AppendProperties, SelectType
  <2>2. SUFFICES ASSUME InOrder(Append(v, e)) PROVE InOrder(Select(Append(v, e), T))
    BY <2>1
  <2>3. InOrder(v) /\ \A x \in Range(v) : x.n < e.n
    BY <2>2, InOrderAppend
  <2>4. InOrder(Select(v, T)) /\ Range(Select(v, T)) \subseteq Range(v)
    BY <1>2, <2>3, SelectRange
  <2>5. Select(Append(v, e), T) = IF e \in T THEN Append(Select(v, T), e) ELSE Select(v, T)
    BY SelectAppend
  <2>6. InOrder(Append(Select(v, T), e))
    BY <2>1, <2>3, <2>4, InOrderAppend
  <2> QED
    BY <2>4, <2>5, <2>6
<1> HIDE DEF P
<1>3. \A v \in Seq(S) : v \in P
  BY <1>1, <1>2, SequencesByInduction
<1> QED
  BY <1>3 DEF P

LEMMA InOrderConcat ==
  ASSUME NEW S, NEW s \in Seq(S), NEW t \in Seq(S), InOrder(s \o t),
         NEW x \in Range(s), NEW y \in Range(t)
  PROVE  x.n < y.n
<1>1. /\ Len(s) \in Nat /\ Len(t) \in Nat /\ Len(s \o t) = Len(s) + Len(t)
      /\ \A i \in 1..(Len(s) + Len(t)) : (s \o t)[i] = IF i <= Len(s) THEN s[i] ELSE t[i - Len(s)]
  BY ConcatProperties, LenProperties
<1>2. PICK i \in 1..Len(s) : x = s[i]
  BY RangeEquality
<1>3. PICK j \in 1..Len(t) : y = t[j]
  BY RangeEquality
<1>4. /\ i \in 1..(Len(s) + Len(t)) /\ Len(s) + j \in 1..(Len(s) + Len(t))
      /\ i < Len(s) + j /\ ~(Len(s) + j <= Len(s)) /\ (Len(s) + j) - Len(s) = j /\ i <= Len(s)
  BY <1>1
<1>5. (s \o t)[i] = x /\ (s \o t)[Len(s) + j] = y
  BY <1>1, <1>2, <1>3, <1>4
<1> QED
  BY <1>1, <1>4, <1>5 DEF InOrder

LEMMA FrontInOrder ==
  ASSUME NEW S, NEW s \in Seq(S), NEW t \in Seq(S), InOrder(s \o t)
  PROVE  InOrder(s)
<1>1. /\ Len(s) \in Nat /\ Len(t) \in Nat /\ Len(s \o t) = Len(s) + Len(t)
      /\ \A i \in 1..(Len(s) + Len(t)) : (s \o t)[i] = IF i <= Len(s) THEN s[i] ELSE t[i - Len(s)]
  BY ConcatProperties, LenProperties
<1>2. ASSUME NEW i \in 1..Len(s) PROVE i \in 1..Len(s \o t) /\ (s \o t)[i] = s[i]
  BY <1>1
<1> QED
  BY <1>2 DEF InOrder

-----------------------------------------------------------------------------
(* Messages and notices: which are selected                                 *)

Room(r)       == [kind : Kinds, room : {r}, to : Anyone, n : Nat]
Without(gone) == [kind : Kinds, room : Rooms, to : Anyone, n : Nat \ gone]

LEMMA ItemSets ==
  ASSUME NEW x \in Items
  PROVE  /\ \A k \in Kinds : x \in OfKind(k) <=> x.kind = k
         /\ \A r : x \in Room(r) <=> x.room = r
         /\ \A r, u : x \in Seen(r, u) <=> x.room = r /\ x.to \in {None, u}
         /\ \A gone : x \in Without(gone) <=> x.n \notin gone
         /\ x.kind \in Kinds /\ x.room \in Rooms /\ x.to \in Anyone /\ x.n \in Nat
<1>1. /\ x = [kind |-> x.kind, room |-> x.room, to |-> x.to, n |-> x.n]
      /\ x.kind \in Kinds /\ x.room \in Rooms /\ x.to \in Anyone /\ x.n \in Nat
  BY DEF Items
<1>2. \A k \in Kinds : x \in OfKind(k) <=> x.kind = k
  BY <1>1 DEF OfKind
<1>3. \A r : x \in Room(r) <=> x.room = r
  BY <1>1 DEF Room
<1>4. \A r, u : x \in Seen(r, u) <=> x.room = r /\ x.to \in {None, u}
  BY <1>1 DEF Seen
<1>5. \A gone : x \in Without(gone) <=> x.n \notin gone
  BY <1>1 DEF Without
<1> QED
  BY <1>1, <1>2, <1>3, <1>4, <1>5

LEMMA OnlyConcat ==
  ASSUME NEW s \in Seq(Items), NEW t \in Seq(Items), NEW k
  PROVE  Only(s \o t, k) = Only(s, k) \o Only(t, k)
  BY SelectConcat DEF Only

LEMMA OnlyType ==
  ASSUME NEW s \in Seq(Items), NEW k
  PROVE  Only(s, k) \in Seq(Items) /\ Len(Only(s, k)) <= Len(s)
  BY SelectType DEF Only

LEMMA OnlyAll ==
  ASSUME NEW s \in Seq(Items), NEW k \in Kinds, \A x \in Range(s) : x.kind = k
  PROVE  Only(s, k) = s
<1>1. Range(s) \subseteq OfKind(k)
  BY RangeOfSeq, ItemSets
<1> QED
  BY <1>1, SelectAll DEF Only

LEMMA OnlyNone ==
  ASSUME NEW s \in Seq(Items), NEW k \in Kinds, \A x \in Range(s) : x.kind # k
  PROVE  Only(s, k) = <<>>
<1>1. Range(s) \cap OfKind(k) = {}
  BY RangeOfSeq, ItemSets
<1> QED
  BY <1>1, SelectNothing DEF Only

LEMMA OnlyRange ==
  ASSUME NEW s \in Seq(Items), NEW k \in Kinds
  PROVE  Range(Only(s, k)) = {x \in Range(s) : x.kind = k}
<1>1. Range(Only(s, k)) = Range(s) \cap OfKind(k)
  BY SelectRange DEF Only
<1>2. \A x \in Range(s) : x \in OfKind(k) <=> x.kind = k
  BY RangeOfSeq, ItemSets
<1> QED
  BY <1>1, <1>2

LEMMA NumbersConcat ==
  ASSUME NEW s \in Seq(Items), NEW t \in Seq(Items)
  PROVE  Numbers(s \o t) = Numbers(s) \cup Numbers(t)
<1>1. Range(s \o t) = Range(s) \cup Range(t)
  BY RangeConcatenation
<1> QED
  BY <1>1 DEF Numbers

LEMMA NumbersAppend ==
  ASSUME NEW s \in Seq(Items), NEW m \in Items
  PROVE  Numbers(Append(s, m)) = Numbers(s) \cup {m.n}
<1>1. Range(Append(s, m)) = Range(s) \cup {m}
  BY RangeAppend
<1> QED
  BY <1>1 DEF Numbers

LEMMA NumbersEmpty == Numbers(<<>>) = {}
  BY RangeEmpty DEF Numbers

LEMMA NoticesInDef ==
  ASSUME NEW s \in Seq(Items)
  PROVE  NoticesIn(s) = {x.n : x \in {y \in Range(s) : y.kind = "notice"}}
<1>1. "notice" \in Kinds
  BY DEF Kinds
<1> QED
  BY <1>1, OnlyRange DEF NoticesIn, Numbers

LEMMA NoticesInConcat ==
  ASSUME NEW s \in Seq(Items), NEW t \in Seq(Items)
  PROVE  NoticesIn(s \o t) = NoticesIn(s) \cup NoticesIn(t)
<1>1. Only(s, "notice") \in Seq(Items) /\ Only(t, "notice") \in Seq(Items)
  BY OnlyType
<1>2. Numbers(Only(s, "notice") \o Only(t, "notice"))
        = Numbers(Only(s, "notice")) \cup Numbers(Only(t, "notice"))
  BY <1>1, NumbersConcat
<1>3. Only(s \o t, "notice") = Only(s, "notice") \o Only(t, "notice")
  BY OnlyConcat
<1> QED
  BY <1>2, <1>3 DEF NoticesIn

-----------------------------------------------------------------------------
(* What a page shows                                                        *)

(* A page with text t, which had its content when f was said, shows what it *)
(* should of s in room r.                                                   *)
Shows(t, s, f, r) ==
  LET since == OfRoom(SubSeq(s, f + 1, Len(s)), r)
  IN  /\ IsEndOf(Only(t, "said"), OfRoom(s, r))
      /\ Len(since) <= Len(Only(t, "said"))
      /\ Len(Only(t, "said")) <= Len(since) + Backlog + 1

LEMMA RestOfConcat ==
  ASSUME NEW S, NEW s \in Seq(S), NEW t \in Seq(S), NEW f \in 0..Len(s)
  PROVE  /\ SubSeq(s \o t, f + 1, Len(s \o t)) = SubSeq(s, f + 1, Len(s)) \o t
         /\ SubSeq(s, f + 1, Len(s)) \in Seq(S)
<1> DEFINE w == s \o t
           a == SubSeq(w, f + 1, Len(w))
           b == SubSeq(s, f + 1, Len(s))
           c == b \o t
<1>1. /\ Len(s) \in Nat /\ Len(t) \in Nat /\ w \in Seq(S) /\ Len(w) = Len(s) + Len(t)
      /\ \A i \in 1..(Len(s) + Len(t)) : w[i] = IF i <= Len(s) THEN s[i] ELSE t[i - Len(s)]
      /\ \A i \in 1..Len(s) : s[i] \in S
  BY ConcatProperties, LenProperties, ElementOfSeq
<1>2. \A i \in 1..Len(w) : w[i] \in S
  <2>1. w \in Seq(S)
    BY <1>1
  <2> HIDE DEF w
  <2> QED
    BY <2>1, ElementOfSeq
<1> HIDE DEF w
<1>3. /\ a \in Seq(S)
      /\ Len(a) = IF f + 1 <= Len(w) THEN Len(w) - (f + 1) + 1 ELSE 0
      /\ \A i \in 1..(Len(w) - (f + 1) + 1) : a[i] = w[(f + 1) + i - 1]
  <2>1. f + 1 \in Int /\ Len(w) \in Int /\ \A i \in (f + 1)..Len(w) : w[i] \in S
    BY <1>1, <1>2
  <2> QED
    BY <2>1, SubSeqProperties
<1>4. /\ b \in Seq(S)
      /\ Len(b) = IF f + 1 <= Len(s) THEN Len(s) - (f + 1) + 1 ELSE 0
      /\ \A i \in 1..(Len(s) - (f + 1) + 1) : b[i] = s[(f + 1) + i - 1]
  <2>1. f + 1 \in Int /\ Len(s) \in Int /\ \A i \in (f + 1)..Len(s) : s[i] \in S
    BY <1>1
  <2> QED
    BY <2>1, SubSeqProperties
<1>5. Len(a) = Len(w) - f /\ Len(b) = Len(s) - f
  BY <1>1, <1>3, <1>4
<1> HIDE DEF a, b
<1>6. /\ c \in Seq(S) /\ Len(c) = Len(b) + Len(t)
      /\ \A i \in 1..(Len(b) + Len(t)) : c[i] = IF i <= Len(b) THEN b[i] ELSE t[i - Len(b)]
  BY <1>4, ConcatProperties
<1> HIDE DEF c
<1>7. ASSUME NEW i \in 1..Len(a) PROVE a[i] = c[i]
  <2>1. /\ i \in 1..(Len(w) - (f + 1) + 1) /\ (f + 1) + i - 1 = f + i
        /\ f + i \in 1..(Len(s) + Len(t)) /\ i \in 1..(Len(b) + Len(t))
    BY <1>1, <1>5
  <2>2. a[i] = w[f + i]
    BY <1>3, <2>1
  <2>3. CASE f + i <= Len(s)
    <3>1. i \in 1..(Len(s) - (f + 1) + 1) /\ i <= Len(b)
      BY <1>1, <1>5, <2>3
    <3>2. b[i] = s[f + i]
      BY <1>4, <2>1, <3>1
    <3> QED
      BY <1>1, <1>6, <2>1, <2>2, <2>3, <3>1, <3>2
  <2>4. CASE ~(f + i <= Len(s))
    <3>1. ~(i <= Len(b)) /\ (f + i) - Len(s) = i - Len(b)
      BY <1>1, <1>5, <2>4
    <3> QED
      BY <1>1, <1>6, <2>1, <2>2, <2>4, <3>1
  <2> QED
    BY <2>3, <2>4
<1>8. Len(a) = Len(c)
  BY <1>1, <1>5, <1>6
<1>9. a = c
  BY <1>3, <1>6, <1>7, <1>8, SeqEqual
<1> QED
  BY <1>4, <1>9 DEF a, b, c, w

LEMMA OfRoomDef == \A s, r : OfRoom(s, r) = Select(s, Room(r))
  BY DEF OfRoom, Room

(* New messages that everybody hears: what a page shows stays right.        *)
LEMMA ShowsNew ==
  ASSUME NEW t \in Seq(Items), NEW s \in Seq(Items), NEW f \in 0..Len(s), NEW r, NEW u,
         Shows(t, s, f, r), Backlog \in Nat,
         NEW new \in Seq(Items), \A x \in Range(new) : x.kind = "said" /\ x.to = None
  PROVE  Shows(t \o Select(new, Seen(r, u)), s \o new, f, r)
<1> DEFINE heard == Select(new, Seen(r, u))
           mine  == Select(new, Room(r))
           since == SubSeq(s, f + 1, Len(s))
<1>1. heard \in Seq(Items) /\ mine \in Seq(Items)
  BY SelectType
<1>2. Only(heard, "said") = mine
  <2>1. Only(heard, "said") = Select(new, Seen(r, u) \cap OfKind("said"))
    BY SelectTwice DEF Only
  <2>2. ASSUME NEW x \in Range(new) PROVE x \in Seen(r, u) \cap OfKind("said") <=> x \in Room(r)
    <3>1. x \in Items /\ x.kind = "said" /\ x.to = None /\ "said" \in Kinds
      BY RangeOfSeq DEF Kinds
    <3> QED
      BY <3>1, ItemSets
  <2>3. Select(new, Seen(r, u) \cap OfKind("said")) = Select(new, Room(r))
    BY <2>2, SelectAgree
  <2> QED
    BY <2>1, <2>3
<1> HIDE DEF heard, mine
<1>3. Only(t \o heard, "said") = Only(t, "said") \o mine
  <2>1. Only(t \o heard, "said") = Only(t, "said") \o Only(heard, "said")
    BY <1>1, OnlyConcat, ZenonT(30)
  <2> QED
    BY <1>2, <2>1
<1>4. OfRoom(s \o new, r) = OfRoom(s, r) \o mine
  <2>1. Select(s \o new, Room(r)) = Select(s, Room(r)) \o Select(new, Room(r))
    BY SelectConcat
  <2> QED
    BY <2>1, OfRoomDef DEF mine
<1>5. /\ SubSeq(s \o new, f + 1, Len(s \o new)) = since \o new
      /\ since \in Seq(Items)
  BY RestOfConcat
<1> HIDE DEF since
<1>6. OfRoom(since \o new, r) = OfRoom(since, r) \o mine
  <2>1. Select(since \o new, Room(r)) = Select(since, Room(r)) \o Select(new, Room(r))
    BY <1>5, SelectConcat, SMTT(30)
  <2> QED
    BY <2>1, OfRoomDef DEF mine
<1>7. /\ IsEndOf(Only(t, "said"), OfRoom(s, r))
      /\ Len(OfRoom(since, r)) <= Len(Only(t, "said"))
      /\ Len(Only(t, "said")) <= Len(OfRoom(since, r)) + Backlog + 1
  BY DEF Shows, since
<1>8. /\ Only(t, "said") \in Seq(Items) /\ OfRoom(s, r) \in Seq(Items)
      /\ OfRoom(since, r) \in Seq(Items)
  BY <1>5, OnlyType, SelectType, OfRoomDef
<1>9. IsEndOf(Only(t, "said") \o mine, OfRoom(s, r) \o mine)
  BY <1>1, <1>7, <1>8, EndConcat
<1>10. /\ Len(Only(t, "said") \o mine) = Len(Only(t, "said")) + Len(mine)
       /\ Len(OfRoom(since, r) \o mine) = Len(OfRoom(since, r)) + Len(mine)
       /\ Len(mine) \in Nat /\ Len(Only(t, "said")) \in Nat /\ Len(OfRoom(since, r)) \in Nat
  BY <1>1, <1>8, ConcatProperties, LenProperties
<1>11. /\ Len(OfRoom(since, r) \o mine) <= Len(Only(t, "said") \o mine)
       /\ Len(Only(t, "said") \o mine) <= Len(OfRoom(since, r) \o mine) + Backlog + 1
  BY <1>7, <1>10
<1>12. Shows(t \o heard, s \o new, f, r)
  BY <1>3, <1>4, <1>5, <1>6, <1>9, <1>11 DEF Shows
<1> QED
  BY <1>12 DEF heard

(* Notices do not count.                                                    *)
LEMMA ShowsNotice ==
  ASSUME NEW t \in Seq(Items), NEW s, NEW f, NEW r, Shows(t, s, f, r),
         NEW new \in Seq(Items), \A x \in Range(new) : x.kind = "notice"
  PROVE  Shows(t \o new, s, f, r)
<1>1. Only(new, "said") = <<>>
  <2>1. "said" \in Kinds /\ \A x \in Range(new) : x.kind # "said"
    BY DEF Kinds
  <2> QED
    BY <2>1, OnlyNone
<1>2. Only(t \o new, "said") = Only(t, "said") \o Only(new, "said")
  BY OnlyConcat
<1>3. Only(t \o new, "said") = Only(t, "said")
  <2>1. Only(t, "said") \in Seq(Items)
    BY OnlyType, Zenon
  <2>2. Only(t, "said") \o <<>> = Only(t, "said")
    BY <2>1, ConcatEmptySeq, Zenon
  <2> QED
    BY <1>1, <1>2, <2>2, Zenon
<1> QED
  BY <1>3 DEF Shows

(* The content of a new page: an end of what the log has for its user.      *)
LEMMA ShowsContent ==
  ASSUME NEW l \in Seq(Items), NEW s \in Seq(Items), IsEndOf(Only(l, "said"), s),
         \A x \in Range(s) : x.kind = "said" /\ x.to = None, NEW r, NEW u,
         NEW t, IsEndOf(t, Select(l, Seen(r, u))), Len(t) <= Backlog + 1, Backlog \in Nat
  PROVE  Shows(t, s, Len(s), r)
<1>1. Select(l, Seen(r, u)) \in Seq(Items)
  BY SelectType
<1>2. t \in Seq(Items)
  BY <1>1, EndRange
<1>3. "said" \in Kinds
  BY DEF Kinds
<1>4. IsEndOf(Only(t, "said"), Select(Select(l, Seen(r, u)), OfKind("said")))
  BY <1>1, SelectEnd DEF Only
<1>5. Select(Select(l, Seen(r, u)), OfKind("said")) = Select(Only(l, "said"), Room(r))
  <2>1. Select(Select(l, Seen(r, u)), OfKind("said")) = Select(l, Seen(r, u) \cap OfKind("said"))
    BY SelectTwice
  <2>2. Select(Only(l, "said"), Room(r)) = Select(l, OfKind("said") \cap Room(r))
    BY SelectTwice DEF Only
  <2>3. ASSUME NEW x \in Range(l)
        PROVE  x \in Seen(r, u) \cap OfKind("said") <=> x \in OfKind("said") \cap Room(r)
    <3>1. x \in Items
      BY RangeOfSeq
    <3>2. x.kind = "said" => x.to = None
      <4>1. SUFFICES ASSUME x.kind = "said" PROVE x.to = None
        OBVIOUS
      <4>2. x \in Range(Only(l, "said"))
        BY <1>3, <4>1, OnlyRange
      <4>3. Range(Only(l, "said")) \subseteq Range(s)
        BY EndRange
      <4> QED
        BY <4>2, <4>3
    <3> QED
      BY <1>3, <3>1, <3>2, ItemSets
  <2>4. Select(l, Seen(r, u) \cap OfKind("said")) = Select(l, OfKind("said") \cap Room(r))
    BY <2>3, SelectAgree
  <2> QED
    BY <2>1, <2>2, <2>4
<1>6. IsEndOf(Select(Only(l, "said"), Room(r)), Select(s, Room(r)))
  BY SelectEnd
<1>7. IsEndOf(Only(t, "said"), OfRoom(s, r))
  <2>1. Select(s, Room(r)) \in Seq(Items)
    BY SelectType
  <2>2. IsEndOf(Only(t, "said"), Select(Only(l, "said"), Room(r)))
    BY <1>4, <1>5
  <2>3. IsEndOf(Only(t, "said"), Select(s, Room(r)))
    BY <1>6, <2>1, <2>2, EndOfEnd
  <2> QED
    BY <2>3, OfRoomDef
<1>8. SubSeq(s, Len(s) + 1, Len(s)) = <<>>
  <2>1. Len(s) \in Int /\ Len(s) + 1 \in Int /\ Len(s) < Len(s) + 1
    BY LenProperties
  <2> QED
    BY <2>1, SubSeqEmpty
<1>9. OfRoom(<<>>, r) = <<>> /\ Len(<<>>) = 0
  BY SelectEmpty, OfRoomDef
<1>10. Len(Only(t, "said")) \in Nat /\ Len(Only(t, "said")) <= Len(t) /\ Len(t) \in Nat
  BY <1>2, OnlyType, LenProperties
<1>11. 0 <= Len(Only(t, "said")) /\ Len(Only(t, "said")) <= 0 + Backlog + 1
  BY <1>10
<1> QED
  BY <1>7, <1>8, <1>9, <1>11 DEF Shows

-----------------------------------------------------------------------------
(* New messages, the log and the files                                      *)

(* What is said after s.                                                    *)
Fresh(new, s) ==
  \A k \in 1..Len(new) : new[k].n = Len(s) + k /\ new[k].kind = "said" /\ new[k].to = None

LEMMA FreshInTurn ==
  ASSUME NEW s \in Seq(Items), InTurn(s), NEW new \in Seq(Items), Fresh(new, s)
  PROVE  InTurn(s \o new)
<1>1. /\ Len(s) \in Nat /\ Len(new) \in Nat /\ Len(s \o new) = Len(s) + Len(new)
      /\ \A i \in 1..(Len(s) + Len(new)) :
           (s \o new)[i] = IF i <= Len(s) THEN s[i] ELSE new[i - Len(s)]
  BY ConcatProperties, LenProperties
<1> DEFINE w == s \o new
<1>2. ASSUME NEW k \in 1..Len(w) PROVE w[k].n = k /\ w[k].kind = "said" /\ w[k].to = None
  <2>1. CASE k <= Len(s)
    <3>1. k \in 1..Len(s) /\ w[k] = s[k]
      BY <1>1, <2>1
    <3> QED
      BY <3>1 DEF InTurn
  <2>2. CASE ~(k <= Len(s))
    <3>1. k - Len(s) \in 1..Len(new) /\ w[k] = new[k - Len(s)] /\ Len(s) + (k - Len(s)) = k
      BY <1>1, <2>2
    <3> QED
      BY <3>1 DEF Fresh
  <2> QED
    BY <2>1, <2>2
<1> QED
  BY <1>2 DEF InTurn

LEMMA FreshRange ==
  ASSUME NEW s \in Seq(Items), NEW new \in Seq(Items), Fresh(new, s)
  PROVE  /\ \A x \in Range(new) : x.kind = "said" /\ x.to = None /\ x.n > Len(s)
         /\ Different(new)
<1>1. Len(s) \in Nat /\ Len(new) \in Nat
  BY LenProperties
<1>2. Range(new) = {new[i] : i \in 1..Len(new)}
  BY RangeEquality
<1>3. \A k \in 1..Len(new) :
        new[k].n = Len(s) + k /\ new[k].kind = "said" /\ new[k].to = None
  BY DEF Fresh
<1>4. \A k \in 1..Len(new) : Len(s) + k > Len(s)
  BY <1>1
<1>5. \A i, j \in 1..Len(new) : Len(s) + i = Len(s) + j => i = j
  BY <1>1
<1> QED
  BY <1>2, <1>3, <1>4, <1>5 DEF Different

LEMMA InTurnRange ==
  ASSUME NEW s \in Seq(Items), InTurn(s)
  PROVE  /\ \A x \in Range(s) : x.kind = "said" /\ x.to = None /\ x.n \in 1..Len(s)
         /\ InOrder(s)
<1>1. Len(s) \in Nat
  BY LenProperties
<1>2. Range(s) = {s[i] : i \in 1..Len(s)}
  BY RangeEquality
<1> QED
  BY <1>1, <1>2 DEF InTurn, InOrder

LEMMA LogSaid ==
  ASSUME NEW l \in Seq(Items), NEW s \in Seq(Items), IsEndOf(Only(l, "said"), s), Different(l),
         InTurn(s), NEW new \in Seq(Items), Fresh(new, s)
  PROVE  /\ IsEndOf(Only(l \o new, "said"), s \o new) /\ Different(l \o new)
         /\ NoticesIn(l \o new) = NoticesIn(l)
<1>1. \A x \in Range(new) : x.kind = "said" /\ x.to = None /\ x.n > Len(s)
  BY FreshRange
<1>2. "said" \in Kinds
  BY DEF Kinds
<1>3. Only(new, "said") = new
  BY <1>1, <1>2, OnlyAll
<1>4. Only(l \o new, "said") = Only(l, "said") \o new
  <2>1. Only(l \o new, "said") = Only(l, "said") \o Only(new, "said")
    BY OnlyConcat, ZenonT(30)
  <2> QED
    BY <1>3, <2>1
<1>5. IsEndOf(Only(l, "said") \o new, s \o new)
  BY EndConcat
<1>6. Range(l) \cap Range(new) = {}
  <2>1. SUFFICES ASSUME NEW x \in Range(l), x \in Range(new) PROVE FALSE
    OBVIOUS
  <2>2. x.kind = "said" /\ x.n > Len(s)
    BY <1>1, <2>1
  <2>3. x \in Range(Only(l, "said"))
    BY <1>2, <2>2, OnlyRange
  <2>4. x \in Range(s)
    BY <2>3, EndRange
  <2>5. x.n \in 1..Len(s) /\ Len(s) \in Nat
    BY <2>4, InTurnRange, LenProperties
  <2> QED
    BY <2>2, <2>5
<1>7. Different(l \o new)
  <2>1. Different(new)
    BY FreshRange
  <2> QED
    BY <1>6, <2>1, DifferentConcat
<1>8. NoticesIn(new) = {}
  <2>1. NoticesIn(new) = {x.n : x \in {y \in Range(new) : y.kind = "notice"}}
    BY NoticesInDef
  <2> QED
    BY <1>1, <2>1
<1>9. NoticesIn(l \o new) = NoticesIn(l) \cup NoticesIn(new)
  BY NoticesInConcat
<1> QED
  BY <1>4, <1>5, <1>7, <1>8, <1>9

LEMMA LogNoticed ==
  ASSUME NEW l \in Seq(Items), NEW new \in Seq(Items), \A x \in Range(new) : x.kind = "notice",
         Different(l), Different(new), Numbers(new) \cap NoticesIn(l) = {}
  PROVE  /\ Only(l \o new, "said") = Only(l, "said") /\ Different(l \o new)
         /\ NoticesIn(l \o new) = NoticesIn(l) \cup Numbers(new)
<1>1. "said" \in Kinds /\ "notice" \in Kinds /\ "said" # "notice"
  BY DEF Kinds
<1>2. Only(new, "said") = <<>> /\ Only(new, "notice") = new
  BY <1>1, OnlyNone, OnlyAll
<1>3. Only(l \o new, "said") = Only(l, "said") \o Only(new, "said")
  BY OnlyConcat
<1>4. Only(l, "said") \o <<>> = Only(l, "said")
  BY OnlyType, ConcatEmptySeq
<1>5. Range(l) \cap Range(new) = {}
  <2>1. SUFFICES ASSUME NEW x \in Range(l), x \in Range(new) PROVE FALSE
    OBVIOUS
  <2>2. x.kind = "notice" /\ x.n \in Numbers(new)
    BY <2>1 DEF Numbers
  <2>3. x.n \in NoticesIn(l)
    BY <2>2, NoticesInDef
  <2> QED
    BY <2>2, <2>3
<1>6. Different(l \o new)
  BY <1>5, DifferentConcat
<1>7. NoticesIn(l \o new) = NoticesIn(l) \cup NoticesIn(new)
  BY NoticesInConcat
<1>8. NoticesIn(new) = Numbers(new)
  BY <1>2 DEF NoticesIn
<1> QED
  BY <1>2, <1>3, <1>4, <1>6, <1>7, <1>8

LEMMA LogTrimmed ==
  ASSUME NEW l \in Seq(Items), NEW s \in Seq(Items), IsEndOf(Only(l, "said"), s), Different(l),
         Low \in Nat, High \in Nat, Low <= High
  PROVE  /\ Trim(l) \in Seq(Items) /\ Len(Trim(l)) <= High
         /\ IsEndOf(Only(Trim(l), "said"), s) /\ Different(Trim(l))
         /\ NoticesIn(Trim(l)) \subseteq NoticesIn(l)
<1>1. Len(l) \in Nat
  BY LenProperties
<1>2. IsEndOf(Trim(l), l)
  <2>1. CASE Len(l) > High
    <3>1. Len(l) - Low \in 0..Len(l)
      BY <1>1, <2>1
    <3> QED
      BY <2>1, <3>1 DEF Trim, IsEndOf
  <2>2. CASE ~(Len(l) > High)
    BY <2>2, EndItself DEF Trim
  <2> QED
    BY <2>1, <2>2
<1>3. Trim(l) \in Seq(Items) /\ Range(Trim(l)) \subseteq Range(l)
  BY <1>2, EndRange
<1>4. Len(Trim(l)) <= High
  <2>1. CASE Len(l) > High
    <3>1. Trim(l) = SubSeq(l, Len(l) - Low + 1, Len(l))
      BY <2>1 DEF Trim
    <3>2. /\ Len(l) - Low + 1 \in Int /\ Len(l) \in Int
          /\ \A i \in (Len(l) - Low + 1)..Len(l) : i \in 1..Len(l)
      BY <1>1, <2>1
    <3>3. \A i \in (Len(l) - Low + 1)..Len(l) : l[i] \in Items
      BY <3>2, ElementOfSeq
    <3>4. Len(Trim(l)) = IF Len(l) - Low + 1 <= Len(l) THEN Len(l) - (Len(l) - Low + 1) + 1 ELSE 0
      BY <3>1, <3>2, <3>3, SubSeqProperties
    <3> QED
      BY <1>1, <3>4
  <2>2. CASE ~(Len(l) > High)
    BY <1>1, <2>2 DEF Trim
  <2> QED
    BY <2>1, <2>2
<1>5. IsEndOf(Only(Trim(l), "said"), Only(l, "said"))
  BY <1>2, SelectEnd DEF Only
<1>6. IsEndOf(Only(Trim(l), "said"), s)
  BY <1>5, EndOfEnd
<1>7. Different(Trim(l))
  BY <1>2, DifferentEnd
<1>8. NoticesIn(Trim(l)) \subseteq NoticesIn(l)
  <2>1. /\ NoticesIn(l) = {x.n : x \in {y \in Range(l) : y.kind = "notice"}}
        /\ NoticesIn(Trim(l)) = {x.n : x \in {y \in Range(Trim(l)) : y.kind = "notice"}}
    BY <1>3, NoticesInDef
  <2> QED
    BY <1>3, <2>1
<1> QED
  BY <1>3, <1>4, <1>6, <1>7, <1>8

LEMMA WrittenDef == \A gone : Written(gone) = Select(said, Without(gone))
  BY DEF Written, Without

(* What is said is still to be written.                                     *)
LEMMA FilesSaid ==
  ASSUME NEW s \in Seq(Items), NEW new \in Seq(Items), Fresh(new, s),
         NEW gone \in SUBSET (1..Len(s))
  PROVE  Select(s \o new, Without(gone)) = Select(s, Without(gone)) \o new
<1>1. \A x \in Range(new) : x \in Without(gone)
  <2>1. SUFFICES ASSUME NEW x \in Range(new) PROVE x \in Without(gone)
    OBVIOUS
  <2>2. x \in Items /\ x.n > Len(s) /\ Len(s) \in Nat
    BY FreshRange, RangeOfSeq, LenProperties
  <2>3. x.n \notin gone
    BY <2>2, ItemSets
  <2> QED
    BY <2>2, <2>3, ItemSets
<1>2. Select(new, Without(gone)) = new
  BY <1>1, SelectAll
<1>3. Select(s \o new, Without(gone)) = Select(s, Without(gone)) \o Select(new, Without(gone))
  BY SelectConcat
<1> QED
  BY <1>2, <1>3

LEMMA ItemsConcat ==
  \A T : \A v, w \in Seq(Items) : Select(v \o w, T) = Select(v, T) \o Select(w, T)
  BY SelectConcat

LEMMA SelectLess ==
  ASSUME NEW s \in Seq(Items), NEW gone, NEW more
  PROVE  Select(s, Without(gone \cup more)) = Select(Select(s, Without(gone)), Without(more))
<1>1. ASSUME NEW x \in Range(s)
      PROVE  x \in Without(gone \cup more) <=> x \in Without(gone) \cap Without(more)
  <2>1. x \in Items
    BY RangeOfSeq
  <2> QED
    BY <2>1, ItemSets
<1>2. Select(s, Without(gone \cup more)) = Select(s, Without(gone) \cap Without(more))
  BY <1>1, SelectAgree
<1> QED
  BY <1>2, SelectTwice

LEMMA SelectRest ==
  ASSUME NEW a \in Seq(Items), NEW b \in Seq(Items), NEW c \in Seq(Items), InOrder(a \o b \o c)
  PROVE  Select(a \o b \o c, Without(Numbers(b))) = a \o <<>> \o c
<1> DEFINE W == Without(Numbers(b))
<1>1. a \o b \in Seq(Items) /\ Range(a \o b) = Range(a) \cup Range(b)
  BY ConcatProperties, RangeConcatenation
<1>2. \A x \in Range(a \o b), y \in Range(c) : x.n < y.n
  BY <1>1, InOrderConcat
<1>3. InOrder(a \o b)
  BY <1>1, FrontInOrder
<1>4. \A x \in Range(a), y \in Range(b) : x.n < y.n
  BY <1>3, InOrderConcat
<1>5. ASSUME NEW x \in Range(a) \cup Range(c) PROVE x \in W
  <2>1. x \in Items /\ Range(b) \subseteq Items
    BY RangeOfSeq
  <2>2. ASSUME NEW y \in Range(b) PROVE x.n # y.n
    <3>1. y.n \in Nat /\ x.n \in Nat
      BY <2>1, ItemSets
    <3>2. x.n < y.n \/ y.n < x.n
      BY <1>1, <1>2, <1>4
    <3> QED
      BY <3>1, <3>2
  <2>3. x.n \notin Numbers(b)
    BY <2>2 DEF Numbers
  <2> QED
    BY <2>1, <2>3, ItemSets
<1>6. ASSUME NEW x \in Range(b) PROVE x \notin W
  <2>1. x \in Items /\ x.n \in Numbers(b)
    BY RangeOfSeq DEF Numbers
  <2> QED
    BY <2>1, ItemSets
<1> HIDE DEF W
<1>7. Select(a, W) = a /\ Select(c, W) = c
  BY <1>5, SelectAll
<1>8. Select(b, W) = <<>>
  BY <1>6, SelectNothing
<1>9. \A v, w \in Seq(Items) : Select(v \o w, W) = Select(v, W) \o Select(w, W)
  BY ItemsConcat, Zenon
<1>10. /\ Select((a \o b) \o c, W) = Select(a \o b, W) \o Select(c, W)
       /\ Select(a \o b, W) = Select(a, W) \o Select(b, W)
  BY <1>1, <1>9
<1>11. Select(a \o b \o c, W) = a \o <<>> \o c
  BY <1>7, <1>8, <1>10
<1> QED
  BY <1>11 DEF W

(* A batch that is not written is missing, and nothing else.                *)
Missed(s, gone, a, b, c) ==
  Select(s, Without(gone)) = a \o b \o c =>
    Select(s, Without(gone \cup Numbers(b))) = a \o <<>> \o c

LEMMA BatchMissed ==
  \A s, a, b, c \in Seq(Items) : \A gone : InTurn(s) => Missed(s, gone, a, b, c)
<1> SUFFICES ASSUME NEW s \in Seq(Items), NEW a \in Seq(Items), NEW b \in Seq(Items),
                    NEW c \in Seq(Items), NEW gone, InTurn(s)
             PROVE  Missed(s, gone, a, b, c)
  OBVIOUS
<1>1. InOrder(Select(s, Without(gone)))
  BY InTurnRange, SelectInOrder
<1>2. Select(s, Without(gone \cup Numbers(b))) = Select(Select(s, Without(gone)), Without(Numbers(b)))
  BY SelectLess
<1>3. SUFFICES ASSUME Select(s, Without(gone)) = a \o b \o c
               PROVE  Select(s, Without(gone \cup Numbers(b))) = a \o <<>> \o c
  BY DEF Missed
<1>4. Select(a \o b \o c, Without(Numbers(b))) = a \o <<>> \o c
  BY <1>1, <1>3, SelectRest
<1> QED
  BY <1>2, <1>3, <1>4

-----------------------------------------------------------------------------
(* The parts of the invariant, when their variables stay                    *)

LEMMA PagesSame ==
  ASSUME PageInv, UNCHANGED <<pages, socket, shown, where, follows, said>>
  PROVE  PageInv'
<1>1. SocketsKnown'
  BY DEF PageInv, SocketsKnown
<1>2. FollowedPages'
  BY DEF PageInv, FollowedPages
<1>3. NothingMissed'
  BY DEF PageInv, NothingMissed, OnPage
<1> QED
  BY <1>1, <1>2, <1>3 DEF PageInv

LEMMA FilesSame ==
  ASSUME FileInv, UNCHANGED <<said, unwritten, bin, txt, packed, backup>>
  PROVE  FileInv'
  BY DEF FileInv, UnwrittenSaid, BackupExact, Written

LEMMA NoticesSame ==
  ASSUME NoticeInv, UNCHANGED <<external, copy, telling, handed, lost, cut, log, said>>,
         inputs \in Nat, inputs' = inputs \/ inputs' = inputs + 1, pc = "clear" <=> pc' = "clear"
  PROVE  NoticeInv'
<1>1. NoticesOnly'
  BY DEF NoticeInv, NoticesOnly
<1>2. NoticesNew'
  <2>1. 1..inputs \subseteq 1..inputs'
    OBVIOUS
  <2> QED
    BY <2>1 DEF NoticeInv, NoticesNew
<1>3. CopyTaken'
  BY DEF NoticeInv, CopyTaken
<1>4. LogExact' /\ NoticesLogged'
  BY DEF NoticeInv, LogExact, NoticesLogged
<1> QED
  BY <1>1, <1>2, <1>3, <1>4 DEF NoticeInv

LEMMA QueuesSame ==
  ASSUME RoomsNamed, UNCHANGED <<events, batch>>
  PROVE  RoomsNamed'
  BY DEF RoomsNamed

(* Sequences of events whose rooms are named. *)
Named(q) == \A k \in 1..Len(q) : q[k].type # "part" => q[k].room # None

LEMMA RoomsNamedDef == RoomsNamed <=> Named(events) /\ Named(batch)
  BY DEF RoomsNamed, Named

LEMMA NamedConcat ==
  ASSUME NEW S, NEW s \in Seq(S), NEW t \in Seq(S), Named(s), Named(t)
  PROVE  Named(s \o t)
<1> DEFINE w == s \o t
<1>1. /\ Len(s) \in Nat /\ Len(t) \in Nat /\ Len(w) = Len(s) + Len(t)
      /\ \A i \in 1..(Len(s) + Len(t)) : w[i] = IF i <= Len(s) THEN s[i] ELSE t[i - Len(s)]
  BY ConcatProperties, LenProperties
<1> HIDE DEF w
<1>2. ASSUME NEW k \in 1..Len(w), w[k].type # "part" PROVE w[k].room # None
  <2>1. CASE k <= Len(s)
    BY <1>1, <1>2, <2>1 DEF Named
  <2>2. CASE ~(k <= Len(s))
    <3>1. k - Len(s) \in 1..Len(t) /\ w[k] = t[k - Len(s)]
      BY <1>1, <2>2
    <3> QED
      BY <1>2, <3>1 DEF Named
  <2> QED
    BY <2>1, <2>2
<1> QED
  BY <1>2 DEF Named, w

LEMMA EventPushed ==
  ASSUME NEW q \in Seq(EventSet), Named(q), NEW e \in EventSet, e.type # "part" => e.room # None
  PROVE  Append(q, e) \in Seq(EventSet) /\ Named(Append(q, e))
<1>1. Append(q, e) = q \o <<e>> /\ <<e>> \in Seq(EventSet) /\ Append(q, e) \in Seq(EventSet)
  BY AppendIsConcat, AppendProperties
<1>2. Named(<<e>>)
  BY DEF Named
<1> QED
  BY <1>1, <1>2, NamedConcat

LEMMA LogExactDef ==
  ASSUME log \in Seq(Items)
  PROVE  LogExact <=> IsEndOf(Only(log, "said"), said) /\ Different(log)
<1>1. DOMAIN log = 1..Len(log)
  BY LenProperties
<1> QED
  BY <1>1 DEF LogExact, Different

(* The first event of a batch, and the rest.                                *)
LEMMA EventTaken ==
  ASSUME TypeOK, RoomsNamed, batch # <<>>
  PROVE  /\ Head(batch) \in EventSet /\ Head(batch).user \in Users
         /\ Head(batch).room \in Rooms \cup {None}
         /\ Head(batch).type # "part" => Head(batch).room \in Rooms
         /\ Tail(batch) \in Seq(EventSet) /\ Named(Tail(batch))
<1>1. batch \in Seq(EventSet) /\ Named(batch)
  BY RoomsNamedDef DEF TypeOK
<1>2. /\ Head(batch) \in EventSet /\ Tail(batch) \in Seq(EventSet)
      /\ Len(Tail(batch)) = Len(batch) - 1 /\ Len(batch) \in Nat \ {0}
      /\ \A i \in 1..Len(Tail(batch)) : Tail(batch)[i] = batch[i + 1]
      /\ Head(batch) = batch[1]
  BY <1>1, HeadTailProperties, EmptySeq
<1>3. Head(batch).user \in Users /\ Head(batch).room \in Rooms \cup {None}
  BY <1>2 DEF EventSet
<1>4. Head(batch).type # "part" => Head(batch).room # None
  BY <1>1, <1>2 DEF Named
<1>5. Named(Tail(batch))
  <2>1. \A i \in 1..Len(Tail(batch)) : i + 1 \in 1..Len(batch)
    BY <1>2
  <2> QED
    BY <1>1, <1>2, <2>1 DEF Named
<1> QED
  BY <1>2, <1>3, <1>4, <1>5

-----------------------------------------------------------------------------
(* What is written to the pages                                             *)

LEMMA Delivered ==
  ASSUME TypeOK, SocketsKnown, NEW text \in [Users -> Seq(Items)], Deliver(text)
  PROVE  /\ shown' \in [Pages -> Seq(Items)]
         /\ \A u \in Users : \A p \in Pages :
              Follower(p, u) => shown'[p] = shown[p] \o text[u]
<1>1. shown \in [Pages -> Seq(Items)] /\ None \notin Pages
  BY MessagesAssumption DEF TypeOK, Pages
<1>2. ASSUME NEW p \in Pages, NEW u \in Users, NEW v \in Users, Follower(p, u), Follower(p, v)
      PROVE  u = v
  BY <1>1, <1>2 DEF Follower, SocketsKnown
<1>3. ASSUME NEW u \in Users, NEW p \in Pages, Follower(p, u)
      PROVE  shown'[p] = shown[p] \o text[u]
  <2>1. (CHOOSE v \in Users : Follower(p, v)) = u
    BY <1>2, <1>3
  <2> QED
    BY <1>3, <2>1 DEF Deliver
<1>4. ASSUME NEW p \in Pages PROVE shown'[p] \in Seq(Items)
  <2>1. CASE \E u \in Users : Follower(p, u)
    <3>1. PICK u \in Users : Follower(p, u)
      BY <2>1
    <3>2. shown'[p] = shown[p] \o text[u]
      BY <1>3, <3>1
    <3>3. shown[p] \in Seq(Items) /\ text[u] \in Seq(Items)
      BY <1>1
    <3> QED
      BY <3>2, <3>3, ConcatProperties
  <2>2. CASE ~(\E u \in Users : Follower(p, u))
    <3>1. shown'[p] = <<>>
      BY <2>2 DEF Deliver
    <3> QED
      BY <3>1, EmptySeq
  <2> QED
    BY <2>1, <2>2
<1>5. shown' \in [Pages -> Seq(Items)]
  BY <1>4 DEF Deliver
<1> QED
  BY <1>3, <1>5

(* A page that is followed had its content when something said is known.    *)
LEMMA FollowedSince ==
  ASSUME TypeOK, FollowedPages, NEW p \in Pages, follows[p] # Never
  PROVE  follows[p] \in 0..Len(said)
<1>1. follows[p] \in Nat /\ follows[p] <= Len(said) /\ Len(said) \in Nat
  BY LenProperties DEF TypeOK, FollowedPages
<1> QED
  BY <1>1

(* New messages that are sent to everybody in their room.                   *)
LEMMA PagesHear ==
  ASSUME TypeOK, PageInv, NEW new \in Seq(Items), Fresh(new, said), said' = said \o new,
         Deliver(Heard(new)), UNCHANGED <<pages, socket, where, follows>>
  PROVE  PageInv' /\ shown' \in [Pages -> Seq(Items)]
<1>1. Heard(new) \in [Users -> Seq(Items)]
  BY SelectType DEF Heard
<1>2. /\ shown' \in [Pages -> Seq(Items)]
      /\ \A u \in Users : \A p \in Pages :
           Follower(p, u) => shown'[p] = shown[p] \o Heard(new)[u]
  <2>1. SocketsKnown
    BY DEF PageInv
  <2> QED
    BY <1>1, <2>1, Delivered, Zenon
<1>3. SocketsKnown'
  BY DEF PageInv, SocketsKnown
<1>4. said \in Seq(Items) /\ Len(said') = Len(said) + Len(new) /\ Len(said) \in Nat /\ Len(new) \in Nat
  <2>1. said \in Seq(Items)
    BY DEF TypeOK
  <2> QED
    BY <2>1, ConcatProperties, LenProperties
<1>5. FollowedPages'
  <2>1. SUFFICES ASSUME NEW p \in Pages, follows[p] # Never
                 PROVE  follows[p] <= Len(said') /\ \E u \in Users : socket[u] = p
    BY DEF FollowedPages
  <2>2. follows[p] \in 0..Len(said)
    BY <2>1, FollowedSince DEF PageInv
  <2>3. \E u \in Users : socket[u] = p
    BY <2>1 DEF PageInv, FollowedPages
  <2> QED
    BY <1>4, <2>2, <2>3
<1>6. NothingMissed'
  <2>1. SUFFICES ASSUME NEW u \in Users, NEW p \in Pages, socket[u] = p, follows[p] # Never
                 PROVE  Shows(shown'[p], said', follows[p], where[u])
    BY DEF NothingMissed, Shows, OnPage
  <2>2. Shows(shown[p], said, follows[p], where[u])
    BY <2>1 DEF PageInv, NothingMissed, Shows, OnPage
  <2>3. shown'[p] = shown[p] \o Select(new, Seen(where[u], u))
    BY <1>2, <2>1 DEF Follower, Heard
  <2>4. shown[p] \in Seq(Items) /\ follows[p] \in 0..Len(said) /\ Backlog \in Nat
    BY <2>1, FollowedSince, MessagesAssumption DEF PageInv, TypeOK
  <2>5. \A x \in Range(new) : x.kind = "said" /\ x.to = None
    BY <1>4, FreshRange
  <2>6. Shows(shown[p] \o Select(new, Seen(where[u], u)), said \o new, follows[p], where[u])
    BY <1>4, <2>2, <2>4, <2>5, ShowsNew
  <2> QED
    BY <2>3, <2>6
<1> QED
  BY <1>2, <1>3, <1>5, <1>6 DEF PageInv

(* A notice that is written to the page of a user.                          *)
LEMMA PagesNotice ==
  ASSUME TypeOK, PageInv, NEW m \in Items, m.kind = "notice", NEW w \in Users,
         Deliver([v \in Users |-> IF v = w THEN <<m>> ELSE <<>>]),
         UNCHANGED <<pages, socket, where, follows, said>>
  PROVE  PageInv' /\ shown' \in [Pages -> Seq(Items)]
<1> DEFINE text == [v \in Users |-> IF v = w THEN <<m>> ELSE <<>>]
<1>1. \A v \in Users : text[v] \in Seq(Items) /\ \A x \in Range(text[v]) : x.kind = "notice"
  <2>1. <<m>> \in Seq(Items) /\ <<>> \in Seq(Items)
    BY EmptySeq
  <2>2. Range(<<m>>) = {m} /\ Range(<<>>) = {}
    BY DEF Range
  <2> QED
    BY <2>1, <2>2
<1>2. text \in [Users -> Seq(Items)]
  BY <1>1
<1>3. Deliver(text) /\ SocketsKnown
  BY DEF PageInv
<1> HIDE DEF text
<1>4. /\ shown' \in [Pages -> Seq(Items)]
      /\ \A u \in Users : \A p \in Pages :
           Follower(p, u) => shown'[p] = shown[p] \o text[u]
  BY <1>2, <1>3, Delivered, Zenon
<1>5. SocketsKnown' /\ FollowedPages'
  BY DEF PageInv, SocketsKnown, FollowedPages
<1>6. NothingMissed'
  <2>1. SUFFICES ASSUME NEW u \in Users, NEW p \in Pages, socket[u] = p, follows[p] # Never
                 PROVE  Shows(shown'[p], said, follows[p], where[u])
    BY DEF NothingMissed, Shows, OnPage
  <2>2. Shows(shown[p], said, follows[p], where[u])
    BY <2>1 DEF PageInv, NothingMissed, Shows, OnPage
  <2>3. shown'[p] = shown[p] \o text[u]
    BY <1>4, <2>1 DEF Follower
  <2>4. shown[p] \in Seq(Items)
    BY DEF TypeOK
  <2> QED
    BY <1>1, <2>2, <2>3, <2>4, ShowsNotice
<1> QED
  BY <1>4, <1>5, <1>6 DEF PageInv

(* A user comes to a room, or is told again that he is there.               *)
LEMMA PagesEnter ==
  ASSUME TypeOK, PageInv, NEW u \in Users, NEW r \in Rooms \cup {None}, Enter(u, r),
         UNCHANGED <<pages, socket, said>>
  PROVE  /\ PageInv'
         /\ shown' \in [Pages -> Seq(Items)] /\ follows' \in [Pages -> Nat \cup {Never}]
         /\ where' \in [Users -> Rooms \cup {None}] /\ global' \in [Users -> Rooms \cup {None}]
<1>1. /\ where \in [Users -> Rooms \cup {None}] /\ global \in [Users -> Rooms \cup {None}]
      /\ shown \in [Pages -> Seq(Items)] /\ follows \in [Pages -> Nat \cup {Never}]
  BY DEF TypeOK
<1>2. where' = [where EXCEPT ![u] = r] /\ global' = [global EXCEPT ![u] = r]
  BY DEF Enter
<1>3. where' \in [Users -> Rooms \cup {None}] /\ global' \in [Users -> Rooms \cup {None}]
  BY <1>1, <1>2
<1>4. SocketsKnown'
  BY DEF PageInv, SocketsKnown
<1>5. CASE r = where[u]
  <2>1. UNCHANGED <<shown, follows>>
    BY <1>5 DEF Enter
  <2>2. where' = where
    BY <1>1, <1>2, <1>5
  <2>3. PageInv'
    BY <2>1, <2>2, PagesSame
  <2> QED
    BY <1>1, <1>3, <2>1, <2>3
<1>6. CASE r # where[u]
  <2>1. /\ follows' = [p \in Pages |-> IF p = socket[u] THEN Never ELSE follows[p]]
        /\ shown' = [p \in Pages |-> IF p = socket[u] THEN <<>> ELSE shown[p]]
    BY <1>6 DEF Enter, Forget
  <2>2. /\ shown' \in [Pages -> Seq(Items)] /\ follows' \in [Pages -> Nat \cup {Never}]
    BY <1>1, <2>1, EmptySeq
  <2>3. \A p \in Pages : follows'[p] # Never =>
          p # socket[u] /\ follows'[p] = follows[p] /\ shown'[p] = shown[p]
    BY <2>1
  <2>4. FollowedPages'
    BY <2>3 DEF PageInv, FollowedPages
  <2>5. NothingMissed'
    <3>1. SUFFICES ASSUME NEW v \in Users, NEW p \in Pages, socket[v] = p, follows'[p] # Never
                   PROVE  Shows(shown'[p], said, follows'[p], where'[v])
      BY DEF NothingMissed, Shows, OnPage
    <3>2. v # u /\ follows'[p] = follows[p] /\ shown'[p] = shown[p] /\ follows[p] # Never
      BY <2>3, <3>1
    <3>3. where'[v] = where[v]
      BY <1>1, <1>2, <3>2
    <3>4. Shows(shown[p], said, follows[p], where[v])
      BY <3>1, <3>2 DEF PageInv, NothingMissed, Shows, OnPage
    <3> QED
      BY <3>2, <3>3, <3>4
  <2> QED
    BY <1>3, <1>4, <2>2, <2>4, <2>5 DEF PageInv
<1> QED
  BY <1>5, <1>6

-----------------------------------------------------------------------------
(* The steps of the front end *)

LEMMA PagesMore ==
  ASSUME PageInv, UNCHANGED <<socket, shown, where, follows, said>>,
         \A k \in 1..Len(pages) : pages[k].stage = "done" =>
           k \in 1..Len(pages') /\ pages'[k].user = pages[k].user /\ pages'[k].stage = "done"
  PROVE  PageInv'
<1>1. SocketsKnown'
  BY DEF PageInv, SocketsKnown
<1>2. FollowedPages' /\ NothingMissed'
  BY DEF PageInv, FollowedPages, NothingMissed, OnPage
<1> QED
  BY <1>1, <1>2 DEF PageInv

LEMMA InputTyped ==
  ASSUME TypeOK, Input
  PROVE  inputs' \in 0..MaxInputs /\ inputs \in Nat /\ inputs' = inputs + 1
<1>1. MaxInputs \in Nat
  BY MessagesAssumption
<1>2. inputs \in 0..MaxInputs
  BY DEF TypeOK
<1>3. inputs < MaxInputs /\ inputs' = inputs + 1
  BY DEF Input
<1> QED
  BY <1>1, <1>2, <1>3

PageSet == [user : Users, room : Rooms, stage : Stages]

LEMMA OpenPageStep ==
  ASSUME MessagesInv, NEW u \in Users, NEW r \in Rooms, OpenPage(u, r)
  PROVE  MessagesInv'
<1> DEFINE page == [user |-> u, room |-> r, stage |-> "request"]
           join == Event("join", u, r)
           moves == IF global[u] \in {None, r} THEN <<>> ELSE <<Event("chroom", u, global[u])>>
<1>1. TypeOK /\ PageInv /\ RoomsNamed /\ FileInv /\ NoticeInv
  BY DEF MessagesInv
<1>2. /\ pages' = Append(pages, page) /\ Len(pages) < MaxPages
      /\ events' = events \o moves \o <<join>>
      /\ global' = [global EXCEPT ![u] = r]
  BY DEF OpenPage
<1>3. pages \in Seq(PageSet) /\ page \in PageSet
  BY <1>1 DEF TypeOK, PageSet, Stages
<1> HIDE DEF page
<1>4. /\ pages' \in Seq(PageSet) /\ Len(pages') = Len(pages) + 1 /\ Len(pages) \in Nat
      /\ \A k \in 1..Len(pages) : pages'[k] = pages[k]
  BY <1>2, <1>3, AppendProperties, LenProperties
<1>5. PageInv'
  <2>1. \A k \in 1..Len(pages) : k \in 1..Len(pages') /\ pages'[k] = pages[k]
    BY <1>4
  <2>2. UNCHANGED <<socket, shown, where, follows, said>>
    BY DEF OpenPage, logs
  <2> QED
    BY <1>1, <2>1, <2>2, PagesMore
<1>6. join \in EventSet /\ join.room # None
  BY MessagesAssumption DEF Event, EventSet, Types
<1>7. moves \in Seq(EventSet) /\ Named(moves)
  <2>1. CASE global[u] \in {None, r}
    BY <2>1, EmptySeq DEF Named
  <2>2. CASE global[u] \notin {None, r}
    <3>1. Event("chroom", u, global[u]) \in EventSet /\ Event("chroom", u, global[u]).room # None
      BY <1>1, <2>2 DEF Event, EventSet, Types, TypeOK
    <3>2. moves = <<Event("chroom", u, global[u])>>
      BY <2>2
    <3> QED
      BY <3>1, <3>2 DEF Named
  <2> QED
    BY <2>1, <2>2
<1> HIDE DEF join, moves
<1>8. events \in Seq(EventSet) /\ Named(events) /\ Named(batch) /\ batch' = batch
  BY <1>1, RoomsNamedDef DEF TypeOK, OpenPage
<1>9. events' \in Seq(EventSet) /\ Named(events')
  <2>1. events \o moves \in Seq(EventSet) /\ Named(events \o moves)
    BY <1>7, <1>8, NamedConcat, ConcatProperties
  <2>2. <<join>> \in Seq(EventSet) /\ Named(<<join>>)
    BY <1>6 DEF Named
  <2> QED
    BY <1>2, <2>1, <2>2, NamedConcat, ConcatProperties
<1>10. RoomsNamed'
  BY <1>8, <1>9 DEF RoomsNamed, Named
<1>11. inputs' \in 0..MaxInputs /\ inputs \in Nat /\ inputs' = inputs + 1
  BY <1>1, InputTyped DEF OpenPage
<1>12. FileInv' /\ NoticeInv'
  <2>1. UNCHANGED <<said, unwritten, bin, txt, packed, backup>>
    BY DEF OpenPage, files, logs
  <2>2. UNCHANGED <<external, copy, telling, handed, lost, cut, log, said, pc>>
    BY DEF OpenPage, notices, inbox, logs
  <2> QED
    BY <1>1, <1>11, <2>1, <2>2, FilesSame, NoticesSame
<1>13. TypeOK'
  <2>1. global' \in [Users -> Rooms \cup {None}]
    BY <1>1, <1>2 DEF TypeOK
  <2>2. pages' \in Seq([user : Users, room : Rooms, stage : Stages]) /\ Len(pages') <= MaxPages
    BY <1>2, <1>4, MessagesAssumption DEF PageSet
  <2>3. UNCHANGED <<socket, shown, where, batch, pc, notices, files, logs, follows>>
    BY DEF OpenPage
  <2> QED
    BY <1>1, <1>9, <1>11, <2>1, <2>2, <2>3 DEF TypeOK, notices, inbox, files, logs
<1> QED
  BY <1>5, <1>10, <1>12, <1>13 DEF MessagesInv

(* An event is pushed and nothing else changes but rooms and pages.         *)
LEMMA PushStep ==
  ASSUME TypeOK, RoomsNamed, NEW e \in EventSet, e.type # "part" => e.room # None, Push(e),
         batch' = batch
  PROVE  events' \in Seq(EventSet) /\ RoomsNamed'
<1>1. events \in Seq(EventSet) /\ Named(events) /\ Named(batch)
  BY RoomsNamedDef DEF TypeOK
<1>2. events' \in Seq(EventSet) /\ Named(events')
  BY <1>1, EventPushed DEF Push
<1> QED
  BY <1>1, <1>2 DEF RoomsNamed, Named

LEMMA PageAtStep ==
  ASSUME TypeOK, NEW p \in Pages, NEW stage, NEW next \in Stages, PageAt(p, stage, next)
  PROVE  /\ p \in 1..Len(pages) /\ pages[p] \in PageSet /\ pages[p].stage = stage
         /\ pages' \in Seq(PageSet) /\ Len(pages') = Len(pages)
         /\ \A k \in 1..Len(pages) :
              /\ pages'[k].user = pages[k].user
              /\ pages'[k].stage = IF k = p THEN next ELSE pages[k].stage
<1>1. pages \in Seq(PageSet) /\ DOMAIN pages = 1..Len(pages)
  BY LenProperties DEF TypeOK, PageSet
<1>2. p \in 1..Len(pages) /\ pages[p].stage = stage /\ pages' = [pages EXCEPT ![p].stage = next]
  BY <1>1 DEF PageAt
<1>3. pages[p] \in PageSet
  BY <1>1, <1>2, ElementOfSeq
<1> DEFINE e == [pages[p] EXCEPT !.stage = next]
<1>4. e \in PageSet /\ e.user = pages[p].user /\ e.stage = next
  BY <1>3 DEF PageSet
<1>5. pages' = [pages EXCEPT ![p] = e]
  BY <1>2
<1> HIDE DEF e
<1>6. /\ pages' \in Seq(PageSet) /\ Len(pages') = Len(pages)
      /\ \A k \in 1..Len(pages) : pages'[k] = IF k = p THEN e ELSE pages[k]
  BY <1>1, <1>2, <1>4, <1>5, ExceptSeq
<1> QED
  BY <1>2, <1>3, <1>4, <1>6

LEMMA PageRequestsStep ==
  ASSUME MessagesInv, NEW p \in Pages, PageRequests(p)
  PROVE  MessagesInv'
<1>1. TypeOK /\ PageInv /\ RoomsNamed /\ FileInv /\ NoticeInv
  BY DEF MessagesInv
<1>2. PageAt(p, "request", "socket") /\ "socket" \in Stages
  BY DEF PageRequests, Stages
<1>3. /\ p \in 1..Len(pages) /\ pages[p] \in PageSet /\ pages[p].stage = "request"
      /\ pages' \in Seq(PageSet) /\ Len(pages') = Len(pages)
      /\ \A k \in 1..Len(pages) :
           /\ pages'[k].user = pages[k].user
           /\ pages'[k].stage = IF k = p THEN "socket" ELSE pages[k].stage
  BY <1>1, <1>2, PageAtStep
<1>4. PageInv'
  <2>1. UNCHANGED <<socket, shown, where, follows, said>>
    BY DEF PageRequests, logs, rooms
  <2> QED
    BY <1>1, <1>3, <2>1, PagesMore
<1>5. events' \in Seq(EventSet) /\ RoomsNamed'
  <2> DEFINE e == Event("page", pages[p].user, pages[p].room)
  <2>1. e \in EventSet /\ e.room # None
    BY <1>3, MessagesAssumption DEF Event, EventSet, Types, PageSet
  <2>2. Push(e) /\ batch' = batch
    BY DEF PageRequests
  <2> HIDE DEF e
  <2> QED
    BY <1>1, <2>1, <2>2, PushStep
<1>6. FileInv' /\ NoticeInv'
  <2>1. UNCHANGED <<said, unwritten, bin, txt, packed, backup>>
    BY DEF PageRequests, files, logs
  <2>2. UNCHANGED <<external, copy, telling, handed, lost, cut, log, said, pc, inputs>>
    BY DEF PageRequests, notices, inbox, logs
  <2>3. inputs \in Nat
    BY <1>1, MessagesAssumption DEF TypeOK
  <2> QED
    BY <1>1, <2>1, <2>2, <2>3, FilesSame, NoticesSame
<1>7. TypeOK'
  <2>1. UNCHANGED <<socket, shown, rooms, batch, pc, notices, files, logs, follows, inputs>>
    BY DEF PageRequests
  <2> QED
    BY <1>1, <1>3, <1>5, <2>1 DEF TypeOK, PageSet, rooms, notices, inbox, files, logs
<1> QED
  BY <1>4, <1>5, <1>6, <1>7 DEF MessagesInv

LEMMA PageTakesOverStep ==
  ASSUME MessagesInv, NEW p \in Pages, PageTakesOver(p)
  PROVE  MessagesInv'
<1> DEFINE u == pages[p].user
           old == socket[u]
<1>1. TypeOK /\ PageInv /\ RoomsNamed /\ FileInv /\ NoticeInv
  BY DEF MessagesInv
<1>2. PageAt(p, "socket", "done") /\ "done" \in Stages
  BY DEF PageTakesOver, Stages
<1>3. /\ p \in 1..Len(pages) /\ pages[p] \in PageSet /\ pages[p].stage = "socket"
      /\ pages' \in Seq(PageSet) /\ Len(pages') = Len(pages)
      /\ \A k \in 1..Len(pages) :
           /\ pages'[k].user = pages[k].user
           /\ pages'[k].stage = IF k = p THEN "done" ELSE pages[k].stage
  BY <1>1, <1>2, PageAtStep
<1>4. u \in Users
  BY <1>3 DEF PageSet
<1>5. /\ socket' = [socket EXCEPT ![u] = p]
      /\ follows' = [q \in Pages |-> IF q = old THEN Never ELSE follows[q]]
      /\ shown' = [q \in Pages |-> IF q = old THEN <<>> ELSE shown[q]]
      /\ UNCHANGED <<rooms, queues, pc, notices, files, logs, inputs>>
  BY DEF PageTakesOver, Forget
<1>6. /\ socket \in [Users -> Pages \cup {None}] /\ shown \in [Pages -> Seq(Items)]
      /\ follows \in [Pages -> Nat \cup {Never}]
  BY <1>1 DEF TypeOK
<1>7. /\ socket' \in [Users -> Pages \cup {None}] /\ shown' \in [Pages -> Seq(Items)]
      /\ follows' \in [Pages -> Nat \cup {Never}]
  BY <1>4, <1>5, <1>6, EmptySeq
<1>8. socket'[u] = p /\ \A v \in Users : v # u => socket'[v] = socket[v]
  BY <1>4, <1>5, <1>6
<1>9. None \notin Pages
  BY MessagesAssumption DEF Pages
<1>10. \A v \in Users : socket[v] # p
  BY <1>1, <1>3, <1>9 DEF PageInv, SocketsKnown
<1>11. follows[p] = Never
  BY <1>1, <1>10 DEF PageInv, FollowedPages
<1>12. \A q \in Pages : follows'[q] # Never =>
         q # old /\ q # p /\ follows'[q] = follows[q] /\ shown'[q] = shown[q]
  BY <1>5, <1>11
<1> HIDE DEF u, old
<1>13. SocketsKnown'
  <2>1. ASSUME NEW v \in Users, socket'[v] # None
        PROVE  /\ socket'[v] \in 1..Len(pages')
               /\ pages'[socket'[v]].user = v /\ pages'[socket'[v]].stage = "done"
    <3>1. CASE v = u
      BY <1>3, <1>8, <3>1 DEF u
    <3>2. CASE v # u
      <4>1. socket'[v] = socket[v]
        BY <1>8, <3>2
      <4>2. /\ socket[v] \in 1..Len(pages)
            /\ pages[socket[v]].user = v /\ pages[socket[v]].stage = "done"
        BY <1>1, <2>1, <4>1 DEF PageInv, SocketsKnown
      <4> QED
        BY <1>3, <4>1, <4>2
    <3> QED
      BY <3>1, <3>2
  <2> QED
    BY <2>1 DEF SocketsKnown
<1>14. FollowedPages'
  <2>1. SUFFICES ASSUME NEW q \in Pages, follows'[q] # Never
                 PROVE  follows'[q] <= Len(said) /\ \E v \in Users : socket'[v] = q
    BY <1>5 DEF FollowedPages, logs
  <2>2. q # old /\ follows'[q] = follows[q] /\ follows[q] # Never
    BY <1>12, <2>1
  <2>3. follows[q] <= Len(said) /\ \E v \in Users : socket[v] = q
    BY <1>1, <2>2 DEF PageInv, FollowedPages
  <2>4. PICK v \in Users : socket[v] = q
    BY <2>3
  <2>5. v # u
    BY <2>2, <2>4 DEF old
  <2> QED
    BY <1>8, <2>2, <2>3, <2>4, <2>5
<1>15. NothingMissed'
  <2>1. SUFFICES ASSUME NEW v \in Users, NEW q \in Pages, socket'[v] = q, follows'[q] # Never
                 PROVE  Shows(shown'[q], said, follows'[q], where[v])
    BY <1>5 DEF NothingMissed, Shows, OnPage, logs, rooms
  <2>2. q # p /\ follows'[q] = follows[q] /\ shown'[q] = shown[q] /\ follows[q] # Never
    BY <1>12, <2>1
  <2>3. socket[v] = q
    BY <1>8, <2>1, <2>2
  <2>4. Shows(shown[q], said, follows[q], where[v])
    BY <1>1, <2>2, <2>3 DEF PageInv, NothingMissed, Shows, OnPage
  <2> QED
    BY <2>2, <2>4
<1>16. RoomsNamed' /\ FileInv' /\ NoticeInv'
  <2>1. UNCHANGED <<said, unwritten, bin, txt, packed, backup>>
    BY <1>5 DEF files, logs
  <2>2. UNCHANGED <<external, copy, telling, handed, lost, cut, log, said, pc, inputs>>
    BY <1>5 DEF notices, inbox, logs
  <2>3. inputs \in Nat /\ UNCHANGED <<events, batch>>
    BY <1>1, <1>5, MessagesAssumption DEF TypeOK, queues
  <2> QED
    BY <1>1, <2>1, <2>2, <2>3, FilesSame, NoticesSame, QueuesSame
<1>17. TypeOK'
  BY <1>1, <1>3, <1>5, <1>7 DEF TypeOK, PageSet, rooms, queues, notices, inbox, files, logs
<1> QED
  BY <1>13, <1>14, <1>15, <1>16, <1>17 DEF MessagesInv, PageInv

LEMMA SendMessageStep ==
  ASSUME MessagesInv, NEW u \in Users, SendMessage(u)
  PROVE  MessagesInv'
<1>1. TypeOK /\ PageInv /\ RoomsNamed /\ FileInv /\ NoticeInv
  BY DEF MessagesInv
<1>2. events' \in Seq(EventSet) /\ RoomsNamed'
  <2> DEFINE e == Event("say", u, global[u])
  <2>1. e \in EventSet /\ e.room # None
    BY <1>1 DEF SendMessage, Event, EventSet, Types, TypeOK
  <2>2. Push(e) /\ batch' = batch
    BY DEF SendMessage
  <2> HIDE DEF e
  <2> QED
    BY <1>1, <2>1, <2>2, PushStep
<1>3. inputs' \in 0..MaxInputs /\ inputs \in Nat /\ inputs' = inputs + 1
  BY <1>1, InputTyped DEF SendMessage
<1>4. UNCHANGED <<web, shown, rooms, batch, pc, notices, files, logs, follows>>
  BY DEF SendMessage
<1>5. PageInv'
  BY <1>1, <1>4, PagesSame DEF web, rooms, logs
<1>6. FileInv'
  BY <1>1, <1>4, FilesSame DEF files, logs
<1>7. NoticeInv'
  BY <1>1, <1>3, <1>4, NoticesSame DEF notices, inbox, logs
<1>8. TypeOK'
  BY <1>1, <1>2, <1>3, <1>4 DEF TypeOK, web, rooms, notices, inbox, files, logs
<1> QED
  BY <1>2, <1>5, <1>6, <1>7, <1>8 DEF MessagesInv

LEMMA LeaveStep ==
  ASSUME MessagesInv, NEW u \in Users, Leave(u)
  PROVE  MessagesInv'
<1>1. TypeOK /\ PageInv /\ RoomsNamed /\ FileInv /\ NoticeInv
  BY DEF MessagesInv
<1>2. events' \in Seq(EventSet) /\ RoomsNamed'
  <2> DEFINE e == Event("part", u, None)
  <2>1. e \in EventSet /\ e.type = "part"
    BY DEF Event, EventSet, Types
  <2>2. Push(e) /\ batch' = batch
    BY DEF Leave
  <2> HIDE DEF e
  <2> QED
    BY <1>1, <2>1, <2>2, PushStep
<1>3. inputs' \in 0..MaxInputs /\ inputs \in Nat /\ inputs' = inputs + 1
  BY <1>1, InputTyped DEF Leave
<1>4. UNCHANGED <<web, shown, where, batch, pc, notices, files, logs, follows>>
  BY DEF Leave
<1>5. PageInv'
  BY <1>1, <1>4, PagesSame DEF web, logs
<1>6. FileInv'
  BY <1>1, <1>4, FilesSame DEF files, logs
<1>7. NoticeInv'
  BY <1>1, <1>3, <1>4, NoticesSame DEF notices, inbox, logs
<1>8. global' \in [Users -> Rooms \cup {None}]
  BY <1>1 DEF Leave, TypeOK
<1>9. TypeOK'
  BY <1>1, <1>2, <1>3, <1>4, <1>8 DEF TypeOK, web, notices, inbox, files, logs
<1> QED
  BY <1>2, <1>5, <1>6, <1>7, <1>9 DEF MessagesInv

LEMMA SendNoticeStep ==
  ASSUME MessagesInv, NEW u \in Users, SendNotice(u)
  PROVE  MessagesInv'
<1> DEFINE m == Notice(global[u], u, inputs + 1)
<1>1. TypeOK /\ PageInv /\ RoomsNamed /\ FileInv /\ NoticeInv
  BY DEF MessagesInv
<1>2. inputs' \in 0..MaxInputs /\ inputs \in Nat /\ inputs' = inputs + 1
  BY <1>1, InputTyped DEF SendNotice
<1>3. m \in Items /\ m.kind = "notice" /\ m.n = inputs + 1
  <2>1. global[u] \in Rooms
    BY <1>1 DEF SendNotice, TypeOK
  <2> QED
    BY <1>2, <2>1 DEF Notice, Items, Kinds, Anyone
<1>4. /\ Deliver([v \in Users |-> IF v = u THEN <<m>> ELSE <<>>])
      /\ telling' = telling \cup {m}
      /\ UNCHANGED <<web, rooms, queues, pc, inbox, copy, files, logs, follows>>
  BY DEF SendNotice
<1> HIDE DEF m
<1>5. PageInv' /\ shown' \in [Pages -> Seq(Items)]
  <2>1. UNCHANGED <<pages, socket, where, follows, said>>
    BY <1>4 DEF web, rooms, logs
  <2> QED
    BY <1>1, <1>3, <1>4, <2>1, PagesNotice
<1>6. RoomsNamed' /\ FileInv'
  BY <1>1, <1>4, QueuesSame, FilesSame DEF queues, files, logs
<1>7. NoticeInv'
  <2>1. /\ handed \subseteq 1..inputs /\ \A v, w \in telling : v.n = w.n => v = w
        /\ \A v \in telling : v.kind = "notice" /\ v.n \in 1..inputs /\ v.n \notin handed
    BY <1>1 DEF NoticeInv, NoticesNew
  <2>2. inputs + 1 \in 1..inputs' /\ inputs + 1 \notin 1..inputs /\ 1..inputs \subseteq 1..inputs'
    BY <1>2
  <2>3. NoticesNew'
    <3>1. handed' \subseteq 1..inputs' /\ handed' = handed
      BY <1>4, <2>1, <2>2 DEF inbox
    <3>2. ASSUME NEW v \in telling'
          PROVE  v.kind = "notice" /\ v.n \in 1..inputs' /\ v.n \notin handed
      BY <1>3, <1>4, <2>1, <2>2
    <3>3. ASSUME NEW v \in telling', NEW w \in telling', v.n = w.n PROVE v = w
      <4>1. \A x \in telling : x.n # m.n
        BY <1>3, <2>1, <2>2
      <4> QED
        BY <1>4, <2>1, <3>3, <4>1
    <3> QED
      BY <3>1, <3>2, <3>3 DEF NoticesNew
  <2>4. NoticesOnly' /\ CopyTaken'
    BY <1>1, <1>4 DEF NoticeInv, NoticesOnly, CopyTaken, inbox, logs
  <2>5. LogExact' /\ NoticesLogged'
    BY <1>1, <1>4 DEF NoticeInv, LogExact, NoticesLogged, inbox, logs
  <2> QED
    BY <2>3, <2>4, <2>5 DEF NoticeInv
<1>8. TypeOK'
  <2>1. telling' \subseteq Items
    BY <1>1, <1>3, <1>4 DEF TypeOK
  <2> QED
    BY <1>1, <1>2, <1>4, <1>5, <2>1 DEF TypeOK, web, rooms, queues, inbox, files, logs
<1> QED
  BY <1>5, <1>6, <1>7, <1>8 DEF MessagesInv

(* What the steps on notices need of the types.                             *)
LEMMA NoticeTypes ==
  ASSUME TypeOK
  PROVE  /\ external \in Seq(Items) /\ copy \in Seq(Items) /\ log \in Seq(Items)
         /\ said \in Seq(Items) /\ telling \subseteq Items /\ inputs \in Nat
         /\ inputs \in 0..MaxInputs /\ lost \subseteq handed
<1>1. MaxInputs \in Nat
  BY MessagesAssumption
<1>2. inputs \in 0..MaxInputs
  BY DEF TypeOK
<1> QED
  BY <1>1, <1>2 DEF TypeOK

(* A notice that was never handed over joins the queue.                     *)
LEMMA NoticeQueued ==
  ASSUME TypeOK, NoticeInv, NEW m \in Items, m.kind = "notice", m.n \notin handed,
         external' = Append(external, m), handed' = handed \cup {m.n},
         lost' = IF pc = "clear" THEN lost \cup {m.n} ELSE lost,
         UNCHANGED <<copy, cut, pc, log, said>>
  PROVE  /\ NoticesOnly' /\ CopyTaken' /\ NoticesLogged' /\ LogExact'
         /\ external' \in Seq(Items)
<1>1. external \in Seq(Items) /\ lost \subseteq handed
  BY NoticeTypes
<1>2. /\ Numbers(external') = Numbers(external) \cup {m.n}
      /\ external' \in Seq(Items) /\ Range(external') = Range(external) \cup {m}
  BY <1>1, NumbersAppend, RangeAppend, AppendProperties
<1>3. handed \ lost = (Numbers(external) \ lost) \cup NoticesIn(log) \cup cut
  BY DEF NoticeInv, NoticesLogged
<1>4. m.n \notin Numbers(external) /\ m.n \notin NoticesIn(log) /\ m.n \notin cut /\ m.n \notin lost
  BY <1>1, <1>3
<1>5. NoticesOnly'
  <2>1. external' = external \o <<m>> /\ <<m>> \in Seq(Items)
    BY <1>1, AppendIsConcat
  <2>2. Different(<<m>>) /\ Range(<<m>>) = {m}
    BY DEF Different, Range
  <2>3. m \notin Range(external)
    BY <1>4 DEF Numbers
  <2>4. Different(external) /\ Different(copy) /\ \A x \in Range(external) : x.kind = "notice"
    BY DEF NoticeInv, NoticesOnly
  <2>5. Different(external')
    <3>1. Different(external \o <<m>>) <=>
            Different(external) /\ Different(<<m>>) /\ Range(external) \cap Range(<<m>>) = {}
      BY <1>1, <2>1, DifferentConcat, Zenon
    <3>2. Range(external) \cap Range(<<m>>) = {}
      BY <2>2, <2>3
    <3> QED
      BY <2>1, <2>2, <2>4, <3>1, <3>2
  <2>6. \A x \in Range(external') : x.kind = "notice"
    BY <1>2, <2>4
  <2>7. \A x \in Range(copy) : x.kind = "notice"
    BY DEF NoticeInv, NoticesOnly
  <2> QED
    BY <2>4, <2>5, <2>6, <2>7 DEF NoticesOnly
<1>6. CopyTaken'
  <2>1. /\ Numbers(external) \cap NoticesIn(log) = {}
        /\ pc = "clear" => Numbers(copy) = Numbers(external) \ lost
        /\ pc # "clear" => copy = <<>> /\ Numbers(external) \cap lost = {}
    BY DEF NoticeInv, CopyTaken
  <2>2. Numbers(external') \cap NoticesIn(log) = {}
    BY <1>2, <1>4, <2>1
  <2>3. pc = "clear" => Numbers(copy) = Numbers(external') \ lost'
    BY <1>2, <2>1, <1>4
  <2>4. pc # "clear" => copy = <<>> /\ Numbers(external') \cap lost' = {}
    BY <1>2, <1>4, <2>1
  <2> QED
    BY <2>2, <2>3, <2>4 DEF CopyTaken
<1>7. NoticesLogged'
  <2>1. CASE pc = "clear"
    <3>1. handed' \ lost' = handed \ lost /\ Numbers(external') \ lost' = Numbers(external) \ lost
      BY <1>2, <1>4, <2>1
    <3> QED
      BY <1>3, <3>1 DEF NoticesLogged
  <2>2. CASE pc # "clear"
    <3>1. /\ handed' \ lost' = (handed \ lost) \cup {m.n}
          /\ Numbers(external') \ lost' = (Numbers(external) \ lost) \cup {m.n}
      BY <1>2, <1>4, <2>2
    <3> QED
      BY <1>3, <3>1 DEF NoticesLogged
  <2> QED
    BY <2>1, <2>2
<1>8. LogExact'
  BY DEF NoticeInv, LogExact
<1> QED
  BY <1>2, <1>5, <1>6, <1>7, <1>8

LEMMA HandOverStep ==
  ASSUME MessagesInv, NEW m \in telling, HandOver(m)
  PROVE  MessagesInv'
<1>1. TypeOK /\ PageInv /\ RoomsNamed /\ FileInv /\ NoticeInv
  BY DEF MessagesInv
<1>2. /\ telling' = telling \ {m} /\ external' = Append(external, m)
      /\ handed' = handed \cup {m.n} /\ lost' = IF pc = "clear" THEN lost \cup {m.n} ELSE lost
      /\ UNCHANGED <<web, shown, rooms, queues, pc, copy, files, logs, follows, inputs>>
  BY DEF HandOver
<1>3. m \in Items /\ m.kind = "notice" /\ m.n \in 1..inputs /\ m.n \notin handed
  BY <1>1 DEF TypeOK, NoticeInv, NoticesNew
<1>4. /\ NoticesOnly' /\ CopyTaken' /\ NoticesLogged' /\ LogExact'
      /\ external' \in Seq(Items)
  BY <1>1, <1>2, <1>3, NoticeQueued DEF logs
<1>5. NoticesNew'
  <2>1. /\ handed \subseteq 1..inputs /\ \A v, w \in telling : v.n = w.n => v = w
        /\ \A v \in telling : v.kind = "notice" /\ v.n \in 1..inputs /\ v.n \notin handed
    BY <1>1 DEF NoticeInv, NoticesNew
  <2>2. inputs' = inputs
    BY <1>2
  <2>3. handed' \subseteq 1..inputs'
    BY <1>2, <1>3, <2>1, <2>2
  <2>4. ASSUME NEW v \in telling'
        PROVE  v.kind = "notice" /\ v.n \in 1..inputs' /\ v.n \notin handed'
    BY <1>2, <2>1, <2>2
  <2>5. \A v, w \in telling' : v.n = w.n => v = w
    BY <1>2, <2>1
  <2> QED
    BY <2>3, <2>4, <2>5 DEF NoticesNew
<1>6. PageInv' /\ RoomsNamed' /\ FileInv'
  BY <1>1, <1>2, PagesSame, QueuesSame, FilesSame DEF web, rooms, queues, files, logs
<1>7. TypeOK'
  <2>1. lost' \subseteq handed' /\ telling' \subseteq Items
    BY <1>1, <1>2 DEF TypeOK
  <2>2. handed' \subseteq 1..MaxInputs
    <3>1. inputs \in 0..MaxInputs /\ inputs \in Nat /\ MaxInputs \in Nat
      BY <1>1, NoticeTypes, MessagesAssumption
    <3>2. m.n \in 1..MaxInputs
      BY <1>3, <3>1
    <3> QED
      BY <1>1, <1>2, <3>2 DEF TypeOK
  <2> QED
    BY <1>1, <1>2, <1>4, <2>1, <2>2, SMTT(30) DEF TypeOK, web, rooms, queues, files, logs
<1> QED
  BY <1>4, <1>5, <1>6, <1>7 DEF MessagesInv, NoticeInv

-----------------------------------------------------------------------------
(* The steps of the chat thread *)

LEMMA CopyNoticesStep ==
  ASSUME MessagesInv, CopyNotices
  PROVE  MessagesInv'
<1>1. TypeOK /\ PageInv /\ RoomsNamed /\ FileInv /\ NoticeInv
  BY DEF MessagesInv
<1>2. /\ pc = "take" /\ copy' = external /\ pc' = "clear"
      /\ UNCHANGED <<web, shown, rooms, queues, inbox, telling, files, logs, follows, inputs>>
  BY DEF CopyNotices
<1>3. PageInv' /\ RoomsNamed' /\ FileInv'
  BY <1>1, <1>2, PagesSame, QueuesSame, FilesSame DEF web, rooms, queues, files, logs
<1>4. NoticesOnly' /\ NoticesNew'
  BY <1>1, <1>2 DEF NoticeInv, NoticesOnly, NoticesNew, inbox
<1>5. CopyTaken'
  <2>1. Numbers(external) \cap NoticesIn(log) = {} /\ Numbers(external) \cap lost = {}
    BY <1>1, <1>2 DEF NoticeInv, CopyTaken
  <2>2. Numbers(external) = Numbers(external) \ lost
    BY <2>1
  <2> QED
    BY <1>2, <2>1, <2>2 DEF CopyTaken, inbox, logs
<1>6. LogExact' /\ NoticesLogged'
  BY <1>1, <1>2 DEF NoticeInv, LogExact, NoticesLogged, inbox, logs
<1>7. TypeOK'
  BY <1>1, <1>2 DEF TypeOK, web, rooms, queues, inbox, files, logs
<1> QED
  BY <1>3, <1>4, <1>5, <1>6, <1>7 DEF MessagesInv, NoticeInv

LEMMA ClearNoticesStep ==
  ASSUME MessagesInv, ClearNotices
  PROVE  MessagesInv'
<1>1. TypeOK /\ PageInv /\ RoomsNamed /\ FileInv /\ NoticeInv
  BY DEF MessagesInv
<1>2. /\ pc = "clear" /\ external' = <<>> /\ log' = log \o copy /\ copy' = <<>> /\ pc' = "extract"
      /\ UNCHANGED <<web, shown, rooms, queues, cut, handed, lost, telling, files, hello,
                     backup, said, follows, inputs>>
  BY DEF ClearNotices
<1>3. PageInv' /\ RoomsNamed' /\ FileInv'
  BY <1>1, <1>2, PagesSame, QueuesSame, FilesSame DEF web, rooms, queues, files
<1>4. /\ external \in Seq(Items) /\ copy \in Seq(Items) /\ log \in Seq(Items)
      /\ <<>> \in Seq(Items) /\ log' \in Seq(Items)
  BY <1>1, <1>2, NoticeTypes, EmptySeq, ConcatProperties
<1>5. /\ Numbers(copy) = Numbers(external) \ lost /\ Numbers(external) \cap NoticesIn(log) = {}
      /\ Different(copy) /\ \A x \in Range(copy) : x.kind = "notice"
  BY <1>1, <1>2 DEF NoticeInv, CopyTaken, NoticesOnly
<1>6. IsEndOf(Only(log, "said"), said) /\ Different(log)
  BY <1>1, <1>4, LogExactDef DEF NoticeInv
<1>7. /\ Only(log \o copy, "said") = Only(log, "said") /\ Different(log \o copy)
      /\ NoticesIn(log \o copy) = NoticesIn(log) \cup Numbers(copy)
  <2>1. Numbers(copy) \cap NoticesIn(log) = {}
    BY <1>5
  <2> QED
    BY <1>4, <1>5, <1>6, <2>1, LogNoticed
<1>8. LogExact'
  <2>1. DOMAIN log' = 1..Len(log')
    BY <1>4, LenProperties
  <2>2. IsEndOf(Only(log', "said"), said') /\ Different(log')
    BY <1>2, <1>6, <1>7
  <2> QED
    BY <2>1, <2>2 DEF LogExact, Different
<1>9. NoticesOnly' /\ NoticesNew'
  <2>1. Different(<<>>) /\ Range(<<>>) = {}
    BY RangeEmpty DEF Different
  <2> QED
    BY <1>1, <1>2, <2>1 DEF NoticeInv, NoticesOnly, NoticesNew
<1>10. CopyTaken'
  BY <1>2, NumbersEmpty DEF CopyTaken
<1>11. NoticesLogged'
  <2>1. handed \ lost = (Numbers(external) \ lost) \cup NoticesIn(log) \cup cut
    BY <1>1 DEF NoticeInv, NoticesLogged
  <2>2. Numbers(external') = {} /\ NoticesIn(log') = NoticesIn(log) \cup (Numbers(external) \ lost)
    BY <1>2, <1>5, <1>7, NumbersEmpty
  <2> QED
    BY <1>2, <2>1, <2>2 DEF NoticesLogged
<1>12. TypeOK'
  BY <1>1, <1>2, <1>4 DEF TypeOK, web, rooms, queues, files
<1> QED
  BY <1>3, <1>8, <1>9, <1>10, <1>11, <1>12 DEF MessagesInv, NoticeInv

LEMMA ExtractEventsStep ==
  ASSUME MessagesInv, ExtractEvents
  PROVE  MessagesInv'
<1>1. TypeOK /\ PageInv /\ RoomsNamed /\ FileInv /\ NoticeInv
  BY DEF MessagesInv
<1>2. /\ pc # "clear" /\ pc' = "batch" /\ batch' = events /\ events' = <<>>
      /\ UNCHANGED <<web, shown, rooms, notices, files, logs, follows, inputs>>
  BY DEF ExtractEvents
<1>3. RoomsNamed'
  BY <1>1, <1>2 DEF RoomsNamed
<1>4. PageInv' /\ FileInv'
  BY <1>1, <1>2, PagesSame, FilesSame DEF web, rooms, files, logs
<1>5. NoticeInv'
  <2>1. inputs \in Nat
    BY <1>1, NoticeTypes
  <2> QED
    BY <1>1, <1>2, <2>1, NoticesSame DEF notices, inbox, logs
<1>6. TypeOK'
  BY <1>1, <1>2, EmptySeq DEF TypeOK, web, rooms, notices, inbox, files, logs
<1> QED
  BY <1>3, <1>4, <1>5, <1>6 DEF MessagesInv

Halls == [{"greeting", "bye", "chroom"} -> Seq(Rooms)]

(* A user enters or leaves a room with the first event of the batch.        *)
LEMMA EnterStep ==
  ASSUME MessagesInv, batch # <<>>, batch' = Tail(batch),
         NEW u \in Users, NEW r \in Rooms \cup {None}, Enter(u, r), hello' \in Halls,
         events' \in Seq(EventSet), Named(events'),
         UNCHANGED <<web, pc, copy, telling, files, lost, cut, external, handed, log, backup, said,
                     inputs>>
  PROVE  MessagesInv'
<1>1. TypeOK /\ PageInv /\ RoomsNamed /\ FileInv /\ NoticeInv
  BY DEF MessagesInv
<1>2. batch' \in Seq(EventSet) /\ Named(batch')
  BY <1>1, EventTaken
<1>3. RoomsNamed'
  BY <1>2 DEF RoomsNamed, Named
<1>4. /\ PageInv'
      /\ shown' \in [Pages -> Seq(Items)] /\ follows' \in [Pages -> Nat \cup {Never}]
      /\ where' \in [Users -> Rooms \cup {None}] /\ global' \in [Users -> Rooms \cup {None}]
  BY <1>1, PagesEnter DEF web
<1>5. FileInv'
  BY <1>1, FilesSame DEF files
<1>6. NoticeInv'
  <2>1. inputs \in Nat
    BY <1>1, NoticeTypes
  <2> QED
    BY <1>1, <2>1, NoticesSame
<1>7. TypeOK'
  BY <1>1, <1>2, <1>4 DEF TypeOK, Halls, web, files
<1> QED
  BY <1>3, <1>4, <1>5, <1>6, <1>7 DEF MessagesInv

LEMMA HelloTyped ==
  ASSUME TypeOK, NEW f \in {"greeting", "bye", "chroom"}, NEW r \in Rooms
  PROVE  hello \in Halls /\ [hello EXCEPT ![f] = Append(@, r)] \in Halls
<1>1. hello \in Halls
  BY DEF TypeOK, Halls
<1>2. Append(hello[f], r) \in Seq(Rooms)
  BY <1>1, AppendProperties DEF Halls
<1> QED
  BY <1>1, <1>2 DEF Halls

LEMMA HandleJoinStep ==
  ASSUME MessagesInv, HandleJoin \/ HandleRejoin
  PROVE  MessagesInv'
<1> DEFINE e == Head(batch)
<1>1. TypeOK /\ RoomsNamed
  BY DEF MessagesInv
<1>2. /\ batch # <<>> /\ e.type # "part" /\ batch' = Tail(batch)
      /\ UNCHANGED <<web, pc, copy, telling, files, lost, cut>>
      /\ JoinRoom(e.user, e.room)
      /\ Push(Event("rejoin", e.user, e.room)) \/ UNCHANGED events
  BY DEF HandleJoin, HandleRejoin, Take
<1>3. e.user \in Users /\ e.room \in Rooms
  BY <1>1, <1>2, EventTaken
<1>4. events' \in Seq(EventSet) /\ Named(events')
  <2>1. events \in Seq(EventSet) /\ Named(events)
    BY <1>1, RoomsNamedDef DEF TypeOK
  <2>2. Event("rejoin", e.user, e.room) \in EventSet /\ Event("rejoin", e.user, e.room).room # None
    BY <1>3, MessagesAssumption DEF Event, EventSet, Types
  <2>3. CASE UNCHANGED events
    BY <2>1, <2>3
  <2>4. CASE Push(Event("rejoin", e.user, e.room))
    BY <2>1, <2>2, <2>4, EventPushed DEF Push
  <2> QED
    BY <1>2, <2>3, <2>4
<1>5. hello' \in Halls
  <2>1. /\ hello \in Halls /\ [hello EXCEPT !["greeting"] = Append(@, e.room)] \in Halls
    BY <1>1, <1>3, HelloTyped
  <2>2. hello' = hello \/ hello' = [hello EXCEPT !["greeting"] = Append(@, e.room)]
    BY <1>2 DEF JoinRoom
  <2> QED
    BY <2>1, <2>2
<1>6. /\ Enter(e.user, e.room) /\ UNCHANGED <<external, handed, log, backup, said, inputs>>
  BY <1>2 DEF JoinRoom
<1> HIDE DEF e
<1> QED
  BY <1>2, <1>3, <1>4, <1>5, <1>6, EnterStep

LEMMA HandlePartStep ==
  ASSUME MessagesInv, HandlePart
  PROVE  MessagesInv'
<1> DEFINE u == Head(batch).user
<1>1. TypeOK /\ RoomsNamed
  BY DEF MessagesInv
<1>2. /\ batch # <<>> /\ batch' = Tail(batch) /\ Enter(u, None)
      /\ UNCHANGED <<web, pc, copy, telling, files, lost, cut>>
      /\ UNCHANGED <<events, external, handed, log, backup, said, inputs>>
      /\ hello' = IF where[u] = None THEN hello
                  ELSE [hello EXCEPT !["bye"] = Append(@, where[u])]
  BY DEF HandlePart, Take
<1>3. u \in Users
  BY <1>1, <1>2, EventTaken
<1>4. events' \in Seq(EventSet) /\ Named(events')
  BY <1>1, <1>2, RoomsNamedDef DEF TypeOK
<1>5. hello' \in Halls
  <2>1. hello \in Halls
    BY <1>1 DEF TypeOK, Halls
  <2>2. CASE where[u] = None
    BY <1>2, <2>1, <2>2
  <2>3. CASE where[u] # None
    <3>1. where[u] \in Rooms
      BY <1>1, <1>3, <2>3 DEF TypeOK
    <3>2. [hello EXCEPT !["bye"] = Append(@, where[u])] \in Halls
      BY <1>1, <3>1, HelloTyped
    <3> QED
      BY <1>2, <2>3, <3>2
  <2> QED
    BY <2>2, <2>3
<1> HIDE DEF u
<1>6. None \in Rooms \cup {None}
  OBVIOUS
<1> QED
  BY <1>2, <1>3, <1>4, <1>5, <1>6, EnterStep

LEMMA HandleChroomStep ==
  ASSUME MessagesInv, HandleChroom
  PROVE  MessagesInv'
<1> DEFINE e == Head(batch)
<1>1. TypeOK /\ PageInv /\ RoomsNamed /\ FileInv /\ NoticeInv
  BY DEF MessagesInv
<1>2. /\ batch # <<>> /\ batch' = Tail(batch) /\ e.type # "part"
      /\ UNCHANGED <<web, pc, copy, telling, files, lost, cut>>
      /\ UNCHANGED <<events, shown, global, where, external, handed, log, backup, said, follows,
                     inputs>>
      /\ hello' = [hello EXCEPT !["chroom"] = Append(@, e.room)]
  BY DEF HandleChroom, Take
<1>3. batch' \in Seq(EventSet) /\ Named(batch') /\ e.room \in Rooms
  BY <1>1, <1>2, EventTaken
<1>4. hello' \in Halls
  <2>1. [hello EXCEPT !["chroom"] = Append(@, e.room)] \in Halls
    BY <1>1, <1>3, HelloTyped
  <2> QED
    BY <1>2, <2>1
<1> HIDE DEF e
<1>5. RoomsNamed'
  BY <1>1, <1>2, <1>3 DEF RoomsNamed, Named
<1>6. PageInv' /\ FileInv'
  BY <1>1, <1>2, PagesSame, FilesSame DEF web, files
<1>7. NoticeInv'
  <2>1. inputs \in Nat
    BY <1>1, NoticeTypes
  <2> QED
    BY <1>1, <1>2, <2>1, NoticesSame
<1>8. TypeOK'
  BY <1>1, <1>2, <1>3, <1>4 DEF TypeOK, Halls, web, files
<1> QED
  BY <1>5, <1>6, <1>7, <1>8 DEF MessagesInv

LEMMA LastMessagesEnd ==
  ASSUME TypeOK, NEW u, NEW r
  PROVE  /\ IsEndOf(LastMessages(u, r), Select(log, Seen(r, u)))
         /\ LastMessages(u, r) \in Seq(Items) /\ Len(LastMessages(u, r)) <= Backlog + 1
<1> DEFINE mine == Select(log, Seen(r, u))
           from == Len(mine) - Backlog
           k == IF from < 1 THEN 1 ELSE from
<1>1. mine \in Seq(Items) /\ Len(mine) \in Nat /\ Backlog \in Nat
  <2>1. mine \in Seq(Items)
    BY SelectType DEF TypeOK
  <2>2. Backlog \in Nat
    BY MessagesAssumption
  <2> HIDE DEF mine
  <2> QED
    BY <2>1, <2>2, LenProperties
<1>2. LastMessages(u, r) = SubSeq(mine, k, Len(mine))
  BY DEF LastMessages
<1> HIDE DEF mine
<1>3. k \in 1..(Len(mine) + 1) /\ k - 1 \in 0..Len(mine) /\ (k - 1) + 1 = k
  BY <1>1
<1>4. Len(mine) - k <= Backlog
  BY <1>1
<1> HIDE DEF k
<1>5. IsEndOf(LastMessages(u, r), mine)
  BY <1>2, <1>3 DEF IsEndOf
<1>6. LastMessages(u, r) \in Seq(Items)
  BY <1>1, <1>5, EndRange
<1>7. Len(LastMessages(u, r)) = IF k <= Len(mine) THEN Len(mine) - k + 1 ELSE 0
  <2>1. k \in Int /\ Len(mine) \in Int /\ \A i \in k..Len(mine) : mine[i] \in Items
    BY <1>1, <1>3, ElementOfSeq
  <2> QED
    BY <1>2, <2>1, SubSeqProperties
<1>8. Len(LastMessages(u, r)) <= Backlog + 1
  BY <1>1, <1>3, <1>4, <1>7
<1> QED
  BY <1>5, <1>6, <1>8 DEF mine

LEMMA HandlePageStep ==
  ASSUME MessagesInv, HandlePage
  PROVE  MessagesInv'
<1> DEFINE u == Head(batch).user
           r == where[u]
           content == LastMessages(u, r)
<1>1. TypeOK /\ PageInv /\ RoomsNamed /\ FileInv /\ NoticeInv
  BY DEF MessagesInv
<1>2. /\ batch # <<>> /\ batch' = Tail(batch)
      /\ UNCHANGED <<web, pc, copy, telling, files, lost, cut>>
      /\ UNCHANGED <<events, where, external, handed, hello, log, backup, said, inputs>>
      /\ global' = [global EXCEPT ![u] = IF r = Head(batch).room THEN @ ELSE r]
  BY DEF HandlePage, Take
<1>3. \/ UNCHANGED <<shown, follows>>
      \/ /\ shown' = [p \in Pages |-> IF p = socket[u] THEN content ELSE shown[p]]
         /\ follows' = [p \in Pages |-> IF p = socket[u] THEN Len(said) ELSE follows[p]]
  BY DEF HandlePage
<1>4. batch' \in Seq(EventSet) /\ Named(batch') /\ u \in Users
  BY <1>1, <1>2, EventTaken
<1>5. r \in Rooms \cup {None} /\ global' \in [Users -> Rooms \cup {None}]
  BY <1>1, <1>2, <1>4 DEF TypeOK
<1>6. /\ IsEndOf(content, Select(log, Seen(r, u)))
      /\ content \in Seq(Items) /\ Len(content) <= Backlog + 1
  BY <1>1, LastMessagesEnd
<1> HIDE DEF u, r, content
<1>7. log \in Seq(Items) /\ said \in Seq(Items) /\ Len(said) \in Nat /\ Backlog \in Nat
  BY <1>1, NoticeTypes, LenProperties, MessagesAssumption
<1>8. Shows(content, said, Len(said), r)
  <2>1. IsEndOf(Only(log, "said"), said)
    BY <1>1 DEF NoticeInv, LogExact
  <2>2. \A x \in Range(said) : x.kind = "said" /\ x.to = None
    BY <1>1, <1>7, InTurnRange DEF FileInv
  <2> QED
    BY <1>6, <1>7, <2>1, <2>2, ShowsContent
<1>9. PageInv' /\ shown' \in [Pages -> Seq(Items)] /\ follows' \in [Pages -> Nat \cup {Never}]
  <2>1. shown \in [Pages -> Seq(Items)] /\ follows \in [Pages -> Nat \cup {Never}]
    BY <1>1 DEF TypeOK
  <2>2. CASE UNCHANGED <<shown, follows>>
    BY <1>1, <1>2, <2>1, <2>2, PagesSame DEF web
  <2>3. CASE /\ shown' = [p \in Pages |-> IF p = socket[u] THEN content ELSE shown[p]]
             /\ follows' = [p \in Pages |-> IF p = socket[u] THEN Len(said) ELSE follows[p]]
    <3>1. shown' \in [Pages -> Seq(Items)] /\ follows' \in [Pages -> Nat \cup {Never}]
      BY <1>6, <1>7, <2>1, <2>3
    <3>2. SocketsKnown'
      BY <1>1, <1>2 DEF PageInv, SocketsKnown, web
    <3>3. FollowedPages'
      <4>1. SUFFICES ASSUME NEW p \in Pages, follows'[p] # Never
                     PROVE  follows'[p] <= Len(said) /\ \E v \in Users : socket[v] = p
        BY <1>2 DEF FollowedPages, web
      <4>2. CASE p = socket[u]
        BY <1>4, <1>7, <2>3, <4>2
      <4>3. CASE p # socket[u]
        <5>1. follows'[p] = follows[p]
          BY <2>3, <4>3
        <5> QED
          BY <1>1, <4>1, <5>1 DEF PageInv, FollowedPages
      <4> QED
        BY <4>2, <4>3
    <3>4. NothingMissed'
      <4>1. SUFFICES ASSUME NEW v \in Users, NEW p \in Pages, socket[v] = p, follows'[p] # Never
                     PROVE  Shows(shown'[p], said, follows'[p], where[v])
        BY <1>2 DEF NothingMissed, Shows, OnPage, web
      <4>2. CASE p = socket[u]
        <5>1. socket[u] # None /\ socket[v] # None
          BY <4>1, <4>2, MessagesAssumption DEF Pages
        <5>2. v = u
          BY <1>1, <1>4, <4>1, <4>2, <5>1 DEF PageInv, SocketsKnown
        <5>3. shown'[p] = content /\ follows'[p] = Len(said)
          BY <2>3, <4>2
        <5> QED
          BY <1>8, <5>2, <5>3 DEF r
      <4>3. CASE p # socket[u]
        <5>1. follows'[p] = follows[p] /\ shown'[p] = shown[p]
          BY <2>3, <4>3
        <5> QED
          BY <1>1, <4>1, <5>1 DEF PageInv, NothingMissed, Shows, OnPage
      <4> QED
        BY <4>2, <4>3
    <3> QED
      BY <3>1, <3>2, <3>3, <3>4 DEF PageInv
  <2> QED
    BY <1>3, <2>2, <2>3
<1>10. RoomsNamed'
  BY <1>1, <1>2, <1>4 DEF RoomsNamed, Named
<1>11. FileInv'
  BY <1>1, <1>2, FilesSame DEF files
<1>12. NoticeInv'
  <2>1. inputs \in Nat
    BY <1>1, NoticeTypes
  <2> QED
    BY <1>1, <1>2, <2>1, NoticesSame
<1>13. TypeOK'
  BY <1>1, <1>2, <1>4, <1>5, <1>9 DEF TypeOK, web, files
<1> QED
  BY <1>9, <1>10, <1>11, <1>12, <1>13 DEF MessagesInv

(* What is said goes to the log, and the log may be cut.                    *)
LEMMA LogStep ==
  ASSUME TypeOK, NoticeInv, InTurn(said), NEW new \in Seq(Items), Fresh(new, said),
         said' = said \o new, log' = log \o new \/ log' = Trim(log \o new),
         cut' = cut \cup (NoticesIn(log) \ NoticesIn(log')),
         UNCHANGED <<external, copy, telling, handed, lost, inputs>>, pc # "clear", pc' # "clear"
  PROVE  /\ NoticeInv' /\ log' \in Seq(Items) /\ cut' \subseteq 1..MaxInputs
         /\ log' = Trim(log \o new) => Len(log') <= High
<1> DEFINE all == log \o new
           s == said \o new
<1>1. /\ log \in Seq(Items) /\ said \in Seq(Items) /\ all \in Seq(Items) /\ s \in Seq(Items)
      /\ inputs \in Nat /\ inputs \in 0..MaxInputs
  BY NoticeTypes, ConcatProperties
<1>2. IsEndOf(Only(log, "said"), said) /\ Different(log)
  BY <1>1, LogExactDef DEF NoticeInv
<1>3. IsEndOf(Only(all, "said"), s) /\ Different(all) /\ NoticesIn(all) = NoticesIn(log)
  BY <1>1, <1>2, LogSaid
<1>4. Low \in Nat /\ High \in Nat /\ Low <= High /\ MaxInputs \in Nat
  BY MessagesAssumption
<1> HIDE DEF all, s
<1>5. /\ Trim(all) \in Seq(Items) /\ Len(Trim(all)) <= High
      /\ IsEndOf(Only(Trim(all), "said"), s) /\ Different(Trim(all))
      /\ NoticesIn(Trim(all)) \subseteq NoticesIn(all)
  BY <1>1, <1>3, <1>4, LogTrimmed
<1>6. /\ log' \in Seq(Items) /\ IsEndOf(Only(log', "said"), s) /\ Different(log')
      /\ NoticesIn(log') \subseteq NoticesIn(log)
  <2>1. CASE log' = all
    BY <1>1, <1>3, <2>1
  <2>2. CASE log' = Trim(all)
    BY <1>3, <1>5, <2>2
  <2> QED
    BY <2>1, <2>2 DEF all
<1>7. LogExact'
  <2>1. DOMAIN log' = 1..Len(log')
    BY <1>6, LenProperties
  <2> QED
    <3>1. IsEndOf(Only(log', "said"), said')
      BY <1>6 DEF s
    <3>2. Different(log')
      BY <1>6
    <3>3. \A i, j \in 1..Len(log') : log'[i] = log'[j] => i = j
      BY <3>2, Zenon DEF Different
    <3>4. \A i, j \in DOMAIN log' : log'[i] = log'[j] => i = j
      BY <2>1, <3>3, Zenon
    <3> QED
      BY <3>1, <3>4, Zenon DEF LogExact
<1>8. NoticesOnly' /\ NoticesNew'
  BY DEF NoticeInv, NoticesOnly, NoticesNew
<1>9. CopyTaken'
  BY <1>6 DEF NoticeInv, CopyTaken
<1>10. NoticesIn(log') \cup cut' = NoticesIn(log) \cup cut
  BY <1>6
<1>11. handed \ lost = (Numbers(external) \ lost) \cup NoticesIn(log) \cup cut
  BY DEF NoticeInv, NoticesLogged
<1>12. NoticesLogged'
  BY <1>10, <1>11 DEF NoticesLogged
<1>13. cut' \subseteq 1..MaxInputs
  <2>1. handed \subseteq 1..inputs
    BY DEF NoticeInv, NoticesNew
  <2>2. 1..inputs \subseteq 1..MaxInputs
    BY <1>1, <1>4
  <2> QED
    BY <1>10, <1>11, <2>1, <2>2
<1> QED
  BY <1>5, <1>6, <1>7, <1>8, <1>9, <1>12, <1>13 DEF NoticeInv, all

LEMMA ItemsAssociative ==
  \A a, b, c \in Seq(Items) : (a \o b) \o c = a \o (b \o c)
BY ConcatAssociative

(* What is added to the backup comes after what waits for a file.           *)
Moved(f, p, b, new) ==
  /\ (f \o p \o b) \o new = f \o p \o (b \o new)
  /\ (f \o p \o b) \o new = f \o (p \o b \o new) \o <<>>

LEMMA FilesMoved ==
  \A p, b, new, f \in Seq(Items) : Moved(f, p, b, new)
<1> SUFFICES ASSUME NEW p \in Seq(Items), NEW b \in Seq(Items), NEW new \in Seq(Items),
                    NEW f \in Seq(Items)
             PROVE  Moved(f, p, b, new)
  OBVIOUS
<1>0. f \o p \in Seq(Items)
  BY ConcatProperties
<1>1. p \o b \in Seq(Items) /\ (p \o b) \o new \in Seq(Items)
  BY ConcatProperties
<1>2. f \o ((p \o b) \o new) \in Seq(Items)
  BY <1>1, ConcatProperties
<1>3. ((f \o p) \o b) \o new = (f \o p) \o (b \o new)
  BY <1>0, ItemsAssociative, Zenon
<1>4. (f \o p) \o b = f \o (p \o b)
  BY ItemsAssociative, Zenon
<1>5. (f \o (p \o b)) \o new = f \o ((p \o b) \o new)
  BY <1>1, ItemsAssociative, Zenon
<1>6. (f \o ((p \o b) \o new)) \o <<>> = f \o ((p \o b) \o new)
  BY <1>2, ConcatEmptySeq, Zenon
<1> QED
  BY <1>3, <1>4, <1>5, <1>6, Zenon DEF Moved

(* What is said goes to the backup.                                         *)
LEMMA FilesStep ==
  ASSUME TypeOK, FileInv, NEW new \in Seq(Items), Fresh(new, said),
         said' = said \o new, UNCHANGED <<bin, txt, unwritten>>,
         \/ packed' = packed /\ backup' = backup \o new
         \/ packed' = packed \o backup \o new /\ backup' = <<>>
  PROVE  FileInv' /\ packed' \in Seq(Items) /\ backup' \in Seq(Items) /\ said' \in Seq(Items)
<1>1. /\ said \in Seq(Items) /\ bin \in Seq(Items) /\ txt \in Seq(Items)
      /\ packed \in Seq(Items) /\ backup \in Seq(Items) /\ <<>> \in Seq(Items)
  BY EmptySeq DEF TypeOK
<1>2. /\ packed \o backup \in Seq(Items) /\ backup \o new \in Seq(Items)
      /\ packed \o backup \o new \in Seq(Items) /\ said' \in Seq(Items)
  BY <1>1, ConcatProperties
<1>3. packed' \in Seq(Items) /\ backup' \in Seq(Items)
  BY <1>1, <1>2
<1>4. \A f \in Seq(Items) : (f \o packed \o backup) \o new = f \o packed' \o backup'
  <2>1. \A f \in Seq(Items) :
          /\ (f \o packed \o backup) \o new = f \o packed \o (backup \o new)
          /\ (f \o packed \o backup) \o new = f \o (packed \o backup \o new) \o <<>>
    <3>1. packed \in Seq(Items) /\ backup \in Seq(Items) /\ new \in Seq(Items)
      BY <1>1
    <3>2. \A f \in Seq(Items) : Moved(f, packed, backup, new)
      BY <3>1, FilesMoved, Zenon
    <3> QED
      BY <3>2, Zenon DEF Moved
  <2>2. CASE packed' = packed /\ backup' = backup \o new
    BY <2>1, <2>2, Zenon
  <2>3. CASE packed' = packed \o backup \o new /\ backup' = <<>>
    BY <2>1, <2>3, Zenon
  <2> QED
    BY <2>2, <2>3
<1>5. InTurn(said') /\ InTurn(said)
  BY <1>1, FreshInTurn DEF FileInv
<1>6. UnwrittenSaid'
  <2>1. Len(said') = Len(said) + Len(new) /\ Len(said) \in Nat /\ Len(new) \in Nat
    BY <1>1, ConcatProperties, LenProperties
  <2>2. 1..Len(said) \subseteq 1..Len(said')
    BY <2>1
  <2> QED
    BY <2>2 DEF FileInv, UnwrittenSaid
<1>7. /\ unwritten.bin \in SUBSET (1..Len(said)) /\ unwritten.txt \in SUBSET (1..Len(said))
      /\ Select(said, Without(unwritten.bin)) = bin \o packed \o backup
      /\ Select(said, Without(unwritten.txt)) = txt \o packed \o backup
  BY WrittenDef DEF FileInv, UnwrittenSaid, BackupExact
<1>8. /\ Select(said \o new, Without(unwritten.bin)) = Select(said, Without(unwritten.bin)) \o new
      /\ Select(said \o new, Without(unwritten.txt)) = Select(said, Without(unwritten.txt)) \o new
  BY <1>1, <1>7, FilesSaid
<1>9. /\ Select(said', Without(unwritten.bin)) = bin \o packed' \o backup'
      /\ Select(said', Without(unwritten.txt)) = txt \o packed' \o backup'
  BY <1>1, <1>4, <1>7, <1>8
<1>10. BackupExact'
  BY <1>9 DEF BackupExact, Written, Without
<1> QED
  BY <1>2, <1>3, <1>5, <1>6, <1>10 DEF FileInv

LEMMA HandleSayStep ==
  ASSUME MessagesInv, HandleSay
  PROVE  MessagesInv'
<1> DEFINE e == Head(batch)
           u == e.user
           new == <<Message(e.room, Len(said) + 1)>>
           m == Notice(global[u], u, inputs + 1)
<1>1. TypeOK /\ PageInv /\ RoomsNamed /\ FileInv /\ NoticeInv
  BY DEF MessagesInv
<1>2. /\ pc = "batch" /\ batch # <<>> /\ batch' = Tail(batch) /\ e.type # "part"
      /\ UNCHANGED <<web, pc, copy, telling, files, lost, cut>>
      /\ UNCHANGED <<events, global, where, hello, follows>>
  BY DEF HandleSay, Take
<1>3. batch' \in Seq(EventSet) /\ Named(batch') /\ u \in Users /\ e.room \in Rooms
  BY <1>1, <1>2, EventTaken
<1>4. RoomsNamed'
  BY <1>1, <1>2, <1>3 DEF RoomsNamed, Named
<1>5. said \in Seq(Items) /\ Len(said) \in Nat /\ log \in Seq(Items)
  BY <1>1, NoticeTypes, LenProperties
<1>6. CASE /\ where[u] # None
           /\ Save(new)
           /\ backup' = backup \o new
           /\ Deliver(Heard(new))
           /\ UNCHANGED <<external, handed, inputs>>
  <2>1. new \in Seq(Items) /\ Fresh(new, said)
    <3>1. Message(e.room, Len(said) + 1) \in Items
      BY <1>3, <1>5 DEF Message, Items, Kinds, Anyone
    <3>2. Len(new) = 1 /\ new[1] = Message(e.room, Len(said) + 1)
      OBVIOUS
    <3>3. Fresh(new, said)
      BY <3>2 DEF Fresh, Message
    <3> QED
      BY <3>1, <3>3
  <2>2. log' = log \o new /\ said' = said \o new
    BY <1>6 DEF Save
  <2> HIDE DEF new
  <2>3. PageInv' /\ shown' \in [Pages -> Seq(Items)]
    BY <1>1, <1>2, <1>6, <2>1, <2>2, PagesHear DEF web
  <2>4. FileInv' /\ backup' \in Seq(Items) /\ said' \in Seq(Items)
    <3>1. packed' = packed /\ UNCHANGED <<bin, txt, unwritten>>
      BY <1>2 DEF files
    <3> QED
      BY <1>1, <1>6, <2>1, <2>2, <3>1, FilesStep
  <2>5. NoticeInv' /\ log' \in Seq(Items)
    <3>1. IsEndOf(Only(log, "said"), said) /\ Different(log) /\ InTurn(said)
      BY <1>1, <1>5, LogExactDef DEF NoticeInv, FileInv
    <3>2. NoticesIn(log \o new) = NoticesIn(log)
      BY <1>5, <2>1, <3>1, LogSaid
    <3>3. cut' = cut \cup (NoticesIn(log) \ NoticesIn(log'))
      BY <1>2, <2>2, <3>2
    <3>4. pc # "clear" /\ pc' # "clear"
      BY <1>2
    <3> QED
      BY <1>1, <1>2, <1>6, <2>1, <2>2, <3>1, <3>3, <3>4, LogStep
  <2>6. TypeOK'
    <3>1. \A s \in {external', copy', log', backup', packed', bin', txt', said'} :
            s \in Seq(Items)
      BY <1>1, <1>2, <1>6, <2>4, <2>5 DEF TypeOK, files
    <3>2. /\ handed' = handed /\ inputs' = inputs /\ pc' = "batch"
          /\ UNCHANGED <<pages, socket, global, where, events, hello, follows, lost, cut>>
          /\ UNCHANGED <<telling, unwritten>>
      BY <1>2, <1>6 DEF web, files
    <3> QED
      BY <1>1, <1>3, <2>3, <3>1, <3>2 DEF TypeOK
  <2> QED
    BY <1>4, <2>3, <2>4, <2>5, <2>6 DEF MessagesInv
<1>7. CASE /\ where[u] # None /\ global[u] # None
           /\ Deliver([v \in Users |-> IF v = u THEN <<m>> ELSE <<>>])
           /\ external' = Append(external, m)
           /\ handed' = handed \cup {m.n}
           /\ Input
           /\ UNCHANGED <<log, said, backup>>
  <2>1. inputs' \in 0..MaxInputs /\ inputs \in Nat /\ inputs' = inputs + 1
    BY <1>1, <1>7, InputTyped
  <2>2. m \in Items /\ m.kind = "notice" /\ m.n = inputs + 1
    <3>1. global[u] \in Rooms
      BY <1>1, <1>3, <1>7 DEF TypeOK
    <3> QED
      BY <1>3, <2>1, <3>1 DEF Notice, Items, Kinds, Anyone
  <2>3. /\ handed \subseteq 1..inputs /\ \A v, w \in telling : v.n = w.n => v = w
        /\ \A v \in telling : v.kind = "notice" /\ v.n \in 1..inputs /\ v.n \notin handed
    BY <1>1 DEF NoticeInv, NoticesNew
  <2> HIDE DEF m
  <2>4. m.n \notin handed /\ m.n \in 1..inputs' /\ 1..inputs \subseteq 1..inputs'
    BY <2>1, <2>2, <2>3
  <2>5. PageInv' /\ shown' \in [Pages -> Seq(Items)]
    BY <1>1, <1>2, <1>3, <1>7, <2>2, PagesNotice DEF web
  <2>6. FileInv'
    BY <1>1, <1>2, <1>7, FilesSame DEF files
  <2>7. /\ NoticesOnly' /\ CopyTaken' /\ NoticesLogged' /\ LogExact'
        /\ external' \in Seq(Items)
    <3>1. lost' = IF pc = "clear" THEN lost \cup {m.n} ELSE lost
      BY <1>2
    <3> QED
      BY <1>1, <1>2, <1>7, <2>2, <2>4, <3>1, NoticeQueued
  <2>8. NoticesNew'
    <3>1. handed' \subseteq 1..inputs' /\ telling' = telling
      BY <1>2, <1>7, <2>3, <2>4
    <3>2. \A v \in telling : v.n \in 1..inputs' /\ v.n \notin handed'
      <4>1. ASSUME NEW v \in telling PROVE v.n # m.n
        BY <2>1, <2>2, <2>3
      <4> QED
        BY <1>7, <2>3, <2>4, <4>1
    <3> QED
      BY <2>3, <3>1, <3>2 DEF NoticesNew
  <2>9. TypeOK'
    <3>1. MaxInputs \in Nat
      BY MessagesAssumption
    <3>2. m.n \in 1..MaxInputs
      BY <2>1, <2>2, <3>1
    <3>3. handed' \subseteq 1..MaxInputs /\ lost' \subseteq handed'
      BY <1>1, <1>2, <1>7, <3>2 DEF TypeOK
    <3> QED
      <4>1. \A s \in {external', copy', log', backup', packed', bin', txt', said'} :
              s \in Seq(Items)
        BY <1>1, <1>2, <1>7, <2>7 DEF TypeOK, files
      <4>2. /\ pc' = "batch" /\ cut' = cut
            /\ UNCHANGED <<pages, socket, global, where, events, hello, follows>>
            /\ UNCHANGED <<telling, unwritten>>
        BY <1>2 DEF web, files
      <4> QED
        BY <1>1, <1>3, <2>1, <2>5, <3>3, <4>1, <4>2 DEF TypeOK
  <2> QED
    BY <1>4, <2>5, <2>6, <2>7, <2>8, <2>9 DEF MessagesInv, NoticeInv
<1>8. CASE UNCHANGED <<shown, external, handed, log, backup, said, inputs>>
  <2>1. PageInv' /\ FileInv'
    BY <1>1, <1>2, <1>8, PagesSame, FilesSame DEF web, files
  <2>2. NoticeInv'
    <3>1. inputs \in Nat
      BY <1>1, NoticeTypes
    <3> QED
      BY <1>1, <1>2, <1>8, <3>1, NoticesSame
  <2>3. TypeOK'
    BY <1>1, <1>2, <1>3, <1>8 DEF TypeOK, web, files
  <2> QED
    BY <1>4, <2>1, <2>2, <2>3 DEF MessagesInv
<1> QED
  BY <1>6, <1>7, <1>8 DEF HandleSay

-----------------------------------------------------------------------------
(* The end of the round and the files                                       *)

LEMMA AnnouncedFresh ==
  ASSUME TypeOK
  PROVE  Announced \in Seq(Items) /\ Fresh(Announced, said)
<1> DEFINE all == hello.greeting \o hello.bye \o hello.chroom
<1>1. hello.greeting \in Seq(Rooms) /\ hello.bye \in Seq(Rooms) /\ hello.chroom \in Seq(Rooms)
  BY DEF TypeOK
<1>2. all \in Seq(Rooms)
  <2>1. hello.greeting \o hello.bye \in Seq(Rooms)
    BY <1>1, ConcatProperties
  <2> QED
    BY <1>1, <2>1, ConcatProperties
<1>3. Announced = [i \in DOMAIN all |-> Message(all[i], Len(said) + i)]
  BY DEF Announced
<1> HIDE DEF all
<1>4. Len(all) \in Nat /\ DOMAIN all = 1..Len(all) /\ Len(said) \in Nat
  BY <1>2, NoticeTypes, LenProperties
<1>5. ASSUME NEW i \in 1..Len(all)
      PROVE  Message(all[i], Len(said) + i) \in Items
  <2>1. all[i] \in Rooms
    BY <1>2, ElementOfSeq
  <2>2. Len(said) + i \in Nat
    BY <1>4
  <2> QED
    BY <2>1, <2>2 DEF Message, Items, Kinds, Anyone
<1>6. Announced \in [1..Len(all) -> Items]
  BY <1>3, <1>4, <1>5
<1>7. Announced \in Seq(Items)
  BY <1>4, <1>6, SeqDef
<1>8. Len(Announced) = Len(all)
  <2>1. DOMAIN Announced = 1..Len(Announced) /\ Len(Announced) \in Nat
    BY <1>7, LenProperties
  <2>2. DOMAIN Announced = 1..Len(all)
    BY <1>3, <1>4
  <2>3. \A i, j \in Nat : 1..i = 1..j => i = j
    <3>1. SUFFICES ASSUME NEW i \in Nat, NEW j \in Nat, 1..i = 1..j
                   PROVE  i = j
      OBVIOUS
    <3>2. i \in 1..i <=> i \in 1..j
      BY <3>1
    <3>3. j \in 1..i <=> j \in 1..j
      BY <3>1
    <3> QED
      BY <3>2, <3>3
  <2> HIDE DEF all
  <2>4. 1..Len(Announced) = 1..Len(all)
    BY <2>1, <2>2
  <2> QED
    BY <1>4, <2>1, <2>3, <2>4, Zenon
<1>9. \A k \in 1..Len(Announced) : Announced[k] = Message(all[k], Len(said) + k)
  BY <1>3, <1>4, <1>8
<1>10. Fresh(Announced, said)
  <2>1. ASSUME NEW k \in 1..Len(Announced)
        PROVE  Announced[k].n = Len(said) + k /\ Announced[k].kind = "said" /\ Announced[k].to = None
    <3>1. Announced[k] = Message(all[k], Len(said) + k)
      BY <1>9
    <3> QED
      BY <3>1 DEF Message
  <2> QED
    BY <2>1 DEF Fresh
<1> QED
  BY <1>7, <1>10

LEMMA NobodyAnnounced ==
  ASSUME NEW S, NEW e \in S
  PROVE  [greeting |-> e, bye |-> e, chroom |-> e] \in [{"greeting", "bye", "chroom"} -> S]
<1> DEFINE h == [greeting |-> e, bye |-> e, chroom |-> e]
<1>1. \A f \in {"greeting", "bye", "chroom"} : h[f] = e
  OBVIOUS
<1>2. DOMAIN h = {"greeting", "bye", "chroom"}
  OBVIOUS
<1>3. h = [f \in {"greeting", "bye", "chroom"} |-> h[f]]
  BY <1>2
<1> HIDE DEF h
<1>4. h \in [{"greeting", "bye", "chroom"} -> S]
  BY <1>1, <1>3
<1> QED
  BY <1>4 DEF h

LEMMA FinishRoundStep ==
  ASSUME MessagesInv, FinishRound
  PROVE  MessagesInv'
<1> DEFINE new == IF events = <<>> THEN Announced ELSE <<>>
<1>1. TypeOK /\ PageInv /\ RoomsNamed /\ FileInv /\ NoticeInv
  BY DEF MessagesInv
<1>2. /\ pc = "batch" /\ Announce /\ pc' = "take"
      /\ packed' = packed \o backup \o new /\ backup' = <<>>
      /\ log' = Trim(log \o new)
      /\ cut' = cut \cup (NoticesIn(log) \ NoticesIn(log'))
      /\ UNCHANGED <<web, rooms, queues, notices, bin, txt, unwritten, follows, inputs>>
  BY DEF FinishRound, PackBackup
<1>3. said \in Seq(Items) /\ log \in Seq(Items) /\ hello \in Halls
  BY <1>1, NoticeTypes DEF TypeOK, Halls
<1>4. new \in Seq(Items) /\ Fresh(new, said)
  <2>1. <<>> \in Seq(Items) /\ Fresh(<<>>, said)
    BY EmptySeq DEF Fresh
  <2> QED
    BY <1>1, <2>1, AnnouncedFresh
<1>5. /\ said' = said \o new /\ hello' \in Halls
      /\ PageInv' /\ shown' \in [Pages -> Seq(Items)]
  <2>1. CASE events = <<>>
    <3>1. /\ new = Announced /\ said' = said \o Announced /\ Deliver(Heard(Announced))
          /\ hello' = [greeting |-> <<>>, bye |-> <<>>, chroom |-> <<>>]
      BY <1>2, <2>1 DEF Announce
    <3>2. hello' \in Halls
      <4>1. <<>> \in Seq(Rooms)
        BY EmptySeq
      <4> QED
        BY <3>1, <4>1, NobodyAnnounced DEF Halls
    <3>3. Announced \in Seq(Items) /\ Fresh(Announced, said)
      BY <1>1, AnnouncedFresh
    <3>4. UNCHANGED <<pages, socket, where, follows>>
      BY <1>2 DEF web, rooms
    <3>5. PageInv' /\ shown' \in [Pages -> Seq(Items)]
      BY <1>1, <3>1, <3>3, <3>4, PagesHear
    <3> QED
      BY <3>1, <3>2, <3>5
  <2>2. CASE events # <<>>
    <3>1. new = <<>> /\ UNCHANGED <<shown, hello, said>>
      BY <1>2, <2>2 DEF Announce
    <3>2. said \o <<>> = said
      BY <1>3, ConcatEmptySeq
    <3>3. UNCHANGED <<pages, socket, where, follows>>
      BY <1>2 DEF web, rooms
    <3>4. PageInv'
      BY <1>1, <3>1, <3>3, PagesSame
    <3>5. shown' \in [Pages -> Seq(Items)]
      BY <1>1, <3>1 DEF TypeOK
    <3> QED
      BY <1>3, <3>1, <3>2, <3>4, <3>5
  <2> QED
    BY <2>1, <2>2
<1> HIDE DEF new
<1>6. FileInv' /\ packed' \in Seq(Items) /\ backup' \in Seq(Items) /\ said' \in Seq(Items)
  <2>1. said' = said \o new /\ UNCHANGED <<bin, txt, unwritten>>
    BY <1>2, <1>5
  <2>2. packed' = packed \o backup \o new /\ backup' = <<>>
    BY <1>2
  <2> QED
    BY <1>1, <1>4, <2>1, <2>2, FilesStep
<1>7. /\ NoticeInv' /\ log' \in Seq(Items) /\ cut' \subseteq 1..MaxInputs
      /\ Len(log') <= High
  <2>1. InTurn(said)
    BY <1>1 DEF FileInv
  <2>2. UNCHANGED <<external, copy, telling, handed, lost, inputs>> /\ pc # "clear" /\ pc' # "clear"
    BY <1>2 DEF notices, inbox
  <2>3. log' = Trim(log \o new) /\ cut' = cut \cup (NoticesIn(log) \ NoticesIn(log'))
    BY <1>2
  <2> QED
    BY <1>1, <1>4, <1>5, <2>1, <2>2, <2>3, LogStep
<1>8. RoomsNamed'
  BY <1>1, <1>2, QueuesSame DEF queues
<1>9. TypeOK'
  <2>1. \A s \in {external', copy', log', backup', packed', bin', txt', said'} : s \in Seq(Items)
    BY <1>1, <1>2, <1>6, <1>7 DEF TypeOK, notices, inbox
  <2>2. /\ UNCHANGED <<pages, socket, global, where, events, batch, follows, lost, handed>>
        /\ UNCHANGED <<telling, unwritten, inputs>>
    BY <1>2 DEF web, rooms, queues, notices, inbox
  <2> QED
    BY <1>1, <1>2, <1>5, <1>7, <2>1, <2>2 DEF TypeOK, Halls
<1> QED
  BY <1>5, <1>6, <1>7, <1>8, <1>9 DEF MessagesInv

LEMMA ItemsRange ==
  \A a, b \in Seq(Items) : Range(a \o b) = Range(a) \cup Range(b)
BY RangeConcatenation

(* The numbers of what waits to be written are numbers of what was said.    *)
LEMMA PackedSaid ==
  ASSUME TypeOK, FileInv
  PROVE  Numbers(packed) \subseteq 1..Len(said)
<1>1. /\ said \in Seq(Items) /\ bin \in Seq(Items)
      /\ packed \in Seq(Items) /\ backup \in Seq(Items)
  BY DEF TypeOK
<1>2. bin \o packed \in Seq(Items)
  BY <1>1, ConcatProperties
<1>3. Range(bin \o packed) = Range(bin) \cup Range(packed)
  BY <1>1, ItemsRange, Zenon
<1>4. Range(bin \o packed \o backup) = Range(bin \o packed) \cup Range(backup)
  BY <1>1, <1>2, ItemsRange, Zenon
<1>5. Range(Select(said, Without(unwritten.bin))) \subseteq Range(said)
  <2>1. Range(Select(said, Without(unwritten.bin))) = Range(said) \cap Without(unwritten.bin)
    BY <1>1, SelectRange
  <2> QED
    BY <2>1
<1>6. Range(packed) \subseteq Range(said)
  <2>1. Range(Select(said, Without(unwritten.bin))) = Range(bin \o packed \o backup)
    BY WrittenDef DEF FileInv, BackupExact
  <2> QED
    BY <1>3, <1>4, <1>5, <2>1, Zenon
<1>7. \A x \in Range(said) : x.n \in 1..Len(said)
  BY <1>1, InTurnRange DEF FileInv
<1> QED
  BY <1>6, <1>7 DEF Numbers

(* A file gets what waits, or will never have it.                           *)
LEMMA FileWritten ==
  ASSUME TypeOK
  PROVE  /\ (bin \o packed) \o <<>> \o backup = bin \o packed \o backup
         /\ (txt \o packed) \o <<>> \o backup = txt \o packed \o backup
         /\ bin \o packed \in Seq(Items) /\ txt \o packed \in Seq(Items)
<1>1. bin \o packed \in Seq(Items) /\ txt \o packed \in Seq(Items)
  BY ConcatProperties DEF TypeOK
<1>2. (bin \o packed) \o <<>> = bin \o packed /\ (txt \o packed) \o <<>> = txt \o packed
  BY <1>1, ConcatEmptySeq
<1> QED
  BY <1>1, <1>2

LEMMA FileMissed ==
  ASSUME TypeOK, FileInv
  PROVE  /\ Written(unwritten.bin \cup Numbers(packed)) = bin \o <<>> \o backup
         /\ Written(unwritten.txt \cup Numbers(packed)) = txt \o <<>> \o backup
<1>1. /\ said \in Seq(Items) /\ bin \in Seq(Items) /\ txt \in Seq(Items)
      /\ packed \in Seq(Items) /\ backup \in Seq(Items) /\ InTurn(said)
  BY DEF TypeOK, FileInv
<1>2. /\ Select(said, Without(unwritten.bin)) = bin \o packed \o backup =>
           Select(said, Without(unwritten.bin \cup Numbers(packed))) = bin \o <<>> \o backup
      /\ Select(said, Without(unwritten.txt)) = txt \o packed \o backup =>
           Select(said, Without(unwritten.txt \cup Numbers(packed))) = txt \o <<>> \o backup
  <2>1. Missed(said, unwritten.bin, bin, packed, backup)
    BY <1>1, BatchMissed, Zenon
  <2>2. Missed(said, unwritten.txt, txt, packed, backup)
    BY <1>1, BatchMissed, Zenon
  <2> QED
    BY <2>1, <2>2, Zenon DEF Missed
<1>3. /\ Select(said, Without(unwritten.bin)) = bin \o packed \o backup
      /\ Select(said, Without(unwritten.txt)) = txt \o packed \o backup
  BY WrittenDef, Zenon DEF FileInv, BackupExact
<1> QED
  BY <1>2, <1>3, WrittenDef, Zenon

(* What stays the same when the files are written.                          *)
LEMMA WritingStep ==
  ASSUME TypeOK, PageInv, RoomsNamed, NoticeInv,
         UNCHANGED <<web, shown, rooms, queues, pc, notices, logs, follows>>,
         inputs' \in 0..MaxInputs, inputs' = inputs \/ inputs' = inputs + 1,
         packed' \in Seq(Items), bin' \in Seq(Items), txt' \in Seq(Items),
         unwritten' \in [{"bin", "txt"} -> SUBSET Nat]
  PROVE  TypeOK' /\ PageInv' /\ RoomsNamed' /\ NoticeInv'
<1>1. /\ UNCHANGED <<pages, socket, shown, where, follows, said, events, batch, pc, global>>
      /\ UNCHANGED <<external, copy, telling, handed, lost, cut, log, hello, backup>>
  BY DEF web, rooms, queues, notices, inbox, logs
<1>2. PageInv' /\ RoomsNamed'
  BY <1>1, PagesSame, QueuesSame
<1>3. NoticeInv'
  <2>1. inputs \in Nat
    BY NoticeTypes
  <2> QED
    BY <1>1, <2>1, NoticesSame
<1>4. TypeOK'
  <2>1. \A s \in {external', copy', log', backup', packed', bin', txt', said'} : s \in Seq(Items)
    BY <1>1 DEF TypeOK
  <2> QED
    BY <1>1, <2>1 DEF TypeOK
<1> QED
  BY <1>2, <1>3, <1>4

LEMMA WriteFilesStep ==
  ASSUME MessagesInv, WriteFiles
  PROVE  MessagesInv'
<1>1. TypeOK /\ PageInv /\ RoomsNamed /\ FileInv /\ NoticeInv
  BY DEF MessagesInv
<1>2. /\ packed' = <<>> /\ bin' = bin \o packed /\ txt' = txt \o packed
      /\ UNCHANGED <<web, shown, rooms, queues, pc, notices, unwritten, logs, follows, inputs>>
  BY DEF WriteFiles
<1>3. bin' \in Seq(Items) /\ txt' \in Seq(Items) /\ packed' \in Seq(Items)
  BY <1>1, <1>2, FileWritten, EmptySeq
<1>4. UNCHANGED <<said, backup, unwritten>>
  BY <1>2 DEF logs
<1>5. BackupExact'
  <2>1. Written(unwritten.bin)' = Written(unwritten.bin)
        /\ Written(unwritten.txt)' = Written(unwritten.txt)
    BY <1>4 DEF Written
  <2>2. bin' \o packed' \o backup' = bin \o packed \o backup
        /\ txt' \o packed' \o backup' = txt \o packed \o backup
    BY <1>1, <1>2, <1>4, FileWritten, Zenon
  <2>3. BackupExact
    BY <1>1 DEF FileInv
  <2> QED
    BY <2>1, <2>2, <2>3, Zenon DEF BackupExact
<1>6. FileInv'
  BY <1>1, <1>4, <1>5 DEF FileInv, UnwrittenSaid
<1>7. TypeOK' /\ PageInv' /\ RoomsNamed' /\ NoticeInv'
  <2>1. inputs' \in 0..MaxInputs /\ unwritten' \in [{"bin", "txt"} -> SUBSET Nat]
    BY <1>1, <1>2 DEF TypeOK
  <2> QED
    BY <1>1, <1>2, <1>3, <2>1, WritingStep
<1> QED
  BY <1>6, <1>7 DEF MessagesInv

LEMMA FailToWriteStep ==
  ASSUME MessagesInv, FailToWrite
  PROVE  MessagesInv'
<1> DEFINE gone == Numbers(packed)
           bins == unwritten.bin \cup gone
           txts == unwritten.txt \cup gone
<1>1. TypeOK /\ PageInv /\ RoomsNamed /\ FileInv /\ NoticeInv
  BY DEF MessagesInv
<1>2. /\ packed' = <<>> /\ Input
      /\ UNCHANGED <<web, shown, rooms, queues, pc, notices, txt, logs, follows>>
  BY DEF FailToWrite
<1>3. /\ unwritten'.txt = txts /\ DOMAIN unwritten' = {"bin", "txt"}
      /\ \/ bin' = bin /\ unwritten'.bin = bins
         \/ bin' = bin \o packed /\ unwritten'.bin = unwritten.bin
  <2>1. DOMAIN unwritten = {"bin", "txt"}
    BY <1>1 DEF TypeOK
  <2> QED
    BY <2>1 DEF FailToWrite
<1>4. UNCHANGED <<said, backup, txt>>
  BY <1>2 DEF logs
<1>5. UnwrittenSaid'
  <2>1. gone \subseteq 1..Len(said)
    BY <1>1, PackedSaid
  <2> QED
    BY <1>1, <1>3, <1>4, <2>1 DEF FileInv, UnwrittenSaid
<1>6. unwritten' \in [{"bin", "txt"} -> SUBSET Nat]
  <2>1. 1..Len(said') \subseteq Nat
    OBVIOUS
  <2>2. unwritten'["bin"] \in SUBSET Nat /\ unwritten'["txt"] \in SUBSET Nat
    BY <1>5, <2>1 DEF UnwrittenSaid
  <2>3. unwritten' = [f \in {"bin", "txt"} |-> unwritten'[f]]
    <3>1. unwritten = [f \in {"bin", "txt"} |-> unwritten[f]]
      BY <1>1 DEF TypeOK
    <3>2. CASE unwritten' = [f \in {"bin", "txt"} |-> unwritten[f] \cup Numbers(packed)]
      BY <3>2
    <3>3. CASE unwritten' = [unwritten EXCEPT !.txt = @ \cup Numbers(packed)]
      BY <3>1, <3>3
    <3> QED
      BY <3>2, <3>3 DEF FailToWrite
  <2> QED
    BY <2>2, <2>3
<1>7. bin' \in Seq(Items) /\ txt' \in Seq(Items) /\ packed' \in Seq(Items)
  <2>1. bin \in Seq(Items) /\ txt \in Seq(Items)
    BY <1>1 DEF TypeOK
  <2> QED
    BY <1>1, <1>2, <1>3, <1>4, <2>1, FileWritten, EmptySeq
<1>8. BackupExact'
  <2>1. \A g : Select(said', Without(g)) = Written(g)
    BY <1>4, WrittenDef, Zenon
  <2>2. Select(said', Without(unwritten'.txt)) = txt' \o packed' \o backup'
    BY <1>1, <1>2, <1>3, <1>4, <2>1, FileMissed, Zenon
  <2>3. Select(said', Without(unwritten'.bin)) = bin' \o packed' \o backup'
    <3>1. Written(unwritten.bin) = bin \o packed \o backup
      BY <1>1, Zenon DEF FileInv, BackupExact
    <3>2. CASE bin' = bin /\ unwritten'.bin = bins
      BY <1>1, <1>2, <1>4, <2>1, <3>2, FileMissed, Zenon
    <3>3. CASE bin' = bin \o packed /\ unwritten'.bin = unwritten.bin
      BY <1>1, <1>2, <1>4, <2>1, <3>1, <3>3, FileWritten, Zenon
    <3> QED
      BY <1>3, <3>2, <3>3, Zenon
  <2> QED
    BY <2>2, <2>3, Zenon DEF BackupExact, Written, Without
<1>9. FileInv'
  BY <1>1, <1>4, <1>5, <1>8 DEF FileInv
<1>10. TypeOK' /\ PageInv' /\ RoomsNamed' /\ NoticeInv'
  <2>1. inputs' \in 0..MaxInputs /\ inputs' = inputs + 1
    BY <1>1, <1>2, InputTyped
  <2> QED
    BY <1>1, <1>2, <1>4, <1>6, <1>7, <2>1, WritingStep
<1> QED
  BY <1>9, <1>10 DEF MessagesInv

-----------------------------------------------------------------------------
(* The invariant holds                                                      *)

LEMMA InitInv ==
  ASSUME Init
  PROVE  MessagesInv
<1>1. /\ <<>> \in Seq(Items) /\ <<>> \in Seq(EventSet) /\ <<>> \in Seq(Rooms) /\ Len(<<>>) = 0
      /\ <<>> \in Seq([user : Users, room : Rooms, stage : Stages])
  BY EmptySeq
<1>2. Range(<<>>) = {} /\ Numbers(<<>>) = {} /\ \A T : Select(<<>>, T) = <<>>
  BY RangeEmpty, NumbersEmpty, SelectEmpty
<1>3. MaxPages \in Nat /\ MaxInputs \in Nat /\ High \in Nat
  BY MessagesAssumption
<1>4. TypeOK
  <2>1. hello \in [{"greeting", "bye", "chroom"} -> Seq(Rooms)]
    BY <1>1, NobodyAnnounced DEF Init
  <2>2. unwritten \in [{"bin", "txt"} -> SUBSET Nat]
    BY DEF Init
  <2>3. \A s \in {external, copy, log, backup, packed, bin, txt, said} : s \in Seq(Items)
    BY <1>1 DEF Init
  <2>4. /\ pages \in Seq([user : Users, room : Rooms, stage : Stages]) /\ Len(pages) <= MaxPages
        /\ events \in Seq(EventSet) /\ batch \in Seq(EventSet)
        /\ pc = "take" /\ Len(log) <= High
    BY <1>1, <1>3 DEF Init
  <2>5. /\ socket \in [Users -> Pages \cup {None}]
        /\ shown \in [Pages -> Seq(Items)]
        /\ global \in [Users -> Rooms \cup {None}] /\ where \in [Users -> Rooms \cup {None}]
        /\ follows \in [Pages -> Nat \cup {Never}]
    BY <1>1 DEF Init
  <2>6. /\ lost \subseteq handed /\ handed \subseteq 1..MaxInputs /\ cut \subseteq 1..MaxInputs
        /\ telling \subseteq Items /\ inputs \in 0..MaxInputs
    BY <1>3 DEF Init
  <2> QED
    BY <2>1, <2>2, <2>3, <2>4, <2>5, <2>6 DEF TypeOK
<1>5. PageInv
  <2>1. \A u \in Users : socket[u] = None
    BY DEF Init
  <2>2. \A p \in Pages : follows[p] = Never
    BY DEF Init
  <2> QED
    BY <2>1, <2>2 DEF PageInv, SocketsKnown, FollowedPages, NothingMissed
<1>6. RoomsNamed
  BY <1>1 DEF Init, RoomsNamed
<1>7. FileInv
  <2>1. said = <<>> /\ bin = <<>> /\ txt = <<>> /\ packed = <<>> /\ backup = <<>>
    BY DEF Init
  <2>2. unwritten.bin = {} /\ unwritten.txt = {}
    BY DEF Init
  <2>3. <<>> \o <<>> \o <<>> = <<>>
    BY <1>1, ConcatEmptySeq
  <2>4. BackupExact
    BY <1>2, <2>1, <2>3, WrittenDef DEF BackupExact
  <2> QED
    BY <1>1, <2>1, <2>2, <2>4 DEF FileInv, InTurn, UnwrittenSaid
<1>8. NoticeInv
  <2>1. external = <<>> /\ copy = <<>> /\ log = <<>> /\ said = <<>> /\ pc = "take"
    BY DEF Init
  <2>2. handed = {} /\ lost = {} /\ cut = {} /\ telling = {}
    BY DEF Init
  <2>3. NoticesIn(<<>>) = {} /\ Only(<<>>, "said") = <<>>
    BY <1>2 DEF NoticesIn, Only
  <2>4. NoticesOnly
    BY <1>1, <1>2, <2>1 DEF NoticesOnly, Different
  <2>5. NoticesNew
    BY <2>2 DEF NoticesNew
  <2>6. CopyTaken
    BY <1>2, <2>1, <2>2, <2>3 DEF CopyTaken
  <2>7. LogExact
    <3>1. IsEndOf(Only(log, "said"), said)
      BY <1>1, <2>1, <2>3, EndItself
    <3>2. Different(log)
      BY <1>1, <2>1 DEF Different
    <3> QED
      BY <1>1, <2>1, <3>1, <3>2, LogExactDef
  <2>8. NoticesLogged
    BY <1>2, <2>1, <2>2, <2>3 DEF NoticesLogged
  <2> QED
    BY <2>4, <2>5, <2>6, <2>7, <2>8 DEF NoticeInv
<1> QED
  BY <1>4, <1>5, <1>6, <1>7, <1>8 DEF MessagesInv

LEMMA StutterStep ==
  ASSUME MessagesInv, UNCHANGED vars
  PROVE  MessagesInv'
<1>1. /\ UNCHANGED <<web, shown, rooms, queues, pc, notices, logs, follows, inputs>>
      /\ UNCHANGED <<packed, bin, txt, unwritten>>
  BY DEF vars, files
<1>2. TypeOK /\ PageInv /\ RoomsNamed /\ FileInv /\ NoticeInv
  BY DEF MessagesInv
<1>3. UNCHANGED <<said, unwritten, bin, txt, packed, backup>>
  BY <1>1 DEF logs
<1>4. FileInv'
  BY <1>2, <1>3, FilesSame
<1>5. /\ inputs' \in 0..MaxInputs /\ inputs' = inputs
      /\ packed' \in Seq(Items) /\ bin' \in Seq(Items) /\ txt' \in Seq(Items)
      /\ unwritten' \in [{"bin", "txt"} -> SUBSET Nat]
  BY <1>1, <1>2 DEF TypeOK
<1>6. TypeOK' /\ PageInv' /\ RoomsNamed' /\ NoticeInv'
  BY <1>1, <1>2, <1>5, WritingStep
<1> QED
  BY <1>4, <1>6 DEF MessagesInv

LEMMA NextStep ==
  ASSUME MessagesInv, Next
  PROVE  MessagesInv'
<1>1. CASE FrontEnd
  <2>1. ASSUME NEW u \in Users, NEW r \in Rooms, OpenPage(u, r) PROVE MessagesInv'
    BY <2>1, OpenPageStep
  <2>2. ASSUME NEW u \in Users, SendMessage(u) \/ Leave(u) \/ SendNotice(u) PROVE MessagesInv'
    BY <2>2, SendMessageStep, LeaveStep, SendNoticeStep
  <2>3. ASSUME NEW p \in Pages, PageRequests(p) \/ PageTakesOver(p) PROVE MessagesInv'
    BY <2>3, PageRequestsStep, PageTakesOverStep
  <2>4. ASSUME NEW m \in telling, HandOver(m) PROVE MessagesInv'
    BY <2>4, HandOverStep
  <2> QED
    BY <1>1, <2>1, <2>2, <2>3, <2>4 DEF FrontEnd
<1>2. CASE ChatLoop
  <2>1. CASE CopyNotices \/ ClearNotices \/ ExtractEvents
    BY <2>1, CopyNoticesStep, ClearNoticesStep, ExtractEventsStep
  <2>2. CASE Handle
    BY <2>2, HandleJoinStep, HandlePartStep, HandleChroomStep, HandlePageStep, HandleSayStep
       DEF Handle
  <2>3. CASE FinishRound
    BY <2>3, FinishRoundStep
  <2> QED
    BY <1>2, <2>1, <2>2, <2>3 DEF ChatLoop
<1>3. CASE UsersHandler
  BY <1>3, WriteFilesStep, FailToWriteStep DEF UsersHandler
<1> QED
  BY <1>1, <1>2, <1>3 DEF Next

LEMMA MessagesInvariant == Spec => []MessagesInv
<1>1. Init => MessagesInv
  BY InitInv
<1>2. MessagesInv /\ [Next]_vars => MessagesInv'
  BY NextStep, StutterStep
<1> QED
  BY <1>1, <1>2, PTL DEF Spec

-----------------------------------------------------------------------------

(* The state has its type, for any number of users, rooms, pages and        *)
(* inputs, and any limits: when the chat thread begins a round, the log is  *)
(* not longer than the limit at which it is cut.                            *)
THEOREM MessagesTyped == Spec => []TypeOK
<1>1. MessagesInv => TypeOK
  BY DEF MessagesInv
<1> QED
  BY <1>1, MessagesInvariant, PTL

(* A page shows a last part of what was said in its user's room, with       *)
(* everything since its content: join, content, change of room and new page *)
(* in every order, with messages, announcements and notices between them.   *)
THEOREM NothingEverMissed == Spec => []NothingMissed
<1>1. MessagesInv => NothingMissed
  BY DEF MessagesInv, PageInv
<1> QED
  BY <1>1, MessagesInvariant, PTL

(* Whatever is said is in the log, until it is cut at its old end, and goes *)
(* once and in order to each file it could be written to; a notice handed   *)
(* over is on its way to the log, got there, or was handed over while the   *)
(* queue was cleared.                                                       *)
THEOREM MessagesAlwaysKept == Spec => []MessagesKept
<1>1. MessagesInv => MessagesKept
  BY DEF MessagesInv, NoticeInv, FileInv, MessagesKept
<1> QED
  BY <1>1, MessagesInvariant, PTL

================================================================================
