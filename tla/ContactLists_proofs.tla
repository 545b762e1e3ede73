-------------------------- MODULE ContactLists_proofs --------------------------
(***************************************************************************)
(* What holds of the lists of a room for every set of users, nicks and      *)
(* modes and every number of events.                                        *)
(***************************************************************************)
EXTENDS ContactLists, SequenceTheorems, TLAPS

Objects == [user : Users, where : Places, nick : Nicks, inv : BOOLEAN, hides : BOOLEAN]
Entries(n) == [nick : Nicks, object : (0..n) \ {0}]
Before(u) == Heap(u)[Object(u)]

(* What i shows of u. *)
Tells(i, u) == {p \in told[i] : p[1] = u}

(* What a client shows is what its list says, but for those of whom it was  *)
(* told by a wrong nick or list, and for itself when its connection has     *)
(* another object than its user.                                            *)
ToldPair(i, u) ==
  told[i] # None /\ <<i, u>> \notin unsure /\ (u = i => conn[i] = loaded[i]) =>
    Tells(i, u) = IF list[i][u] # None THEN {<<u, list[i][u].nick>>} ELSE {}

(* The list of a client should be right about u: it was made when the       *)
(* client joined, and u has not changed since anybody looked.               *)
Known(i, u) ==
  /\ told[i] # None \/ i \in Browsers
  /\ <<i, u>> \notin unsure /\ u \notin unheard /\ pending[u] = 0
  /\ list[i][u] # None => list[i][u].object = loaded[u]

(* Those whose list may be of another mode than their own. *)
Behind == owes \cup outdated

(* Then who is on it is in the room, with the nick it has; and when the     *)
(* mode of the list has not changed, those are on it who can be seen.       *)
EntryPair(i, u) ==
  Known(i, u) /\ list[i][u] # None => Present(u) /\ list[i][u].nick = objects[loaded[u]].nick

VisiblePair(i, u) ==
  Known(i, u) /\ i \notin Behind /\ conn[i] = loaded[i] =>
    (list[i][u] # None <=> Present(u) /\ CanSee(objects, loaded[i], loaded[u]))

PairInv(i, u) == ToldPair(i, u) /\ EntryPair(i, u) /\ VisiblePair(i, u)

(* An IRC client that gets nothing although its user is in the room, or     *)
(* comes into it with a replay that finds no connection, has no list.       *)
BackSoon(u) ==
  \E k \in 1..Len(replays) : replays[k].user = u /\ replays[k].event.room = "here"

NotListed ==
  \A u \in Users \ Browsers :
    u \notin listens /\ (Present(u) \/ (conn[u] = 0 /\ BackSoon(u))) => told[u] = None

(* The user of a connection that is in the room is in the room.             *)
ListenerHere ==
  \A i \in listens : conn[i] = loaded[i] => objects[loaded[i]].where = "here"

(* A connection was made with an object of its user.                        *)
ConnOwn == \A i \in Users : conn[i] # 0 => objects[conn[i]].user = i

ListsInv ==
  /\ TypeOK /\ ConnOwn /\ NotListed /\ ListenerHere
  /\ \A i \in listens, u \in Users : PairInv(i, u)

-----------------------------------------------------------------------------
(* The objects *)

(* The type invariant, part by part. *)
LEMMA Typed ==
  ASSUME TypeOK
  PROVE  /\ objects \in Seq(Objects) /\ Len(objects) \in Nat
         /\ loaded \in [Users -> 0..Len(objects)] /\ conn \in [Users -> 0..Len(objects)]
         /\ pending \in [Users -> 0..Len(objects)] /\ listens \subseteq Users
         /\ list \in [Users -> [Users -> {None} \cup Entries(Len(objects))]]
         /\ replays \in Seq([user : Users, event : Joins])
         /\ asks \subseteq Browsers /\ owes \subseteq Browsers
         /\ profile \in [Users -> BOOLEAN] /\ echoes \in [Users -> [Echoes -> Nat]]
         /\ told \in [Users -> {None} \cup SUBSET (Users \X Nicks)]
         /\ unsure \subseteq Users \X Users /\ unheard \subseteq Users /\ outdated \subseteq Users
         /\ inputs \in 0..MaxInputs
         /\ \A u \in listens : conn[u] # 0
         /\ \A u \in Users : loaded[u] # 0 => objects[loaded[u]].user = u
<1>1. objects \in Seq(Objects)
  BY DEF TypeOK, Objects
<1>2. Len(objects) \in Nat
  BY <1>1
<1> QED
  BY <1>1, <1>2 DEF TypeOK, Entries

(* The object of a user, who is loaded when he is not.                      *)
LEMMA HeapIs ==
  ASSUME ListsAssumption, TypeOK, NEW u \in Users
  PROVE  /\ Heap(u) \in Seq(Objects) /\ Object(u) \in 1..Len(Heap(u))
         /\ \A k \in 1..Len(objects) : Heap(u)[k] = objects[k]
         /\ Before(u) \in Objects /\ Before(u).user = u
         /\ loaded[u] # 0 => /\ Object(u) = loaded[u] /\ Len(Heap(u)) = Len(objects)
                             /\ Before(u) = objects[loaded[u]]
         /\ loaded[u] = 0 => /\ Object(u) = Len(objects) + 1
                             /\ Len(Heap(u)) = Len(objects) + 1
                             /\ Before(u).where = "out"
<1>t. /\ objects \in Seq(Objects) /\ loaded \in [Users -> 0..Len(objects)]
      /\ profile \in [Users -> BOOLEAN]
      /\ loaded[u] # 0 => objects[loaded[u]].user = u
      /\ Len(objects) \in Nat
  BY Typed
<1>1. CASE loaded[u] # 0
  <2>1. Heap(u) = objects /\ Object(u) = loaded[u] /\ loaded[u] \in 1..Len(objects)
    BY <1>1, <1>t DEF Heap, Object
  <2>2. objects[loaded[u]] \in Objects
    BY <1>t, <2>1
  <2>3. Before(u) = objects[loaded[u]]
    BY <2>1 DEF Before
  <2>4. Heap(u) \in Seq(Objects) /\ Object(u) \in 1..Len(Heap(u))
    BY <1>t, <2>1
  <2>5. \A k \in 1..Len(objects) : Heap(u)[k] = objects[k]
    BY <2>1, Zenon
  <2>6. Len(Heap(u)) = Len(objects)
    BY <2>1, Zenon
  <2>7. Before(u) \in Objects /\ Before(u).user = u
    BY <1>1, <1>t, <2>2, <2>3
  <2> QED
    BY <1>1, <2>1, <2>3, <2>4, <2>5, <2>6, <2>7, Zenon
<1>2. CASE loaded[u] = 0
  <2> DEFINE new == [user |-> u, where |-> "out", inv |-> FALSE,
                     nick |-> CHOOSE k \in Nicks : TRUE, hides |-> profile[u]]
  <2>1. (CHOOSE k \in Nicks : TRUE) \in Nicks
    BY DEF ListsAssumption
  <2>2. new \in Objects
    <3>1. profile[u] \in BOOLEAN
      <4>1. profile \in [Users -> BOOLEAN]
        BY <1>t
      <4> QED
        BY <4>1, Zenon
    <3>2. \A k \in Nicks, b \in BOOLEAN :
            [user |-> u, where |-> "out", inv |-> FALSE, nick |-> k, hides |-> b] \in Objects
      BY DEF Objects, Places
    <3> QED
      BY <2>1, <3>1, <3>2, Zenon
  <2>3. Heap(u) = Append(objects, new) /\ Object(u) = Len(objects) + 1
    BY <1>2 DEF Heap, Object
  <2>4. /\ Heap(u) \in Seq(Objects) /\ Len(Heap(u)) = Len(objects) + 1
        /\ Heap(u)[Len(objects) + 1] = new
        /\ \A k \in 1..Len(objects) : Heap(u)[k] = objects[k]
    <3> HIDE DEF new
    <3> QED
      BY <1>t, <2>2, <2>3, AppendProperties
  <2>5. new.user = u /\ new.where = "out"
    OBVIOUS
  <2>6. Before(u) = new
    BY <2>3, <2>4 DEF Before
  <2> HIDE DEF new
  <2> QED
    BY <1>2, <1>t, <2>2, <2>3, <2>4, <2>5, <2>6
<1> QED
  BY <1>1, <1>2

(* What changes when a user's object gets other fields.                     *)
LEMMA SetUserIs ==
  ASSUME ListsAssumption, TypeOK, NEW u \in Users, NEW new \in Objects, new.user = u,
         SetUser(u, new)
  PROVE  /\ objects' \in Seq(Objects) /\ Len(objects') \in Nat
         /\ Len(objects) <= Len(objects')
         /\ loaded' \in [Users -> 0..Len(objects')]
         /\ loaded'[u] = Object(u) /\ loaded'[u] \in 1..Len(objects')
         /\ objects'[loaded'[u]] = new
         /\ \A z \in Users \ {u} : /\ loaded'[z] = loaded[z]
                                   /\ loaded[z] # 0 => objects'[loaded[z]] = objects[loaded[z]]
         /\ \A z \in Users : loaded'[z] # 0 => objects'[loaded'[z]].user = z
         /\ \A k \in 1..Len(objects) : k # loaded[u] => objects'[k] = objects[k]
<1>t. /\ objects \in Seq(Objects) /\ loaded \in [Users -> 0..Len(objects)]
      /\ \A z \in Users : loaded[z] # 0 => objects[loaded[z]].user = z
      /\ Len(objects) \in Nat
  BY Typed
<1>1. /\ Heap(u) \in Seq(Objects) /\ Object(u) \in 1..Len(Heap(u)) /\ Len(Heap(u)) \in Nat
      /\ Len(objects) <= Len(Heap(u)) /\ \A k \in 1..Len(objects) : Heap(u)[k] = objects[k]
      /\ loaded[u] # 0 => Object(u) = loaded[u]
      /\ loaded[u] = 0 => Object(u) = Len(objects) + 1
  <2>1. /\ Heap(u) \in Seq(Objects) /\ Object(u) \in 1..Len(Heap(u))
        /\ \A k \in 1..Len(objects) : Heap(u)[k] = objects[k]
        /\ loaded[u] # 0 => Object(u) = loaded[u] /\ Len(Heap(u)) = Len(objects)
        /\ loaded[u] = 0 => Object(u) = Len(objects) + 1 /\ Len(Heap(u)) = Len(objects) + 1
    BY HeapIs
  <2> QED
    BY <1>t, <2>1
<1>2. objects' = [Heap(u) EXCEPT ![Object(u)] = new] /\ loaded' = [loaded EXCEPT ![u] = Object(u)]
  BY DEF SetUser
<1>3. /\ objects' \in Seq(Objects) /\ Len(objects') = Len(Heap(u))
      /\ objects'[Object(u)] = new
      /\ \A k \in 1..Len(Heap(u)) : k # Object(u) => objects'[k] = Heap(u)[k]
  BY <1>1, <1>2, ExceptSeq
<1>4. /\ loaded'[u] = Object(u) /\ \A z \in Users \ {u} : loaded'[z] = loaded[z]
      /\ loaded' \in [Users -> 0..Len(objects')]
  BY <1>t, <1>1, <1>2, <1>3
<1>5. \A k \in 1..Len(objects) : k # loaded[u] => objects'[k] = objects[k]
  BY <1>t, <1>1, <1>3
<1>6. \A z \in Users \ {u} : loaded[z] # 0 => loaded[z] # loaded[u] /\ loaded[z] \in 1..Len(objects)
  BY <1>t
<1>7. \A z \in Users \ {u} : loaded[z] # 0 => objects'[loaded[z]] = objects[loaded[z]]
  BY <1>5, <1>6
<1>8. \A z \in Users : loaded'[z] # 0 => objects'[loaded'[z]].user = z
  <2>1. objects'[loaded'[u]].user = u
    BY <1>3, <1>4
  <2>2. \A z \in Users \ {u} : loaded'[z] # 0 => objects'[loaded'[z]].user = z
    BY <1>t, <1>4, <1>7
  <2> QED
    BY <2>1, <2>2
<1> QED
  BY <1>1, <1>3, <1>4, <1>5, <1>7, <1>8

-----------------------------------------------------------------------------
(* Types *)

(* The type invariant of the next state, put together.                      *)
LEMMA TypedNext ==
  ASSUME objects' \in Seq(Objects), 
         loaded' \in [Users -> 0..Len(objects')], conn' \in [Users -> 0..Len(objects')],
         pending' \in [Users -> 0..Len(objects')], listens' \subseteq Users,
         list' \in [Users -> [Users -> {None} \cup Entries(Len(objects'))]],
         replays' \in Seq([user : Users, event : Joins]),
         asks' \subseteq Browsers, owes' \subseteq Browsers,
         profile' \in [Users -> BOOLEAN], echoes' \in [Users -> [Echoes -> Nat]],
         told' \in [Users -> {None} \cup SUBSET (Users \X Nicks)],
         unsure' \subseteq Users \X Users, unheard' \subseteq Users, outdated' \subseteq Users,
         inputs' \in 0..MaxInputs,
         \A u \in listens' : conn'[u] # 0,
         \A u \in Users : loaded'[u] # 0 => objects'[loaded'[u]].user = u
  PROVE  TypeOK'
<1>1. objects' \in Seq([user : Users, where : Places, nick : Nicks, inv : BOOLEAN,
                        hides : BOOLEAN])
  BY DEF Objects
<1> QED
  BY <1>1 DEF TypeOK, Entries

(* What referred to an object still does when there are more.               *)
LEMMA Wider ==
  ASSUME TypeOK, Len(objects') \in Nat, Len(objects) <= Len(objects')
  PROVE  /\ conn \in [Users -> 0..Len(objects')] /\ pending \in [Users -> 0..Len(objects')]
         /\ list \in [Users -> [Users -> {None} \cup Entries(Len(objects'))]]
<1>t. /\ conn \in [Users -> 0..Len(objects)] /\ pending \in [Users -> 0..Len(objects)]
      /\ list \in [Users -> [Users -> {None} \cup Entries(Len(objects))]]
      /\ Len(objects) \in Nat
  BY Typed
<1>1. 0..Len(objects) \subseteq 0..Len(objects')
  BY <1>t
<1>2. Entries(Len(objects)) \subseteq Entries(Len(objects'))
  BY <1>1 DEF Entries
<1>3. [Users -> {None} \cup Entries(Len(objects))] \subseteq
      [Users -> {None} \cup Entries(Len(objects'))]
  BY <1>2
<1> QED
  BY <1>t, <1>1, <1>3

(* A note, and the connection that is made when there is none.              *)
LEMMA NoteTyped ==
  ASSUME TypeOK, NEW u \in Users, Len(objects') \in Nat, Len(objects) <= Len(objects'),
         Object(u) \in 1..Len(objects')
  PROVE  /\ Note(u, Object(u)) \/ UNCHANGED pending => pending' \in [Users -> 0..Len(objects')]
         /\ conn' = [conn EXCEPT ![u] = IF @ = 0 THEN Object(u) ELSE @] =>
              /\ conn' \in [Users -> 0..Len(objects')]
              /\ conn'[u] # 0 /\ \A i \in Users \ {u} : conn'[i] = conn[i]
              /\ conn[u] # 0 => conn'[u] = conn[u]
              /\ conn[u] = 0 => conn'[u] = Object(u)
<1>1. conn \in [Users -> 0..Len(objects')] /\ pending \in [Users -> 0..Len(objects')]
  BY Wider
<1>2. Note(u, Object(u)) \/ UNCHANGED pending => pending' \in [Users -> 0..Len(objects')]
  BY <1>1 DEF Note
<1>3. ASSUME conn' = [conn EXCEPT ![u] = IF @ = 0 THEN Object(u) ELSE @]
      PROVE  /\ conn' \in [Users -> 0..Len(objects')]
             /\ conn'[u] # 0 /\ \A i \in Users \ {u} : conn'[i] = conn[i]
             /\ conn[u] # 0 => conn'[u] = conn[u]
             /\ conn[u] = 0 => conn'[u] = Object(u)
  BY <1>1, <1>3
<1> QED
  BY <1>2, <1>3

LEMMA TypedThen ==
  ASSUME TypeOK'
  PROVE  /\ objects' \in Seq(Objects) /\ Len(objects') \in Nat
         /\ loaded' \in [Users -> 0..Len(objects')]
         /\ list' \in [Users -> [Users -> {None} \cup Entries(Len(objects'))]]
         /\ told' \in [Users -> {None} \cup SUBSET (Users \X Nicks)]
         /\ \A u \in listens' : conn'[u] # 0
         /\ \A u \in Users : loaded'[u] # 0 => objects'[loaded'[u]].user = u
<1>1. objects' \in Seq(Objects)
  BY DEF TypeOK, Objects
<1>2. Len(objects') \in Nat
  BY <1>1
<1> QED
  BY <1>1, <1>2 DEF TypeOK, Entries

(* A whole list and the names of it.                                        *)
LEMMA WholeListTyped ==
  ASSUME NEW h \in Seq(Objects), NEW ld \in [Users -> 0..Len(h)], NEW i \in Users,
         NEW v \in 1..Len(h), NEW l
  PROVE  /\ WholeList(h, ld, i, v) \in [Users -> {None} \cup Entries(Len(h))]
         /\ Names(h, ld, l) \in SUBSET (Users \X Nicks)
<1>1. \A k \in 1..Len(h) : h[k].nick \in Nicks /\ Entry(h, k) \in Entries(Len(h))
  <2> TAKE k \in 1..Len(h)
  <2>1. h[k] \in Objects
    OBVIOUS
  <2>2. h[k].nick \in Nicks
    BY <2>1 DEF Objects
  <2>3. k \in (0..Len(h)) \ {0}
    OBVIOUS
  <2> QED
    BY <2>2, <2>3 DEF Entry, Entries
<1>2. \A z \in Users : ld[z] # 0 => ld[z] \in 1..Len(h)
  OBVIOUS
<1>3. WholeList(h, ld, i, v) \in [Users -> {None} \cup Entries(Len(h))]
  BY <1>1, <1>2 DEF WholeList
<1>4. Names(h, ld, l) \in SUBSET (Users \X Nicks)
  BY <1>1, <1>2 DEF Names
<1> QED
  BY <1>3, <1>4

(* What a join makes of the user.                                           *)
Moved(u, e) ==
  IF e.room = "here" \/ (u \notin Browsers /\ Before(u).where = "here") THEN "here" ELSE "away"

LEMMA FixListsIs ==
  ASSUME ListsAssumption, TypeOK, NEW u \in Users, NEW e \in Joins, NEW c,
         FixLists(u, e, c)
  PROVE  \E new \in Objects :
           /\ SetUser(u, new) /\ new.user = u /\ new.hides = Before(u).hides
           /\ new.where = Moved(u, e)
           /\ IF "here" \in {Before(u).where, new.where} THEN Note(u, Object(u))
              ELSE UNCHANGED pending
           /\ listens' = IF new.where # "here" THEN listens \ {u}
                         ELSE IF c THEN listens \cup {u} ELSE listens
<1> DEFINE new == [Before(u) EXCEPT !.where = Moved(u, e), !.nick = e.nick, !.inv = e.inv]
<1>1. Before(u) \in Objects /\ Before(u).user = u
  BY HeapIs
<1>2. /\ new \in Objects /\ new.user = u /\ new.hides = Before(u).hides
      /\ new.where = Moved(u, e)
  BY <1>1 DEF Objects, Joins, Places, Moved
<1>3. SetUser(u, new)
  BY DEF FixLists, Before, Moved
<1>4. IF "here" \in {Before(u).where, Moved(u, e)} THEN Note(u, Object(u)) ELSE UNCHANGED pending
  BY DEF FixLists, Before, Moved
<1>5. listens' = IF Moved(u, e) # "here" THEN listens \ {u}
                 ELSE IF c THEN listens \cup {u} ELSE listens
  BY DEF FixLists, Before, Moved
<1> HIDE DEF new
<1> QED
  BY <1>2, <1>3, <1>4, <1>5

(* Every action keeps the types.                                            *)
(* What the updater is given.                                               *)
LEMMA SentTyped ==
  ASSUME TypeOK, NEW u \in Users, NEW es
  PROVE  Sent(u, es) \in [Users -> [Echoes -> Nat]]
<1> DEFINE more == [e \in Echoes |-> IF e \in es THEN echoes[u][e] + 1 ELSE echoes[u][e]]
<1>1. echoes \in [Users -> [Echoes -> Nat]]
  BY Typed
<1>2. \A e \in Echoes : echoes[u][e] \in Nat
  BY <1>1
<1>3. more \in [Echoes -> Nat]
  BY <1>2
<1>4. Sent(u, es) = [echoes EXCEPT ![u] = more]
  BY DEF Sent
<1> HIDE DEF more
<1> QED
  BY <1>1, <1>3, <1>4

LEMMA JoinTyped ==
  ASSUME ListsAssumption, TypeOK, NEW u \in Users, NEW e \in Joins, HandleJoin(u, e)
  PROVE  TypeOK'
<1> DEFINE joined == [conn EXCEPT ![u] = IF @ = 0 THEN Object(u) ELSE @]
<1>1. PICK new \in Objects :
        /\ SetUser(u, new) /\ new.user = u
        /\ IF "here" \in {Before(u).where, new.where} THEN Note(u, Object(u))
           ELSE UNCHANGED pending
        /\ listens' = IF new.where # "here" THEN listens \ {u}
                      ELSE IF TRUE THEN listens \cup {u} ELSE listens
  <2>1. FixLists(u, e, TRUE)
    BY DEF HandleJoin
  <2> QED
    BY <2>1, FixListsIs, ZenonT(30)
<1>2. /\ objects' \in Seq(Objects) /\ Len(objects') \in Nat /\ Len(objects) <= Len(objects')
      /\ loaded' \in [Users -> 0..Len(objects')] /\ Object(u) \in 1..Len(objects')
      /\ \A z \in Users : loaded'[z] # 0 => objects'[loaded'[z]].user = z
  BY <1>1, SetUserIs
<1>3. conn' = joined
  BY DEF HandleJoin
<1>4. /\ conn' \in [Users -> 0..Len(objects')] /\ conn'[u] # 0
      /\ \A i \in Users \ {u} : conn'[i] = conn[i]
      /\ pending' \in [Users -> 0..Len(objects')]
  BY <1>1, <1>2, <1>3, NoteTyped
<1>5. listens' \subseteq Users /\ \A i \in listens' : conn'[i] # 0
  BY <1>1, <1>4, Typed
<1>6. list' \in [Users -> [Users -> {None} \cup Entries(Len(objects'))]]
  <2>1. list \in [Users -> [Users -> {None} \cup Entries(Len(objects'))]]
    BY <1>2, Wider
  <2>2. WholeList(objects', loaded', u, conn'[u]) \in [Users -> {None} \cup Entries(Len(objects'))]
    <3>1. conn'[u] \in 1..Len(objects')
      BY <1>2, <1>4
    <3> QED
      BY <1>2, <3>1, WholeListTyped
  <2>3. \/ list' = list
        \/ list' = [list EXCEPT ![u] = WholeList(objects', loaded', u, conn'[u])]
    BY DEF HandleJoin
  <2> QED
    BY <2>1, <2>2, <2>3
<1>7. told' \in [Users -> {None} \cup SUBSET (Users \X Nicks)]
  <2>1. told \in [Users -> {None} \cup SUBSET (Users \X Nicks)]
    BY Typed
  <2>2. Names(objects', loaded', list'[u]) \in SUBSET (Users \X Nicks)
    <3>1. Object(u) \in 1..Len(objects')
      BY <1>2
    <3> QED
      BY <1>2, <3>1, WholeListTyped
  <2>3. \/ told' = told
        \/ told' = [told EXCEPT ![u] = None]
        \/ told' = [told EXCEPT ![u] = Names(objects', loaded', list'[u])]
    BY DEF HandleJoin
  <2> QED
    BY <2>1, <2>2, <2>3
<1>8. asks' \subseteq Browsers
  BY Typed DEF HandleJoin
<1>9. echoes' \in [Users -> [Echoes -> Nat]]
  <2>1. echoes \in [Users -> [Echoes -> Nat]]
    BY Typed
  <2>2. \A es : Sent(u, es) \in [Users -> [Echoes -> Nat]]
    BY SentTyped
  <2>3. echoes' = echoes \/ \E es : echoes' = Sent(u, es)
    BY Zenon DEF HandleJoin
  <2> QED
    BY <2>1, <2>2, <2>3
<1>10. unsure' \subseteq Users \X Users
  BY Typed DEF HandleJoin, Forget
<1>11. replays' \in Seq([user : Users, event : Joins])
  <2>1. [user |-> u, event |-> e] \in [user : Users, event : Joins]
    OBVIOUS
  <2>2. replays' = Append(replays, [user |-> u, event |-> e])
    BY DEF HandleJoin
  <2> QED
    BY <2>1, <2>2, Typed, AppendProperties
<1>12. inputs' \in 0..MaxInputs
  BY Typed DEF HandleJoin, Input, ListsAssumption
<1>13. UNCHANGED <<owes, profile, unheard>>
  BY DEF HandleJoin
<1>14. /\ owes' \subseteq Browsers /\ profile' \in [Users -> BOOLEAN]
       /\ unheard' \subseteq Users /\ outdated' \subseteq Users
  BY <1>13, Typed DEF HandleJoin
<1> QED
  BY <1>2, <1>4, <1>5, <1>6, <1>7, <1>8, <1>9, <1>10, <1>11, <1>12, <1>14, TypedNext

LEMMA ReplayTyped ==
  ASSUME ListsAssumption, TypeOK, HandleReplay
  PROVE  TypeOK'
<1> DEFINE u == Head(replays).user
           e == Head(replays).event
<1>0. u \in Users /\ e \in Joins /\ replays' \in Seq([user : Users, event : Joins])
  <2>1. replays \in Seq([user : Users, event : Joins]) /\ replays # <<>>
    BY Typed DEF HandleReplay
  <2>2. Head(replays) \in [user : Users, event : Joins]
    BY <2>1, HeadTailProperties
  <2>3. Tail(replays) \in Seq([user : Users, event : Joins])
    BY <2>1, HeadTailProperties
  <2> QED
    BY <2>2, <2>3 DEF HandleReplay
<1>1. PICK new \in Objects :
        /\ SetUser(u, new) /\ new.user = u
        /\ IF "here" \in {Before(u).where, new.where} THEN Note(u, Object(u))
           ELSE UNCHANGED pending
        /\ listens' = IF new.where # "here" THEN listens \ {u}
                      ELSE IF conn[u] # 0 THEN listens \cup {u} ELSE listens
  <2> DEFINE c == conn[u] # 0
  <2>1. FixLists(u, e, c)
    BY DEF HandleReplay
  <2>2. c <=> conn[u] # 0
    OBVIOUS
  <2> HIDE DEF u, e, c
  <2>3. \E new \in Objects :
           /\ SetUser(u, new) /\ new.user = u /\ new.hides = Before(u).hides
           /\ new.where = Moved(u, e)
           /\ IF "here" \in {Before(u).where, new.where} THEN Note(u, Object(u))
              ELSE UNCHANGED pending
           /\ listens' = IF new.where # "here" THEN listens \ {u}
                         ELSE IF c THEN listens \cup {u} ELSE listens
    BY <1>0, <2>1, FixListsIs, Zenon
  <2> QED
    BY <2>2, <2>3
<1> HIDE DEF u, e
<1>2. /\ objects' \in Seq(Objects) /\ Len(objects') \in Nat /\ Len(objects) <= Len(objects')
      /\ loaded' \in [Users -> 0..Len(objects')] /\ Object(u) \in 1..Len(objects')
      /\ \A z \in Users : loaded'[z] # 0 => objects'[loaded'[z]].user = z
  BY <1>0, <1>1, SetUserIs
<1>3. UNCHANGED <<conn, list, asks, owes, echoes, profile, told, unheard, outdated, inputs>>
  BY DEF HandleReplay
<1>4. pending' \in [Users -> 0..Len(objects')]
  BY <1>0, <1>1, <1>2, NoteTyped
<1>5. /\ conn' \in [Users -> 0..Len(objects')]
      /\ list' \in [Users -> [Users -> {None} \cup Entries(Len(objects'))]]
  BY <1>2, <1>3, Wider
<1>6. listens' \subseteq Users /\ \A i \in listens' : conn'[i] # 0
  BY <1>0, <1>1, <1>3, Typed
<1>7. unsure' \subseteq Users \X Users
  BY <1>6, Typed, SMTT(30) DEF HandleReplay
<1>8. /\ asks' \subseteq Browsers /\ owes' \subseteq Browsers
      /\ profile' \in [Users -> BOOLEAN] /\ echoes' \in [Users -> [Echoes -> Nat]]
      /\ told' \in [Users -> {None} \cup SUBSET (Users \X Nicks)]
      /\ unheard' \subseteq Users /\ outdated' \subseteq Users /\ inputs' \in 0..MaxInputs
  BY <1>3, Typed
<1> QED
  BY <1>0, <1>2, <1>4, <1>5, <1>6, <1>7, <1>8, TypedNext

(* The objects that a list refers to.                                       *)
LEMMA ListedIs ==
  ASSUME TypeOK, NEW i \in Users, NEW u \in Users, list[i][u] # None
  PROVE  /\ list[i][u].object \in 1..Len(objects) /\ list[i][u].nick \in Nicks
         /\ objects[list[i][u].object].nick \in Nicks
<1>1. list \in [Users -> [Users -> {None} \cup Entries(Len(objects))]] /\ Len(objects) \in Nat
      /\ objects \in Seq(Objects)
  BY Typed
<1>2. list[i][u] \in Entries(Len(objects))
  BY <1>1
<1>3. list[i][u].object \in 1..Len(objects) /\ list[i][u].nick \in Nicks
  BY <1>1, <1>2 DEF Entries
<1>4. objects[list[i][u].object] \in Objects
  BY <1>1, <1>3
<1> QED
  BY <1>3, <1>4 DEF Objects

(* A user's object gets other fields, and nothing else of it changes.       *)
LEMMA PageTyped ==
  ASSUME ListsAssumption, TypeOK, NEW u \in Users, HandlePage(u)
  PROVE  TypeOK'
<1>1. SetUser(u, Before(u)) /\ Before(u) \in Objects /\ Before(u).user = u
  BY HeapIs DEF HandlePage, Before
<1>2. /\ objects' \in Seq(Objects) /\ Len(objects') \in Nat /\ Len(objects) <= Len(objects')
      /\ loaded' \in [Users -> 0..Len(objects')] /\ Object(u) \in 1..Len(objects')
      /\ \A z \in Users : loaded'[z] # 0 => objects'[loaded'[z]].user = z
  BY <1>1, SetUserIs
<1>3. UNCHANGED <<listens, list, pending, replays, owes, echoes, profile, unheard, outdated, inputs>>
  BY DEF HandlePage
<1>4. conn' = [conn EXCEPT ![u] = IF @ = 0 THEN Object(u) ELSE @]
  BY DEF HandlePage
<1>5. /\ conn' \in [Users -> 0..Len(objects')] /\ conn'[u] # 0
      /\ \A i \in Users \ {u} : conn'[i] = conn[i]
  BY <1>2, <1>4, NoteTyped
<1>6. /\ list' \in [Users -> [Users -> {None} \cup Entries(Len(objects'))]]
      /\ pending' \in [Users -> 0..Len(objects')]
  BY <1>2, <1>3, Wider
<1>7. listens' \subseteq Users /\ \A i \in listens' : conn'[i] # 0
  BY <1>3, <1>5, Typed
<1>8. told' \in [Users -> {None} \cup SUBSET (Users \X Nicks)]
  <2> DEFINE page == {<<z, objects[list[u][z].object].nick>> :
                       z \in {y \in Users : list[u][y] # None}}
  <2>1. page \in SUBSET (Users \X Nicks)
    BY ListedIs
  <2>2. told' = told \/ told' = [told EXCEPT ![u] = page]
    BY DEF HandlePage
  <2>3. told \in [Users -> {None} \cup SUBSET (Users \X Nicks)]
    BY Typed
  <2> QED
    BY <2>1, <2>2, <2>3
<1>9. unsure' \subseteq Users \X Users
  BY Typed DEF HandlePage
<1>10. asks' \subseteq Browsers
  BY Typed DEF HandlePage
<1>11. /\ owes' \subseteq Browsers /\ replays' \in Seq([user : Users, event : Joins])
       /\ profile' \in [Users -> BOOLEAN] /\ echoes' \in [Users -> [Echoes -> Nat]]
       /\ unheard' \subseteq Users /\ outdated' \subseteq Users /\ inputs' \in 0..MaxInputs
  BY <1>3, Typed
<1> QED
  BY <1>2, <1>5, <1>6, <1>7, <1>8, <1>9, <1>10, <1>11, TypedNext

LEMMA PartTyped ==
  ASSUME ListsAssumption, TypeOK, NEW u \in Users, NEW w \in {"away", "out"}, HandlePart(u, w)
  PROVE  TypeOK'
<1> DEFINE new == [Before(u) EXCEPT !.where = w]
<1>1. SetUser(u, new) /\ new \in Objects /\ new.user = u
  <2>1. SetUser(u, new)
    BY DEF HandlePart, Before
  <2>2. Before(u) \in Objects /\ Before(u).user = u
    BY HeapIs
  <2> QED
    BY <2>1, <2>2 DEF Objects, Places
<1> HIDE DEF new
<1>2. /\ objects' \in Seq(Objects) /\ Len(objects') \in Nat /\ Len(objects) <= Len(objects')
      /\ loaded' \in [Users -> 0..Len(objects')] /\ Object(u) \in 1..Len(objects')
      /\ \A z \in Users : loaded'[z] # 0 => objects'[loaded'[z]].user = z
  BY <1>1, SetUserIs
<1>3. UNCHANGED <<conn, list, replays, asks, owes, echoes, profile, unsure, unheard, outdated>>
  BY DEF HandlePart, coming, history
<1>4. pending' \in [Users -> 0..Len(objects')]
  <2>1. Note(u, Object(u)) \/ UNCHANGED pending
    BY DEF HandlePart
  <2> QED
    BY <1>2, <2>1, NoteTyped
<1>5. /\ conn' \in [Users -> 0..Len(objects')]
      /\ list' \in [Users -> [Users -> {None} \cup Entries(Len(objects'))]]
  BY <1>2, <1>3, Wider
<1>6. listens' \subseteq Users /\ \A i \in listens' : conn'[i] # 0
  BY <1>3, Typed DEF HandlePart
<1>7. told' \in [Users -> {None} \cup SUBSET (Users \X Nicks)]
  BY Typed DEF HandlePart
<1>8. inputs' \in 0..MaxInputs
  BY Typed DEF HandlePart, Input, ListsAssumption
<1>9. /\ replays' \in Seq([user : Users, event : Joins])
      /\ asks' \subseteq Browsers /\ owes' \subseteq Browsers
      /\ profile' \in [Users -> BOOLEAN] /\ echoes' \in [Users -> [Echoes -> Nat]]
      /\ unsure' \subseteq Users \X Users /\ unheard' \subseteq Users /\ outdated' \subseteq Users
  BY <1>3, Typed
<1> QED
  BY <1>2, <1>4, <1>5, <1>6, <1>7, <1>8, <1>9, TypedNext

LEMMA ChangeTyped ==
  ASSUME ListsAssumption, TypeOK, NEW u \in Users, NEW new \in Objects, new.user = u,
         Change(u, new), echoes' \in [Users -> [Echoes -> Nat]]
  PROVE  TypeOK'
<1>1. PICK new2 \in Objects : SetUser(u, new2) /\ new2.user = u
  <2>1. Before(u) \in Objects /\ Before(u).user = u
    BY HeapIs
  <2>2. SetUser(u, IF Before(u).where = "out" THEN Before(u) ELSE new)
    BY DEF Change, Before
  <2> QED
    BY <2>1, <2>2
<1>2. /\ objects' \in Seq(Objects) /\ Len(objects') \in Nat /\ Len(objects) <= Len(objects')
      /\ loaded' \in [Users -> 0..Len(objects')] /\ Object(u) \in 1..Len(objects')
      /\ \A z \in Users : loaded'[z] # 0 => objects'[loaded'[z]].user = z
  BY <1>1, SetUserIs
<1>3. UNCHANGED <<conn, listens, list, replays, asks, owes, profile, told, unsure, unheard, outdated>>
  BY DEF Change, clients, history
<1>4. pending' \in [Users -> 0..Len(objects')]
  <2>1. Note(u, Object(u)) \/ UNCHANGED pending
    BY DEF Change
  <2> QED
    BY <1>2, <2>1, NoteTyped
<1>5. /\ conn' \in [Users -> 0..Len(objects')]
      /\ list' \in [Users -> [Users -> {None} \cup Entries(Len(objects'))]]
  BY <1>2, <1>3, Wider
<1>6. inputs' \in 0..MaxInputs
  BY Typed DEF Change, Input, ListsAssumption
<1>7. /\ listens' \subseteq Users /\ \A i \in listens' : conn'[i] # 0
      /\ replays' \in Seq([user : Users, event : Joins])
      /\ asks' \subseteq Browsers /\ owes' \subseteq Browsers /\ profile' \in [Users -> BOOLEAN]
      /\ told' \in [Users -> {None} \cup SUBSET (Users \X Nicks)]
      /\ unsure' \subseteq Users \X Users /\ unheard' \subseteq Users /\ outdated' \subseteq Users
  BY <1>3, Typed
<1> QED
  BY <1>2, <1>4, <1>5, <1>6, <1>7, TypedNext

LEMMA NickTyped ==
  ASSUME ListsAssumption, TypeOK, NEW u \in Users, NEW k \in Nicks, HandleNick(u, k)
  PROVE  TypeOK'
<1> DEFINE new == [Before(u) EXCEPT !.nick = k]
<1>1. Before(u) \in Objects /\ Before(u).user = u
  BY HeapIs
<1>2. new \in Objects /\ new.user = u
  BY <1>1 DEF Objects
<1>3. Change(u, new)
  BY DEF HandleNick, Before
<1>4. echoes' \in [Users -> [Echoes -> Nat]]
  BY SentTyped, Zenon DEF HandleNick
<1> HIDE DEF new
<1> QED
  BY <1>2, <1>3, <1>4, ChangeTyped

LEMMA StatusTyped ==
  ASSUME ListsAssumption, TypeOK, NEW u \in Users, NEW inv \in BOOLEAN, HandleStatus(u, inv)
  PROVE  TypeOK'
<1> DEFINE new == [Before(u) EXCEPT !.inv = inv]
<1>1. Before(u) \in Objects /\ Before(u).user = u
  BY HeapIs
<1>2. new \in Objects /\ new.user = u
  BY <1>1 DEF Objects
<1>3. Change(u, new)
  BY DEF HandleStatus, Before
<1>4. echoes' \in [Users -> [Echoes -> Nat]]
  BY SentTyped, Zenon DEF HandleStatus
<1> HIDE DEF new
<1> QED
  BY <1>2, <1>3, <1>4, ChangeTyped

LEMMA EchoCounted ==
  ASSUME TypeOK, NEW u \in Users, NEW e \in Echoes, Echo(u, e)
  PROVE  echoes' \in [Users -> [Echoes -> Nat]]
<1>1. echoes \in [Users -> [Echoes -> Nat]]
  BY Typed
<1>2. echoes[u][e] \in Nat /\ echoes[u][e] > 0
  BY <1>1 DEF Echo
<1>3. [echoes[u] EXCEPT ![e] = echoes[u][e] - 1] \in [Echoes -> Nat]
  BY <1>1, <1>2
<1>4. echoes' = [echoes EXCEPT ![u] = [echoes[u] EXCEPT ![e] = echoes[u][e] - 1]]
  BY DEF Echo
<1> QED
  BY <1>1, <1>3, <1>4

LEMMA SetAgainTyped ==
  ASSUME ListsAssumption, TypeOK, NEW u \in Users, NEW new, SetAgain(u, new),
         loaded[u] # 0 => new \in Objects /\ new.user = u,
         echoes' \in [Users -> [Echoes -> Nat]]
  PROVE  TypeOK'
<1>t. /\ objects \in Seq(Objects) /\ loaded \in [Users -> 0..Len(objects)]
      /\ unheard \subseteq Users /\ outdated \subseteq Users
      /\ \A z \in Users : loaded[z] # 0 => objects[loaded[z]].user = z
  BY Typed
<1>0. UNCHANGED <<loaded, conn, listens, list, pending, replays, asks, owes, profile, told,
                  unsure, inputs>>
  BY DEF SetAgain, clients
<1>3. unheard' \subseteq Users /\ outdated' \subseteq Users
  BY <1>t DEF SetAgain
<1>4. /\ objects' \in Seq(Objects) /\ Len(objects') = Len(objects)
      /\ \A z \in Users : loaded[z] # 0 => objects'[loaded[z]].user = z
  <2>1. CASE loaded[u] = 0
    BY <1>t, <2>1 DEF SetAgain
  <2>2. CASE loaded[u] # 0
    <3>1. objects' = [objects EXCEPT ![loaded[u]] = new]
      BY <2>2 DEF SetAgain
    <3>2. loaded[u] \in 1..Len(objects)
      BY <1>t, <2>2
    <3>3. new \in Objects /\ new.user = u
      BY <2>2
    <3>4. /\ objects' \in Seq(Objects) /\ Len(objects') = Len(objects)
          /\ objects'[loaded[u]] = new
          /\ \A k \in 1..Len(objects) : k # loaded[u] => objects'[k] = objects[k]
      BY <1>t, <3>1, <3>2, <3>3, ExceptSeq
    <3>5. ASSUME NEW z \in Users, loaded[z] # 0 PROVE objects'[loaded[z]].user = z
      <4>1. loaded[z] \in 1..Len(objects) /\ objects[loaded[z]].user = z
        BY <1>t, <3>5
      <4>2. CASE loaded[z] = loaded[u]
        <5>1. z = u
          BY <1>t, <2>2, <4>1, <4>2
        <5> QED
          BY <3>3, <3>4, <5>1
      <4>3. CASE loaded[z] # loaded[u]
        BY <3>4, <4>1, <4>3
      <4> QED
        BY <4>2, <4>3
    <3> QED
      BY <3>4, <3>5
  <2> QED
    BY <2>1, <2>2
<1>5. /\ loaded' \in [Users -> 0..Len(objects')] /\ conn' \in [Users -> 0..Len(objects')]
      /\ pending' \in [Users -> 0..Len(objects')] /\ listens' \subseteq Users
      /\ list' \in [Users -> [Users -> {None} \cup Entries(Len(objects'))]]
      /\ replays' \in Seq([user : Users, event : Joins])
      /\ asks' \subseteq Browsers /\ owes' \subseteq Browsers
      /\ profile' \in [Users -> BOOLEAN]
      /\ told' \in [Users -> {None} \cup SUBSET (Users \X Nicks)]
      /\ unsure' \subseteq Users \X Users
      /\ inputs' \in 0..MaxInputs
      /\ \A i \in listens' : conn'[i] # 0
      /\ \A z \in Users : loaded'[z] # 0 => objects'[loaded'[z]].user = z
  BY <1>0, <1>4, Typed
<1> QED
  BY <1>3, <1>4, <1>5, TypedNext

(* What an echo may make of a loaded user: nothing but a nick, status or    *)
(* mode differs.                                                            *)
Again(u, new) ==
  loaded[u] # 0 => /\ new \in Objects /\ new.user = u
                   /\ new.where = objects[loaded[u]].where

EchoStep(u) ==
  \E e \in Echoes : \E new : Echo(u, e) /\ SetAgain(u, new) /\ Again(u, new)

LEMMA EchoIs ==
  ASSUME TypeOK, NEW u \in Users
  PROVE  /\ \A k \in Nicks : EchoNick(u, k) => EchoStep(u)
         /\ \A b \in BOOLEAN : EchoStatus(u, b) \/ EchoMode(u, b) => EchoStep(u)
<1>1. loaded[u] # 0 => objects[loaded[u]] \in Objects /\ objects[loaded[u]].user = u
  BY Typed
<1>2. ASSUME NEW k \in Nicks, EchoNick(u, k)
      PROVE  EchoStep(u)
  <2> DEFINE e == <<"nick", k>>
             new == [objects[loaded[u]] EXCEPT !.nick = k]
  <2>1. e \in Echoes
    BY DEF Echoes
  <2>2. Again(u, new)
    BY <1>1 DEF Again, Objects
  <2>3. Echo(u, e) /\ SetAgain(u, new)
    BY <1>2, Zenon DEF EchoNick
  <2> HIDE DEF e, new
  <2> QED
    BY <2>1, <2>2, <2>3, Zenon DEF EchoStep
<1>3. ASSUME NEW inv \in BOOLEAN, EchoStatus(u, inv)
      PROVE  EchoStep(u)
  <2> DEFINE e == <<"inv", inv>>
             new == [objects[loaded[u]] EXCEPT !.inv = inv]
  <2>1. e \in Echoes
    BY DEF Echoes
  <2>2. Again(u, new)
    BY <1>1 DEF Again, Objects
  <2>3. Echo(u, e) /\ SetAgain(u, new)
    BY <1>3, Zenon DEF EchoStatus
  <2> HIDE DEF e, new
  <2> QED
    BY <2>1, <2>2, <2>3, Zenon DEF EchoStep
<1>4. ASSUME NEW on \in BOOLEAN, EchoMode(u, on)
      PROVE  EchoStep(u)
  <2> DEFINE e == <<"hides", on>>
             new == [objects[loaded[u]] EXCEPT !.hides = on]
  <2>1. e \in Echoes
    BY DEF Echoes
  <2>2. Again(u, new)
    BY <1>1 DEF Again, Objects
  <2>3. Echo(u, e) /\ SetAgain(u, new)
    BY <1>4, Zenon DEF EchoMode
  <2> HIDE DEF e, new
  <2> QED
    BY <2>1, <2>2, <2>3, Zenon DEF EchoStep
<1> QED
  BY <1>2, <1>3, <1>4, Zenon

LEMMA EchoTyped ==
  ASSUME ListsAssumption, TypeOK, NEW u \in Users, NEW e \in Echoes, Echo(u, e),
         NEW new, SetAgain(u, new), Again(u, new)
  PROVE  TypeOK'
<1>1. echoes' \in [Users -> [Echoes -> Nat]]
  BY EchoCounted
<1>2. loaded[u] # 0 => new \in Objects /\ new.user = u
  BY DEF Again
<1> QED
  BY <1>1, <1>2, SetAgainTyped

LEMMA SaveTyped ==
  ASSUME TypeOK, NEW u \in Users, NEW on \in BOOLEAN, SaveMode(u, on)
  PROVE  TypeOK'
<1>1. UNCHANGED <<objects, loaded, conn, listens, list, pending, replays, asks, owes, told,
                  unsure, unheard, outdated, inputs>>
  BY DEF SaveMode, users, clients, history
<1>2. echoes' \in [Users -> [Echoes -> Nat]]
  <2>1. <<"profile", on>> \in Echoes
    BY DEF Echoes
  <2> QED
    BY <2>1, EchoCounted DEF SaveMode
<1>3. profile' \in [Users -> BOOLEAN]
  BY Typed DEF SaveMode
<1> QED
  BY <1>1, <1>2, <1>3 DEF TypeOK

(* Users who leave.                                                         *)
LEMMA KickIs ==
  ASSUME ListsAssumption, TypeOK, NEW u \in Users, HandleKick(u)
  PROVE  /\ objects' \in Seq(Objects) /\ Len(objects') \in Nat /\ Len(objects) <= Len(objects')
         /\ Object(u) \in 1..Len(objects')
         /\ loaded' \in [Users -> 0..Len(objects')] /\ loaded'[u] = 0
         /\ \A z \in Users \ {u} : /\ loaded'[z] = loaded[z]
                                   /\ loaded[z] # 0 => objects'[loaded[z]] = objects[loaded[z]]
         /\ \A z \in Users : loaded'[z] # 0 => objects'[loaded'[z]].user = z
         /\ \A k \in 1..Len(objects) : k # loaded[u] => objects'[k] = objects[k]
<1> DEFINE new == [Before(u) EXCEPT !.where = "out"]
<1>1. objects' = [Heap(u) EXCEPT ![Object(u)] = new] /\ loaded' = [loaded EXCEPT ![u] = 0]
  BY DEF HandleKick, Before
<1>t. /\ objects \in Seq(Objects) /\ loaded \in [Users -> 0..Len(objects)]
      /\ \A z \in Users : loaded[z] # 0 => objects[loaded[z]].user = z
      /\ Len(objects) \in Nat
  BY Typed
<1>2. /\ Heap(u) \in Seq(Objects) /\ Object(u) \in 1..Len(Heap(u)) /\ Len(Heap(u)) \in Nat
      /\ Len(objects) <= Len(Heap(u)) /\ \A k \in 1..Len(objects) : Heap(u)[k] = objects[k]
      /\ loaded[u] # 0 => Object(u) = loaded[u]
      /\ loaded[u] = 0 => Object(u) = Len(objects) + 1
  <2>1. /\ Heap(u) \in Seq(Objects) /\ Object(u) \in 1..Len(Heap(u))
        /\ \A k \in 1..Len(objects) : Heap(u)[k] = objects[k]
        /\ loaded[u] # 0 => Object(u) = loaded[u] /\ Len(Heap(u)) = Len(objects)
        /\ loaded[u] = 0 => Object(u) = Len(objects) + 1 /\ Len(Heap(u)) = Len(objects) + 1
    BY HeapIs
  <2> QED
    BY <1>t, <2>1
<1>3. new \in Objects
  BY HeapIs DEF Objects, Places
<1> HIDE DEF new
<1>4. /\ objects' \in Seq(Objects) /\ Len(objects') = Len(Heap(u))
      /\ \A k \in 1..Len(Heap(u)) : k # Object(u) => objects'[k] = Heap(u)[k]
  BY <1>1, <1>2, <1>3, ExceptSeq
<1>5. /\ loaded'[u] = 0 /\ \A z \in Users \ {u} : loaded'[z] = loaded[z]
      /\ loaded' \in [Users -> 0..Len(objects')]
  BY <1>t, <1>1, <1>2, <1>4
<1>6. \A k \in 1..Len(objects) : k # loaded[u] => objects'[k] = objects[k]
  BY <1>t, <1>2, <1>4
<1>7. \A z \in Users \ {u} : loaded[z] # 0 => loaded[z] # loaded[u] /\ loaded[z] \in 1..Len(objects)
  BY <1>t
<1>8. \A z \in Users \ {u} : loaded[z] # 0 => objects'[loaded[z]] = objects[loaded[z]]
  BY <1>6, <1>7
<1>9. \A z \in Users : loaded'[z] # 0 => objects'[loaded'[z]].user = z
  BY <1>t, <1>5, <1>8
<1> QED
  BY <1>2, <1>4, <1>5, <1>6, <1>8, <1>9

LEMMA KickTyped ==
  ASSUME ListsAssumption, TypeOK, NEW u \in Users, HandleKick(u)
  PROVE  TypeOK'
<1>1. /\ objects' \in Seq(Objects) /\ Len(objects') \in Nat /\ Len(objects) <= Len(objects')
      /\ loaded' \in [Users -> 0..Len(objects')] /\ Object(u) \in 1..Len(objects')
      /\ \A z \in Users : loaded'[z] # 0 => objects'[loaded'[z]].user = z
  BY KickIs
<1>2. UNCHANGED <<replays, asks, owes, echoes, profile, unheard, outdated>>
  BY DEF HandleKick, coming
<1>3. pending' \in [Users -> 0..Len(objects')]
  <2>1. Note(u, Object(u)) \/ UNCHANGED pending
    BY DEF HandleKick
  <2> QED
    BY <1>1, <2>1, NoteTyped
<1>4. conn' \in [Users -> 0..Len(objects')]
  BY <1>1, Wider DEF HandleKick
<1>5. listens' \subseteq Users /\ \A i \in listens' : conn'[i] # 0
  BY Typed DEF HandleKick
<1>6. list' \in [Users -> [Users -> {None} \cup Entries(Len(objects'))]]
  <2>1. list \in [Users -> [Users -> {None} \cup Entries(Len(objects'))]]
    BY <1>1, Wider
  <2>2. NoList \in [Users -> {None} \cup Entries(Len(objects'))]
    BY DEF NoList
  <2>3. \A i \in Users : [list[i] EXCEPT ![u] = None] \in [Users -> {None} \cup Entries(Len(objects'))]
    BY <2>1
  <2>4. \A i \in Users : list'[i] \in {NoList, [list[i] EXCEPT ![u] = None], list[i]}
    BY DEF HandleKick
  <2>5. list' = [i \in Users |-> list'[i]]
    BY DEF HandleKick
  <2> QED
    BY <2>1, <2>2, <2>3, <2>4, <2>5
<1>7. told' \in [Users -> {None} \cup SUBSET (Users \X Nicks)]
  <2>1. told \in [Users -> {None} \cup SUBSET (Users \X Nicks)]
    BY Typed
  <2>2. \A i \in Users : told'[i] \in {None, told[i] \ {<<u, Before(u).nick>>}, told[i]}
                          /\ (told[i] = None => told'[i] = None)
    BY DEF HandleKick, Before
  <2>3. told' = [i \in Users |-> told'[i]]
    BY DEF HandleKick
  <2>4. \A i \in Users : told'[i] \in {None} \cup SUBSET (Users \X Nicks)
    BY <2>1, <2>2
  <2> QED
    BY <2>3, <2>4
<1>8. unsure' \subseteq Users \X Users
  BY Typed DEF HandleKick
<1>9. inputs' \in 0..MaxInputs
  BY Typed DEF HandleKick, Input, ListsAssumption
<1>10. /\ replays' \in Seq([user : Users, event : Joins])
       /\ asks' \subseteq Browsers /\ owes' \subseteq Browsers /\ profile' \in [Users -> BOOLEAN]
       /\ echoes' \in [Users -> [Echoes -> Nat]] /\ unheard' \subseteq Users /\ outdated' \subseteq Users
  BY <1>2, Typed
<1> QED
  BY <1>1, <1>3, <1>4, <1>5, <1>6, <1>7, <1>8, <1>9, <1>10, TypedNext

LEMMA FlushTyped ==
  ASSUME ListsAssumption, TypeOK, NEW u \in Users, HandleFlush(u)
  PROVE  TypeOK'
<1>1. UNCHANGED <<objects, conn, listens, list, pending, replays, asks, owes, echoes,
                  profile, told, unsure, unheard, outdated>>
  BY DEF HandleFlush, clients, coming, history
<1>2. loaded' \in [Users -> 0..Len(objects')]
  BY <1>1, Typed DEF HandleFlush
<1>3. \A z \in Users : loaded'[z] # 0 => objects'[loaded'[z]].user = z
  BY <1>1, Typed DEF HandleFlush
<1>4. inputs' \in 0..MaxInputs
  BY Typed DEF HandleFlush, Input, ListsAssumption
<1>5. /\ objects' \in Seq(Objects) /\ conn' \in [Users -> 0..Len(objects')]
      /\ pending' \in [Users -> 0..Len(objects')] /\ listens' \subseteq Users
      /\ list' \in [Users -> [Users -> {None} \cup Entries(Len(objects'))]]
      /\ replays' \in Seq([user : Users, event : Joins])
      /\ asks' \subseteq Browsers /\ owes' \subseteq Browsers
      /\ profile' \in [Users -> BOOLEAN] /\ echoes' \in [Users -> [Echoes -> Nat]]
      /\ told' \in [Users -> {None} \cup SUBSET (Users \X Nicks)]
      /\ unsure' \subseteq Users \X Users /\ unheard' \subseteq Users /\ outdated' \subseteq Users
      /\ \A i \in listens' : conn'[i] # 0
  BY <1>1, Typed
<1> QED
  BY <1>2, <1>3, <1>4, <1>5, TypedNext

LEMMA ModeTyped ==
  ASSUME ListsAssumption, TypeOK, NEW u \in Users, HandleMode(u)
  PROVE  TypeOK'
<1> DEFINE new == [Before(u) EXCEPT !.hides = profile'[u]]
<1>1. profile' \in [Users -> BOOLEAN] /\ profile'[u] \in BOOLEAN
  <2>1. profile \in [Users -> BOOLEAN]
    BY Typed
  <2>2. profile' = [profile EXCEPT ![u] = ~profile[u]]
    BY DEF HandleMode
  <2>3. \A f \in [Users -> BOOLEAN] : [f EXCEPT ![u] = ~f[u]] \in [Users -> BOOLEAN]
    OBVIOUS
  <2>4. profile' \in [Users -> BOOLEAN]
    BY <2>1, <2>2, <2>3, Zenon
  <2> QED
    BY <2>4, Zenon
<1>2. SetUser(u, new)
  BY DEF HandleMode, Before
<1>3. new \in Objects /\ new.user = u
  <2>1. Before(u) \in Objects /\ Before(u).user = u
    BY HeapIs
  <2>2. \A b \in BOOLEAN : [Before(u) EXCEPT !.hides = b] \in Objects
    BY <2>1 DEF Objects
  <2>3. \A b : [Before(u) EXCEPT !.hides = b].user = u
    BY <2>1 DEF Objects
  <2> QED
    BY <1>1, <2>2, <2>3, Zenon
<1> HIDE DEF new
<1>4. /\ objects' \in Seq(Objects) /\ Len(objects') \in Nat /\ Len(objects) <= Len(objects')
      /\ loaded' \in [Users -> 0..Len(objects')]
      /\ \A z \in Users : loaded'[z] # 0 => objects'[loaded'[z]].user = z
  BY <1>2, <1>3, SetUserIs
<1>5. UNCHANGED <<conn, listens, list, pending, replays, asks, told, unsure, unheard, outdated>>
  BY DEF HandleMode, clients, history
<1>6. owes' \subseteq Browsers /\ inputs' \in 0..MaxInputs
  BY Typed DEF HandleMode, Input, ListsAssumption
<1>7. /\ conn' \in [Users -> 0..Len(objects')] /\ pending' \in [Users -> 0..Len(objects')]
      /\ list' \in [Users -> [Users -> {None} \cup Entries(Len(objects'))]]
  BY <1>4, <1>5, Wider
<1>8. /\ listens' \subseteq Users /\ \A i \in listens' : conn'[i] # 0
      /\ replays' \in Seq([user : Users, event : Joins])
      /\ asks' \subseteq Browsers
      /\ told' \in [Users -> {None} \cup SUBSET (Users \X Nicks)]
      /\ unsure' \subseteq Users \X Users /\ unheard' \subseteq Users /\ outdated' \subseteq Users
  BY <1>5, Typed
<1>9. echoes' \in [Users -> [Echoes -> Nat]]
  BY SentTyped, Zenon DEF HandleMode
<1> QED
  BY <1>1, <1>4, <1>6, <1>7, <1>8, <1>9, TypedNext

(* The differences that are sent.                                           *)
LEMMA ShowsTyped ==
  ASSUME NEW i \in Users, told[i] \in SUBSET (Users \X Nicks),
         NEW removed, NEW renamed \in SUBSET Users, NEW added \in SUBSET Users,
         NEW gone, NEW new, \A u \in renamed \cup added : new[u] \in Nicks
  PROVE  Shows(i, removed, renamed, added, gone, new) \in SUBSET (Users \X Nicks)
<1>1. \A S \in SUBSET (renamed \cup added) :
        {<<u, new[u]>> : u \in S} \in SUBSET (Users \X Nicks)
  OBVIOUS
<1>2. CASE i \in Browsers
  <2>1. {p \in told[i] : p[1] \notin removed \cup renamed} \in SUBSET (Users \X Nicks)
    OBVIOUS
  <2>2. {<<u, new[u]>> : u \in added \cup renamed} \in SUBSET (Users \X Nicks)
    BY <1>1
  <2>3. Shows(i, removed, renamed, added, gone, new) =
          {p \in told[i] : p[1] \notin removed \cup renamed}
            \cup {<<u, new[u]>> : u \in added \cup renamed}
    BY <1>2, Zenon DEF Shows
  <2> QED
    BY <2>1, <2>2, <2>3
<1>3. CASE i \notin Browsers
  <2> DEFINE known == {u \in renamed : <<u, list[i][u].nick>> \in told[i]}
             lost  == {<<u, gone[u]>> : u \in removed}
                        \cup {<<u, list[i][u].nick>> : u \in renamed}
  <2>1. Shows(i, removed, renamed, added, gone, new) =
          (told[i] \ lost) \cup {<<u, new[u]>> : u \in added \cup known}
    BY <1>3, Zenon DEF Shows
  <2>2. known \in SUBSET renamed
    OBVIOUS
  <2> HIDE DEF known, lost
  <2>3. {<<u, new[u]>> : u \in added \cup known} \in SUBSET (Users \X Nicks)
    BY <1>1, <2>2
  <2> QED
    BY <2>1, <2>3
<1> QED
  BY <1>2, <1>3

(* Whom a change of the mode adds to a list, and whom it removes.           *)
Loaded      == {z \in Users : loaded'[z] # 0}
NowSees(u)  == {z \in Loaded : /\ objects'[loaded'[z]].where = "here"
                              /\ CanSee(objects', conn'[u], loaded'[z])}
Coming(u)   == {z \in NowSees(u) : list[u][z] = None}
Going(u)    == {z \in Loaded \ NowSees(u) : list[u][z] # None}
NowNicks    == [z \in Loaded |-> objects'[loaded'[z]].nick]

LEMMA UpdateListIs ==
  ASSUME NEW u \in Users, HandleUpdateList(u)
  PROVE  IF objects'[loaded'[u]].where # "here" THEN UNCHANGED <<list, told, outdated>>
         ELSE /\ list' = [list EXCEPT ![u] = [z \in Users |->
                   IF z \in Coming(u) THEN Entry(objects', loaded'[z])
                   ELSE IF z \in Going(u) THEN None ELSE list[u][z]]]
              /\ told' = IF told[u] = None THEN told
                         ELSE [told EXCEPT ![u] =
                                 Shows(u, Going(u), {}, Coming(u), NowNicks, NowNicks)]
              /\ outdated' = outdated \ {u}
BY Zenon DEF HandleUpdateList, Coming, Going, NowNicks, NowSees, Loaded

LEMMA UpdateListTyped ==
  ASSUME ListsAssumption, TypeOK, NEW u \in Users, HandleUpdateList(u)
  PROVE  TypeOK'
<1>1. SetUser(u, Before(u)) /\ Before(u) \in Objects /\ Before(u).user = u
  BY HeapIs DEF HandleUpdateList, Before
<1>2. /\ objects' \in Seq(Objects) /\ Len(objects') \in Nat /\ Len(objects) <= Len(objects')
      /\ loaded' \in [Users -> 0..Len(objects')] /\ Object(u) \in 1..Len(objects')
      /\ \A z \in Users : loaded'[z] # 0 => objects'[loaded'[z]].user = z
  BY <1>1, SetUserIs
<1>3. UNCHANGED <<listens, pending, replays, asks, echoes, profile, unsure, unheard, inputs>>
  BY DEF HandleUpdateList, history
<1>4. conn' = [conn EXCEPT ![u] = IF @ = 0 THEN Object(u) ELSE @]
  BY DEF HandleUpdateList
<1>5. /\ conn' \in [Users -> 0..Len(objects')] /\ conn'[u] # 0
      /\ \A i \in Users \ {u} : conn'[i] = conn[i]
  BY <1>2, <1>4, NoteTyped
<1>6. /\ list \in [Users -> [Users -> {None} \cup Entries(Len(objects'))]]
      /\ pending' \in [Users -> 0..Len(objects')]
  BY <1>2, <1>3, Wider
<1>7. listens' \subseteq Users /\ \A i \in listens' : conn'[i] # 0
  BY <1>3, <1>5, Typed
<1>8. \A z \in Users : loaded'[z] # 0 =>
        /\ objects'[loaded'[z]].nick \in Nicks
        /\ Entry(objects', loaded'[z]) \in Entries(Len(objects'))
  <2> SUFFICES ASSUME NEW z \in Users, loaded'[z] # 0
               PROVE  /\ objects'[loaded'[z]].nick \in Nicks
                      /\ Entry(objects', loaded'[z]) \in Entries(Len(objects'))
    OBVIOUS
  <2>1. loaded'[z] \in 1..Len(objects') /\ loaded'[z] \in (0..Len(objects')) \ {0}
    BY <1>2
  <2>2. objects'[loaded'[z]] \in Objects
    BY <1>2, <2>1
  <2>3. objects'[loaded'[z]].nick \in Nicks
    BY <2>2 DEF Objects
  <2> QED
    BY <2>1, <2>3 DEF Entry, Entries
<1>9. list' \in [Users -> [Users -> {None} \cup Entries(Len(objects'))]]
  <2> DEFINE new == [z \in Users |-> IF z \in Coming(u) THEN Entry(objects', loaded'[z])
                                     ELSE IF z \in Going(u) THEN None ELSE list[u][z]]
  <2>1. Coming(u) \subseteq {z \in Users : loaded'[z] # 0}
    BY DEF Coming, NowSees, Loaded
  <2>2. new \in [Users -> {None} \cup Entries(Len(objects'))]
    BY <1>6, <1>8, <2>1
  <2>3. list' = list \/ list' = [list EXCEPT ![u] = new]
    BY UpdateListIs, Zenon
  <2> HIDE DEF new
  <2> QED
    BY <1>6, <2>2, <2>3
<1>10. told' \in [Users -> {None} \cup SUBSET (Users \X Nicks)]
  <2> DEFINE new == Shows(u, Going(u), {}, Coming(u), NowNicks, NowNicks)
  <2>1. told \in [Users -> {None} \cup SUBSET (Users \X Nicks)]
    BY Typed
  <2>2. told[u] # None => new \in SUBSET (Users \X Nicks)
    <3>1. Coming(u) \in SUBSET Users /\ \A z \in {} \cup Coming(u) : NowNicks[z] \in Nicks
      BY <1>8 DEF Coming, NowSees, Loaded, NowNicks
    <3>2. told[u] # None => told[u] \in SUBSET (Users \X Nicks)
      BY <2>1
    <3> QED
      BY <3>1, <3>2, ShowsTyped
  <2>3. \/ told' = told
        \/ told[u] # None /\ told' = [told EXCEPT ![u] = new]
    BY UpdateListIs, Zenon
  <2> HIDE DEF new
  <2> QED
    BY <2>1, <2>2, <2>3
<1>11. owes' \subseteq Browsers
  BY Typed DEF HandleUpdateList
<1>12. /\ asks' \subseteq Browsers /\ replays' \in Seq([user : Users, event : Joins])
       /\ profile' \in [Users -> BOOLEAN] /\ echoes' \in [Users -> [Echoes -> Nat]]
       /\ unsure' \subseteq Users \X Users
       /\ unheard' \subseteq Users /\ outdated' \subseteq Users /\ inputs' \in 0..MaxInputs
  BY <1>3, Typed, UpdateListIs
<1> QED
  BY <1>2, <1>5, <1>6, <1>7, <1>9, <1>10, <1>11, <1>12, TypedNext

LEMMA CleanTyped ==
  ASSUME ListsAssumption, TypeOK, CleanLocalClients
  PROVE  TypeOK'
<1>1. PICK u \in Users \ listens : /\ conn' = [conn EXCEPT ![u] = 0]
                                   /\ list' = [list EXCEPT ![u] = NoList]
  BY DEF CleanLocalClients
<1>2. UNCHANGED <<objects, loaded, listens, pending, replays, asks, owes, echoes, profile,
                  told, unsure, unheard, outdated, inputs>>
  BY DEF CleanLocalClients, users, coming, history
<1>3. list' \in [Users -> [Users -> {None} \cup Entries(Len(objects'))]]
  <2>1. NoList \in [Users -> {None} \cup Entries(Len(objects'))]
    BY DEF NoList
  <2> QED
    BY <1>1, <1>2, <2>1, Typed
<1>4. conn' \in [Users -> 0..Len(objects')] /\ \A i \in listens' : conn'[i] # 0
  BY <1>1, <1>2, Typed
<1>5. /\ objects' \in Seq(Objects) /\ loaded' \in [Users -> 0..Len(objects')]
      /\ pending' \in [Users -> 0..Len(objects')] /\ listens' \subseteq Users
      /\ replays' \in Seq([user : Users, event : Joins])
      /\ asks' \subseteq Browsers /\ owes' \subseteq Browsers
      /\ profile' \in [Users -> BOOLEAN] /\ echoes' \in [Users -> [Echoes -> Nat]]
      /\ told' \in [Users -> {None} \cup SUBSET (Users \X Nicks)]
      /\ unsure' \subseteq Users \X Users /\ unheard' \subseteq Users /\ outdated' \subseteq Users
      /\ inputs' \in 0..MaxInputs
      /\ \A z \in Users : loaded'[z] # 0 => objects'[loaded'[z]].user = z
  BY <1>2, Typed
<1> QED
  BY <1>3, <1>4, <1>5, TypedNext

(* Whom a refresh adds to a list, removes from it and renames in it.        *)
Noted      == {u \in Users : pending[u] # 0}
NotedNicks == [u \in Noted |-> objects[pending[u]].nick]
MaySee(i, u) == Present(u) /\ CanSee(objects, conn[i], pending[u])
Sees(i, u) == list[i][u] # None
Adds(i)    == {u \in Noted : ~Sees(i, u) /\ MaySee(i, u)}
Removes(i) == {u \in Noted : Sees(i, u) /\ ~MaySee(i, u)}
Renames(i) == {u \in Noted : /\ Sees(i, u) /\ Present(u)
                             /\ list[i][u].nick # NotedNicks[u]}
Doubts(i)  == {u \in Removes(i) : /\ list[i][u].nick # NotedNicks[u]
                                  /\ i \in Browsers => Present(u)}

LEMMA RefreshIs ==
  ASSUME Refresh
  PROVE  /\ pending' = [u \in Users |-> 0]
         /\ list' = [i \in Users |->
              IF i \notin listens THEN list[i]
              ELSE [u \in Users |->
                     IF u \in Removes(i) THEN None
                     ELSE IF u \in Adds(i) THEN Entry(objects, pending[u])
                     ELSE IF u \in Renames(i) THEN [list[i][u] EXCEPT !.nick = NotedNicks[u]]
                     ELSE list[i][u]]]
         /\ told' = [i \in Users |->
              IF i \notin listens \/ told[i] = None THEN told[i]
              ELSE Shows(i, Removes(i), Renames(i), Adds(i), NotedNicks, NotedNicks)]
         /\ unsure \subseteq unsure' /\ unsure' \subseteq unsure \cup (listens \X Noted)
         /\ \A i \in listens : \A u \in Doubts(i) : <<i, u>> \in unsure'
         /\ unheard' = (unheard \ Noted) \cup {u \in Noted : loaded[u] \notin {0, pending[u]}}
         /\ UNCHANGED <<objects, loaded, conn, listens, replays, asks, owes, echoes, profile,
                        outdated, inputs>>
<1>1. /\ pending' = [u \in Users |-> 0]
      /\ UNCHANGED <<objects, loaded, conn, listens, replays, asks, owes, echoes, profile,
                     outdated, inputs>>
  BY DEF Refresh, users, coming
<1>2. list' = [i \in Users |->
              IF i \notin listens THEN list[i]
              ELSE [u \in Users |->
                     IF u \in Removes(i) THEN None
                     ELSE IF u \in Adds(i) THEN Entry(objects, pending[u])
                     ELSE IF u \in Renames(i) THEN [list[i][u] EXCEPT !.nick = NotedNicks[u]]
                     ELSE list[i][u]]]
  BY DEF Refresh, Removes, Adds, Renames, MaySee, Sees, Noted, NotedNicks
<1>3. told' = [i \in Users |->
              IF i \notin listens \/ told[i] = None THEN told[i]
              ELSE Shows(i, Removes(i), Renames(i), Adds(i), NotedNicks, NotedNicks)]
  BY DEF Refresh, Removes, Adds, Renames, MaySee, Sees, Noted, NotedNicks
<1>4. /\ unsure \subseteq unsure' /\ unsure' \subseteq unsure \cup (listens \X Noted)
      /\ \A i \in listens : \A u \in Doubts(i) : <<i, u>> \in unsure'
  <2>1. /\ unsure \subseteq unsure' /\ unsure' \subseteq unsure \cup (listens \X Noted)
    BY DEF Refresh, Noted
  <2>2. ASSUME NEW i \in listens, NEW u \in Doubts(i) PROVE <<i, u>> \in unsure'
    BY <2>2 DEF Refresh, Doubts, Removes, MaySee, Sees, Noted, NotedNicks
  <2> QED
    BY <2>1, <2>2
<1>5. unheard' = (unheard \ Noted) \cup {u \in Noted : loaded[u] \notin {0, pending[u]}}
  BY DEF Refresh, Noted
<1> QED
  BY <1>1, <1>2, <1>3, <1>4, <1>5

LEMMA RefreshTyped ==
  ASSUME ListsAssumption, TypeOK, Refresh
  PROVE  TypeOK'
<1>1. UNCHANGED <<objects, loaded, conn, listens, replays, asks, owes, echoes, profile,
                outdated, inputs>>
  BY RefreshIs
<1>2. pending' \in [Users -> 0..Len(objects')]
  BY RefreshIs, <1>1, Typed
<1>3. \A u \in Noted : NotedNicks[u] \in Nicks /\ Entry(objects, pending[u]) \in Entries(Len(objects))
  <2> SUFFICES ASSUME NEW u \in Noted
               PROVE  NotedNicks[u] \in Nicks /\ Entry(objects, pending[u]) \in Entries(Len(objects))
    OBVIOUS
  <2>1. /\ pending[u] \in 1..Len(objects) /\ pending[u] \in (0..Len(objects)) \ {0}
        /\ objects[pending[u]] \in Objects
    BY Typed DEF Noted
  <2>2. objects[pending[u]].nick \in Nicks
    BY <2>1 DEF Objects
  <2>3. NotedNicks[u] = objects[pending[u]].nick
    BY DEF NotedNicks
  <2> QED
    BY <2>1, <2>2, <2>3 DEF Entry, Entries
<1>4. list' \in [Users -> [Users -> {None} \cup Entries(Len(objects'))]]
  <2>1. list \in [Users -> [Users -> {None} \cup Entries(Len(objects))]]
    BY Typed
  <2>2. \A i \in Users : \A u \in Renames(i) :
          [list[i][u] EXCEPT !.nick = NotedNicks[u]] \in Entries(Len(objects))
    <3> SUFFICES ASSUME NEW i \in Users, NEW u \in Renames(i)
                 PROVE  [list[i][u] EXCEPT !.nick = NotedNicks[u]] \in Entries(Len(objects))
      OBVIOUS
    <3>1. u \in Noted /\ list[i][u] # None
      BY DEF Renames, Sees
    <3>2. list[i][u] \in Entries(Len(objects))
      BY <2>1, <3>1 DEF Noted
    <3> QED
      BY <1>3, <3>1, <3>2 DEF Entries
  <2>3. \A i \in Users : \A u \in Adds(i) : Entry(objects, pending[u]) \in Entries(Len(objects))
    BY <1>3 DEF Adds
  <2>4. \A i \in Users, u \in Users :
          (IF u \in Removes(i) THEN None
           ELSE IF u \in Adds(i) THEN Entry(objects, pending[u])
           ELSE IF u \in Renames(i) THEN [list[i][u] EXCEPT !.nick = NotedNicks[u]]
           ELSE list[i][u]) \in {None} \cup Entries(Len(objects))
    <3> TAKE i \in Users, u \in Users
    <3>1. list[i][u] \in {None} \cup Entries(Len(objects))
      BY <2>1
    <3> QED
      BY <2>2, <2>3, <3>1, Zenon
  <2>5. list' = [i \in Users |->
              IF i \notin listens THEN list[i]
              ELSE [u \in Users |->
                     IF u \in Removes(i) THEN None
                     ELSE IF u \in Adds(i) THEN Entry(objects, pending[u])
                     ELSE IF u \in Renames(i) THEN [list[i][u] EXCEPT !.nick = NotedNicks[u]]
                     ELSE list[i][u]]]
    BY RefreshIs
  <2> QED
    BY <1>1, <2>1, <2>4, <2>5
<1>5. told' \in [Users -> {None} \cup SUBSET (Users \X Nicks)]
  <2>1. told \in [Users -> {None} \cup SUBSET (Users \X Nicks)]
    BY Typed
  <2>2. \A i \in Users : told[i] # None =>
          Shows(i, Removes(i), Renames(i), Adds(i), NotedNicks, NotedNicks)
            \in SUBSET (Users \X Nicks)
    <3> TAKE i \in Users
    <3> HAVE told[i] # None
    <3>1. told[i] \in SUBSET (Users \X Nicks)
      BY <2>1
    <3>2. /\ Renames(i) \in SUBSET Users /\ Adds(i) \in SUBSET Users
          /\ \A u \in Renames(i) \cup Adds(i) : NotedNicks[u] \in Nicks
      BY <1>3 DEF Renames, Adds, Noted
    <3> QED
      BY <3>1, <3>2, ShowsTyped
  <2>3. told' = [i \in Users |->
              IF i \notin listens \/ told[i] = None THEN told[i]
              ELSE Shows(i, Removes(i), Renames(i), Adds(i), NotedNicks, NotedNicks)]
    BY RefreshIs
  <2> QED
    BY <2>1, <2>2, <2>3
<1>6. unsure' \subseteq Users \X Users
  BY RefreshIs, Typed DEF Noted
<1>7. unheard' \subseteq Users
  BY RefreshIs, Typed DEF Noted
<1>8. /\ objects' \in Seq(Objects) /\ loaded' \in [Users -> 0..Len(objects')]
      /\ conn' \in [Users -> 0..Len(objects')] /\ listens' \subseteq Users
      /\ replays' \in Seq([user : Users, event : Joins])
      /\ asks' \subseteq Browsers /\ owes' \subseteq Browsers
      /\ profile' \in [Users -> BOOLEAN] /\ echoes' \in [Users -> [Echoes -> Nat]]
      /\ outdated' \subseteq Users /\ inputs' \in 0..MaxInputs
      /\ \A i \in listens' : conn'[i] # 0
      /\ \A z \in Users : loaded'[z] # 0 => objects'[loaded'[z]].user = z
  BY <1>1, Typed
<1> QED
  BY <1>2, <1>4, <1>5, <1>6, <1>7, <1>8, TypedNext

LEMMA InitTyped ==
  ASSUME ListsAssumption, Init
  PROVE  TypeOK
BY DEF Init, TypeOK, ListsAssumption

LEMMA StepTyped ==
  ASSUME ListsAssumption, TypeOK, [Next]_vars
  PROVE  TypeOK'
<1>1. CASE UNCHANGED vars
  BY <1>1 DEF TypeOK, vars, users, clients, coming, history, Present
<1>2. ASSUME NEW u \in Users, NEW e \in Joins, HandleJoin(u, e) PROVE TypeOK'
  BY <1>2, JoinTyped
<1>3. ASSUME NEW u \in Users, NEW w \in {"away", "out"}, HandlePart(u, w) PROVE TypeOK'
  BY <1>3, PartTyped
<1>4. ASSUME NEW u \in Users, NEW k \in Nicks, HandleNick(u, k) PROVE TypeOK'
  BY <1>4, NickTyped
<1>5. ASSUME NEW u \in Users, NEW inv \in BOOLEAN, HandleStatus(u, inv) PROVE TypeOK'
  BY <1>5, StatusTyped
<1>6. ASSUME NEW u \in Users, HandleKick(u) \/ HandleFlush(u) \/ HandleMode(u) PROVE TypeOK'
  BY <1>6, KickTyped, FlushTyped, ModeTyped
<1>7. ASSUME NEW u \in Users, HandlePage(u) \/ HandleUpdateList(u) PROVE TypeOK'
  BY <1>7, PageTyped, UpdateListTyped
<1>9. ASSUME NEW u \in Users, EchoStep(u) PROVE TypeOK'
  BY <1>9, EchoTyped, Zenon DEF EchoStep
<1>10. ASSUME NEW u \in Users, NEW k \in Nicks, EchoNick(u, k) PROVE TypeOK'
  BY <1>9, <1>10, EchoIs, Zenon
<1>11. ASSUME NEW u \in Users, NEW b \in BOOLEAN, EchoStatus(u, b) \/ EchoMode(u, b) PROVE TypeOK'
  BY <1>9, <1>11, EchoIs, Zenon
<1>12. ASSUME NEW u \in Users, NEW b \in BOOLEAN, SaveMode(u, b) PROVE TypeOK'
  BY <1>12, SaveTyped
<1>8. CASE HandleReplay \/ CleanLocalClients \/ Refresh
  BY <1>8, ReplayTyped, CleanTyped, RefreshTyped
<1> QED
  BY <1>1, <1>2, <1>3, <1>4, <1>5, <1>6, <1>7, <1>8, <1>10, <1>11, <1>12
     DEF Next, UserEvents, LaterEvents

(* Whatever the events, every note, connection and list refers to an object *)
(* there is, and a loaded object is the one of its user: the handlers of    *)
(* chat_thread.cpp never follow a reference to nothing.                     *)
THEOREM ListsTyped == Spec => []TypeOK
<1>1. Init => TypeOK
  BY InitTyped, ListsAssumption
<1>2. TypeOK /\ [Next]_vars => TypeOK'
  BY StepTyped, ListsAssumption
<1> QED
  BY <1>1, <1>2, PTL DEF Spec

-----------------------------------------------------------------------------
(* What leaves a client's knowledge of a user as it is *)

(* Neither list nor client changed.                                         *)
LEMMA ToldSame ==
  ASSUME NEW i \in Users, NEW u \in Users, ToldPair(i, u),
         told'[i] # None => told[i] # None /\ Tells(i, u)' = Tells(i, u),
         list'[i][u] = list[i][u],
         <<i, u>> \in unsure => <<i, u>> \in unsure',
         u = i /\ conn'[i] = loaded'[i] => conn[i] = loaded[i]
  PROVE  ToldPair(i, u)'
BY DEF ToldPair

(* The list did not change, nor the user, or he was not listed and is not   *)
(* in the room.                                                             *)
LEMMA ListSame ==
  ASSUME TypeOK, TypeOK', NEW i \in listens, NEW u \in Users, EntryPair(i, u), VisiblePair(i, u),
         told'[i] # None => told[i] # None \/ i \in Browsers,
         list'[i][u] = list[i][u], conn'[i] = conn[i],
         <<i, u>> \in unsure => <<i, u>> \in unsure',
         u \in unheard => u \in unheard',
         pending[u] # 0 => pending'[u] # 0,
         i \in Behind => i \in Behind',
         loaded'[u] = loaded[u],
         loaded[u] # 0 => /\ objects'[loaded[u]].nick = objects[loaded[u]].nick
                          /\ objects'[loaded[u]].where = objects[loaded[u]].where
                          /\ objects'[loaded[u]].inv = objects[loaded[u]].inv,
         loaded'[i] = conn[i] =>
           \/ i \in Behind'
           \/ loaded[i] = conn[i] /\ objects'[conn[i]].hides = objects[conn[i]].hides
  PROVE  EntryPair(i, u)' /\ VisiblePair(i, u)'
<1>1. Known(i, u)' => Known(i, u)
  BY DEF Known
<1>2. Present(u)' <=> Present(u)
  BY DEF Present
<1>3. EntryPair(i, u)'
  BY <1>1, <1>2 DEF EntryPair, Present
<1>4. VisiblePair(i, u)'
  <2> SUFFICES ASSUME Known(i, u)', i \notin Behind', conn'[i] = loaded'[i]
               PROVE  list'[i][u] # None <=>
                        Present(u)' /\ CanSee(objects', loaded'[i], loaded'[u])
    BY DEF VisiblePair
  <2>1. /\ i \notin Behind /\ conn[i] = loaded[i] /\ loaded'[i] = loaded[i]
        /\ objects'[loaded[i]].hides = objects[loaded[i]].hides
    OBVIOUS
  <2>2. loaded[i] # 0 /\ objects[loaded[i]].user = i /\ objects'[loaded[i]].user = i
    BY <2>1, Typed, TypeOK' DEF TypeOK
  <2>3. list[i][u] # None <=> Present(u) /\ CanSee(objects, loaded[i], loaded[u])
    BY <1>1, <2>1 DEF VisiblePair
  <2>4. loaded[u] # 0 => objects[loaded[u]].user = u /\ objects'[loaded[u]].user = u
    BY Typed, TypeOK' DEF TypeOK
  <2>5. Present(u) => (CanSee(objects', loaded'[i], loaded'[u]) <=>
                       CanSee(objects, loaded[i], loaded[u]))
    BY <2>1, <2>2, <2>4 DEF CanSee, Present
  <2> QED
    BY <1>2, <2>3, <2>5
<1> QED
  BY <1>3, <1>4

(* A user who is not in the room is on no list that is right about him.     *)
LEMMA GoneSame ==
  ASSUME TypeOK', NEW i \in Users, NEW u \in Users, ~Present(u)',
         Known(i, u)' => list'[i][u] = None
  PROVE  EntryPair(i, u)' /\ VisiblePair(i, u)'
BY DEF EntryPair, VisiblePair

(* A new object is not the one a connection was made with.                  *)
LEMMA SameConn ==
  ASSUME ListsAssumption, TypeOK, NEW w \in Users, NEW new \in Objects, new.user = w,
         SetUser(w, new), NEW i \in listens, conn'[i] = conn[i], conn'[i] = loaded'[i]
  PROVE  conn[i] = loaded[i]
<1>1. /\ loaded'[w] = Object(w)
      /\ \A z \in Users \ {w} : loaded'[z] = loaded[z]
  BY SetUserIs
<1>2. /\ loaded[w] # 0 => Object(w) = loaded[w]
      /\ loaded[w] = 0 => Object(w) = Len(objects) + 1
  BY HeapIs
<1>3. i \in Users /\ conn[i] \in 0..Len(objects) /\ Len(objects) \in Nat
  BY Typed
<1> QED
  BY <1>1, <1>2, <1>3

(* Somebody's object got other fields, which leaves what the lists in the   *)
(* room know, when he is noted, or was and is not in the room.              *)
LEMMA SetUserKeeps ==
  ASSUME ListsAssumption, TypeOK, TypeOK', NEW w \in Users, NEW new \in Objects, new.user = w,
         SetUser(w, new), NEW i \in listens, NEW u \in Users, EntryPair(i, u), VisiblePair(i, u),
         told'[i] # None => told[i] # None \/ i \in Browsers,
         list'[i][u] = list[i][u], conn'[i] = conn[i],
         <<i, u>> \in unsure => <<i, u>> \in unsure',
         u \in unheard => u \in unheard',
         pending[u] # 0 => pending'[u] # 0,
         i \in Behind => i \in Behind',
         new.hides = Before(w).hides \/ w \in Behind',
         u = w => \/ pending'[u] # 0
                  \/ Before(w).where # "here" /\ new.where # "here"
                  \/ /\ new.nick = Before(w).nick /\ new.where = Before(w).where
                     /\ new.inv = Before(w).inv
  PROVE  EntryPair(i, u)' /\ VisiblePair(i, u)' 
<1>1. /\ loaded'[w] = Object(w) /\ objects'[loaded'[w]] = new
      /\ \A z \in Users \ {w} : /\ loaded'[z] = loaded[z]
                                /\ loaded[z] # 0 => objects'[loaded[z]] = objects[loaded[z]]
  BY SetUserIs
<1>2. /\ loaded[w] # 0 => Object(w) = loaded[w] /\ Before(w) = objects[loaded[w]]
      /\ loaded[w] = 0 => Object(w) = Len(objects) + 1 /\ Before(w).where = "out"
  BY HeapIs
<1>3. /\ i \in Users /\ conn[i] # 0 /\ conn[i] \in 0..Len(objects) /\ loaded[i] \in 0..Len(objects)
      /\ Len(objects) \in Nat
  BY Typed
<1>4. loaded'[i] = conn[i] =>
           \/ i \in Behind'
           \/ loaded[i] = conn[i] /\ objects'[conn[i]].hides = objects[conn[i]].hides
  <2>1. CASE i # w
    BY <1>1, <1>3, <2>1
  <2>2. CASE i = w
    BY <1>1, <1>2, <1>3, <2>2
  <2> QED
    BY <2>1, <2>2
<1>5. CASE u # w
  BY <1>1, <1>4, <1>5, ListSame
<1>6. CASE u = w /\ pending'[u] # 0
  BY <1>6 DEF EntryPair, VisiblePair, Known
<1>7. CASE u = w /\ Before(w).where # "here" /\ new.where # "here"
  <2>1. ~Present(u)'
    BY <1>1, <1>7 DEF Present
  <2>2. Known(i, u)' => list'[i][u] = None
    <3> SUFFICES ASSUME Known(i, u)', list[i][u] # None
                 PROVE  FALSE
      OBVIOUS
    <3>1. list[i][u].object = loaded'[u] /\ list[i][u].object \in 1..Len(objects)
      BY <1>3, ListedIs DEF Known
    <3>2. loaded[u] # 0 /\ loaded'[u] = loaded[u] /\ ~Present(u)
      BY <1>1, <1>2, <1>3, <1>7, <3>1 DEF Present
    <3>3. Known(i, u)
      BY <3>1, <3>2 DEF Known
    <3> QED
      BY <3>2, <3>3 DEF EntryPair
  <2> QED
    BY <1>3, <2>1, <2>2, GoneSame
<1>8. CASE /\ u = w /\ new.nick = Before(w).nick /\ new.where = Before(w).where
           /\ new.inv = Before(w).inv
  <2>1. CASE loaded[w] # 0
    BY <1>1, <1>2, <1>4, <1>8, <2>1, ListSame
  <2>2. CASE loaded[w] = 0
    BY <1>2, <1>7, <1>8, <2>2
  <2> QED
    BY <2>1, <2>2
<1> QED
  BY <1>5, <1>6, <1>7, <1>8

(* The parts of the invariant that are about one client, when another's     *)
(* object changes.                                                          *)
LEMMA NotListedKept ==
  ASSUME NotListed,
         \A u \in Users \ Browsers :
           \/ u \in listens' \/ told'[u] = None
           \/ /\ u \notin listens /\ told'[u] = told[u]
              /\ Present(u)' => Present(u)
              /\ conn'[u] = 0 => conn[u] = 0
              /\ BackSoon(u)' => BackSoon(u)
  PROVE  NotListed'
BY DEF NotListed

LEMMA PresentIs ==
  ASSUME ListsAssumption, TypeOK, NEW w \in Users, NEW new \in Objects, new.user = w,
         SetUser(w, new)
  PROVE  /\ \A u \in Users \ {w} : Present(u)' <=> Present(u)
         /\ Present(w)' <=> new.where = "here"
         /\ Present(w) <=> Before(w).where = "here"
<1>1. /\ loaded'[w] = Object(w) /\ loaded'[w] # 0 /\ objects'[loaded'[w]] = new
      /\ \A z \in Users \ {w} : /\ loaded'[z] = loaded[z]
                                /\ loaded[z] # 0 => objects'[loaded[z]] = objects[loaded[z]]
  BY SetUserIs
<1>2. /\ loaded[w] # 0 => Before(w) = objects[loaded[w]]
      /\ loaded[w] = 0 => Before(w).where = "out"
  BY HeapIs
<1> QED
  BY <1>1, <1>2 DEF Present

LEMMA ConnOwnKept ==
  ASSUME ListsAssumption, TypeOK, ConnOwn, NEW w \in Users, NEW new \in Objects,
         new.user = w, SetUser(w, new),
         \A i \in Users : \/ conn'[i] = conn[i]
                          \/ i = w /\ conn'[i] = Object(w)
  PROVE  ConnOwn'
<1>1. /\ loaded'[w] = Object(w) /\ objects'[loaded'[w]] = new
      /\ \A k \in 1..Len(objects) : k # loaded[w] => objects'[k] = objects[k]
  BY SetUserIs
<1>2. /\ loaded[w] # 0 => Object(w) = loaded[w] /\ objects[loaded[w]].user = w
      /\ \A i \in Users : conn[i] \in 0..Len(objects) /\ loaded[w] \in 0..Len(objects)
      /\ Len(objects) \in Nat
  <2>1. loaded[w] # 0 => Object(w) = loaded[w]
    BY HeapIs
  <2> QED
    BY <2>1, Typed
<1>3. \A k \in 1..Len(objects) : objects'[k].user = objects[k].user
  BY <1>1, <1>2
<1> QED
  BY <1>1, <1>2, <1>3 DEF ConnOwn

LEMMA ListenerHereKept ==
  ASSUME ListsAssumption, TypeOK, ListenerHere, NEW w \in Users, NEW new \in Objects,
         new.user = w, SetUser(w, new),
         \A i \in listens' \ {w} : i \in listens /\ conn'[i] = conn[i],
         w \in listens' => \/ new.where = "here"
                           \/ /\ w \in listens /\ conn'[w] = conn[w]
                              /\ new.where = Before(w).where
  PROVE  ListenerHere'
<1>1. /\ loaded'[w] = Object(w) /\ objects'[loaded'[w]] = new
      /\ \A z \in Users \ {w} : /\ loaded'[z] = loaded[z]
                                /\ loaded[z] # 0 => objects'[loaded[z]] = objects[loaded[z]]
  BY SetUserIs
<1>2. /\ loaded[w] # 0 => Object(w) = loaded[w] /\ Before(w) = objects[loaded[w]]
      /\ loaded[w] = 0 => Object(w) = Len(objects) + 1
  BY HeapIs
<1>3. /\ \A i \in listens : conn[i] # 0 /\ conn[i] \in 0..Len(objects) /\ i \in Users
      /\ Len(objects) \in Nat
  BY Typed
<1> SUFFICES ASSUME NEW i \in listens', conn'[i] = loaded'[i]
             PROVE  objects'[loaded'[i]].where = "here"
  BY DEF ListenerHere
<1>4. CASE i # w
  BY <1>1, <1>3, <1>4 DEF ListenerHere
<1>5. CASE i = w
  BY <1>1, <1>2, <1>3, <1>5 DEF ListenerHere
<1> QED
  BY <1>4, <1>5

-----------------------------------------------------------------------------
(* The joins *)

(* An away join of an IRC client who is in the room leaves his list alone;  *)
(* a join of the room makes a new one, and what he is told says the same.   *)
Kept == ConnOwn' /\ NotListed' /\ ListenerHere' /\ \A i \in listens', u \in Users : PairInv(i, u)'

LEMMA EntryIs ==
  ASSUME ListsAssumption, TypeOK'
  PROVE  /\ \A k \in 1..Len(objects') : Entry(objects', k) # None
         /\ \A u \in Users : loaded'[u] # 0 => Entry(objects', loaded'[u]) # None
<1>1. \A k \in 1..Len(objects') : Entry(objects', k) \in [nick : Nicks, object : Nat]
  <2> TAKE k \in 1..Len(objects')
  <2>1. objects'[k] \in Objects
    BY TypedThen
  <2>2. objects'[k].nick \in Nicks
    BY <2>1 DEF Objects
  <2> QED
    BY <2>2 DEF Entry
<1>2. \A u \in Users : loaded'[u] # 0 => loaded'[u] \in 1..Len(objects')
  BY TypedThen
<1> QED
  BY <1>1, <1>2 DEF ListsAssumption

LEMMA NewList ==
  ASSUME ListsAssumption, TypeOK, TypeOK', NEW w \in Users, NEW u \in Users,
         conn'[w] \in 1..Len(objects'), objects'[conn'[w]].user = w,
         loaded'[w] # 0, Present(w)',
         list'[w] = WholeList(objects', loaded', w, conn'[w]),
         IF w \in Browsers THEN told'[w] = None
         ELSE told'[w] = Names(objects', loaded', list'[w])
  PROVE  PairInv(w, u)'
<1>1. list'[w][u] = IF u = w THEN Entry(objects', conn'[w])
                    ELSE IF /\ loaded'[u] # 0 /\ objects'[loaded'[u]].where = "here"
                            /\ CanSee(objects', conn'[w], loaded'[u])
                    THEN Entry(objects', loaded'[u])
                    ELSE None
  BY DEF WholeList
<1>2. list'[w][u] # None => list'[w][u].nick = objects'[list'[w][u].object].nick
  BY <1>1 DEF Entry
<1>3. /\ u # w => list'[w][u] \in {None, Entry(objects', loaded'[u])}
      /\ u = w => list'[w][u] = Entry(objects', conn'[w])
  BY <1>1
<1>4. /\ Entry(objects', conn'[w]) # None
      /\ loaded'[u] # 0 => Entry(objects', loaded'[u]) # None
  BY EntryIs
<1>5. Present(u)' <=> loaded'[u] # 0 /\ objects'[loaded'[u]].where = "here"
  BY DEF Present
<1>6. EntryPair(w, u)'
  <2>1. CASE u # w
    BY <1>1, <1>5, <2>1 DEF EntryPair, Entry
  <2>2. CASE u = w
    <3>1. list'[w][w] = Entry(objects', conn'[w])
      BY <1>1, <2>2
    <3>2. list'[w][w].object = conn'[w] /\ list'[w][w].nick = objects'[conn'[w]].nick
      BY <3>1 DEF Entry
    <3> QED
      BY <1>4, <2>2, <3>1, <3>2 DEF EntryPair, Known
  <2> QED
    BY <2>1, <2>2
<1>7. VisiblePair(w, u)'
  <2> SUFFICES ASSUME conn'[w] = loaded'[w]
               PROVE  list'[w][u] # None <=>
                        Present(u)' /\ CanSee(objects', loaded'[w], loaded'[u])
    BY DEF VisiblePair
  <2>1. CASE u # w
    BY <1>1, <1>4, <1>5, <2>1
  <2>2. CASE u = w
    <3>1. CanSee(objects', loaded'[w], loaded'[u])
      BY <2>2 DEF CanSee
    <3> QED
      BY <1>1, <1>4, <2>2, <3>1
  <2> QED
    BY <2>1, <2>2
<1>8. ToldPair(w, u)'
  <2>0. told'[w] \in {None} \cup SUBSET (Users \X Nicks)
    BY TypeOK' DEF TypeOK
  <2> SUFFICES ASSUME told'[w] # None, u = w => conn'[w] = loaded'[w]
               PROVE  Tells(w, u)' = IF list'[w][u] # None THEN {<<u, list'[w][u].nick>>} ELSE {}
    BY DEF ToldPair
  <2>1. told'[w] = Names(objects', loaded', list'[w])
    OBVIOUS
  <2>2. Tells(w, u)' = IF loaded'[u] # 0 /\ objects'[loaded'[u]].where = "here" /\ list'[w][u] # None
                       THEN {<<u, objects'[loaded'[u]].nick>>} ELSE {}
    <3>1. Tells(w, u)' = {p \in Names(objects', loaded', list'[w]) : p[1] = u}
      BY <2>1 DEF Tells
    <3> QED
      BY <3>1 DEF Names
  <2>3. list'[w][u] # None => Present(u)' /\ list'[w][u].nick = objects'[loaded'[u]].nick
    <3>1. CASE u # w
      BY <1>1, <1>5, <3>1 DEF Entry
    <3>2. CASE u = w
      BY <1>1, <3>2 DEF Entry
    <3> QED
      BY <3>1, <3>2
  <2> QED
    BY <1>5, <2>2, <2>3
<1> QED
  BY <1>6, <1>7, <1>8 DEF PairInv

LEMMA JoinKeeps ==
  ASSUME ListsAssumption, ListsInv, NEW w \in Users, NEW e \in Joins, HandleJoin(w, e)
  PROVE  Kept
<1>0. TypeOK /\ ConnOwn /\ NotListed /\ ListenerHere /\ TypeOK'
  BY JoinTyped DEF ListsInv
<1>1. PICK new \in Objects :
        /\ SetUser(w, new) /\ new.user = w /\ new.hides = Before(w).hides
        /\ new.where = Moved(w, e)
        /\ IF "here" \in {Before(w).where, new.where} THEN Note(w, Object(w))
           ELSE UNCHANGED pending
        /\ listens' = IF new.where # "here" THEN listens \ {w}
                      ELSE IF TRUE THEN listens \cup {w} ELSE listens
  <2>1. FixLists(w, e, TRUE)
    BY DEF HandleJoin
  <2> QED
    BY <1>0, <2>1, FixListsIs, Zenon
<1>2. /\ Object(w) \in 1..Len(objects') /\ loaded'[w] # 0 /\ loaded'[w] = Object(w)
      /\ Len(objects) <= Len(objects')
      /\ Len(objects) \in Nat /\ Len(objects') \in Nat
      /\ \A k \in 1..Len(objects) : k # loaded[w] => objects'[k] = objects[k]
      /\ objects'[Object(w)] = new
  <2>1. SetUser(w, new) /\ new.user = w
    BY <1>1
  <2>2. Len(objects) \in Nat
    BY <1>0, Typed
  <2> QED
    <3>1. /\ Len(objects') \in Nat /\ Len(objects) <= Len(objects')
          /\ loaded'[w] = Object(w) /\ loaded'[w] \in 1..Len(objects')
          /\ objects'[loaded'[w]] = new
          /\ \A k \in 1..Len(objects) : k # loaded[w] => objects'[k] = objects[k]
      <4>1. TypeOK
        BY <1>0
      <4> QED
        BY <2>1, <4>1, SetUserIs, Zenon
    <3>2. loaded'[w] # 0
      BY <3>1
    <3> QED
      BY <2>2, <3>1, <3>2
<1>3. /\ conn' = [conn EXCEPT ![w] = IF @ = 0 THEN Object(w) ELSE @]
      /\ UNCHANGED <<owes, profile, unheard>>
  BY DEF HandleJoin
<1>4. /\ conn'[w] # 0 /\ conn'[w] \in 1..Len(objects') /\ \A i \in Users \ {w} : conn'[i] = conn[i]
      /\ conn[w] # 0 => conn'[w] = conn[w]
      /\ conn[w] = 0 => conn'[w] = Object(w)
  <2>1. Object(w) \in 1..Len(objects')
    BY <1>2
  <2>2. /\ conn' \in [Users -> 0..Len(objects')]
        /\ conn'[w] # 0 /\ \A i \in Users \ {w} : conn'[i] = conn[i]
        /\ conn[w] # 0 => conn'[w] = conn[w]
        /\ conn[w] = 0 => conn'[w] = Object(w)
    BY <1>0, <1>2, <1>3, <2>1, NoteTyped
  <2> QED
    BY <1>2, <2>2
<1>5. \A i \in Users \ {w} : told'[i] = told[i] /\ list'[i] = list[i]
  BY <1>0, Typed DEF HandleJoin
<1>6. NotListed'
  <2>1. \A u \in Users \ {w} : BackSoon(u)' => BackSoon(u)
    <3> SUFFICES ASSUME NEW u \in Users \ {w}, NEW k \in 1..Len(replays'),
                        replays'[k].user = u, replays'[k].event.room = "here"
                 PROVE  \E l \in 1..Len(replays) : replays[l].user = u /\ replays[l].event.room = "here"
      BY DEF BackSoon
    <3>1. /\ replays \in Seq([user : Users, event : Joins]) /\ [user |-> w, event |-> e] \in [user : Users, event : Joins]
          /\ replays' = Append(replays, [user |-> w, event |-> e])
      BY <1>0, Typed DEF HandleJoin
    <3>2. k # Len(replays) + 1 /\ Len(replays') = Len(replays) + 1
      BY <3>1
    <3>3. k \in 1..Len(replays) /\ replays'[k] = replays[k]
      BY <3>1, <3>2
    <3> QED
      BY <3>3
  <2>2. \A u \in Users \ {w} : (Present(u)' => Present(u)) /\ (conn'[u] = 0 => conn[u] = 0)
                               /\ (u \notin listens' => u \notin listens)
    BY <1>0, <1>1, <1>4, PresentIs
  <2>3. w \in listens' \/ ~Present(w)'
    BY <1>0, <1>1, PresentIs
  <2>4. \A u \in Users \ Browsers :
          u \notin listens' /\ (Present(u)' \/ (conn'[u] = 0 /\ BackSoon(u)')) => told'[u] = None
    BY <1>0, <1>4, <1>5, <2>1, <2>2, <2>3 DEF NotListed
  <2> QED
    BY <2>4 DEF NotListed
<1>7. ListenerHere'
  BY <1>0, <1>1, <1>4, Typed, ListenerHereKept
<1>8. ASSUME NEW i \in listens, NEW u \in Users,
             i # w \/ (w \notin Browsers /\ e.room # "here")
      PROVE  PairInv(i, u)'
  <2>1. PairInv(i, u)
    BY DEF ListsInv
  <2>2. i \in Users /\ told'[i] = told[i] /\ list'[i] = list[i] /\ conn'[i] = conn[i]
    <3>1. i \in Users /\ conn[i] # 0
      BY <1>0, Typed
    <3>2. i = w => told' = told /\ list' = list
      BY <1>8 DEF HandleJoin
    <3> QED
      BY <1>4, <1>5, <3>1, <3>2
  <2>3. <<i, u>> \in unsure => <<i, u>> \in unsure'
    BY <1>8 DEF HandleJoin, Forget
  <2>4. u \in unheard => u \in unheard'
    BY <1>3
  <2>5. i \in Behind => i \in Behind'
    <3>1. i # w \/ e.room # "here" => (i \in outdated => i \in outdated')
      BY DEF HandleJoin
    <3> QED
      BY <1>3, <1>8, <3>1 DEF Behind
  <2>6. /\ pending[u] # 0 => pending'[u] # 0
        /\ u = w => pending'[u] # 0 \/ (Before(w).where # "here" /\ new.where # "here")
    <3>0. u \in Users /\ pending \in [Users -> 0..Len(objects)] /\ Object(w) # 0
      BY <1>0, <1>2, Typed
    <3>1. CASE "here" \in {Before(w).where, new.where}
      <4>1. pending' = [pending EXCEPT ![w] = IF @ = 0 THEN Object(w) ELSE @]
        BY <1>1, <3>1 DEF Note
      <4>2. (pending[u] # 0 => pending'[u] # 0) /\ (u = w => pending'[u] # 0)
        BY <3>0, <4>1
      <4> QED
        BY <4>2
    <3>2. CASE "here" \notin {Before(w).where, new.where}
      <4>1. pending' = pending
        BY <1>1, <3>2
      <4> QED
        BY <3>2, <4>1
    <3> QED
      BY <3>1, <3>2
  <2>7. EntryPair(i, u)' /\ VisiblePair(i, u)'
    BY <1>0, <1>1, <2>1, <2>2, <2>3, <2>4, <2>5, <2>6, SetUserKeeps DEF PairInv
  <2>8. ToldPair(i, u)'
    <3>1. u = i /\ conn'[i] = loaded'[i] => conn[i] = loaded[i]
      BY <1>0, <1>1, <2>2, SameConn
    <3>2. Tells(i, u)' = Tells(i, u)
      BY <2>2 DEF Tells
    <3> QED
      BY <2>1, <2>2, <2>3, <3>1, <3>2, ToldSame DEF PairInv
  <2> QED
    BY <2>7, <2>8 DEF PairInv
<1>11. ConnOwn'
  <2>1. \A i \in Users : conn'[i] = conn[i] \/ (i = w /\ conn'[i] = Object(w))
    BY <1>4
  <2> QED
    BY <1>0, <1>1, <2>1, ConnOwnKept
<1>9. ASSUME NEW u \in Users, w \in listens', e.room = "here"
      PROVE  PairInv(w, u)'
  <2>1. list'[w] = WholeList(objects', loaded', w, conn'[w])
    BY <1>0, <1>9, Typed DEF HandleJoin
  <2>2. IF w \in Browsers THEN told'[w] = None
        ELSE told'[w] = Names(objects', loaded', list'[w])
    BY <1>0, <1>9, Typed DEF HandleJoin
  <2>3. Present(w)'
    BY <1>0, <1>1, <1>9, PresentIs DEF Moved
  <2>4. objects'[conn'[w]].user = w
    BY <1>4, <1>11 DEF ConnOwn
  <2> QED
    BY <1>0, <1>2, <1>4, <2>1, <2>2, <2>3, <2>4, NewList
<1>10. ASSUME NEW u \in Users, w \in listens', e.room # "here"
       PROVE  PairInv(w, u)'
  <2>1. w \notin Browsers /\ Before(w).where = "here" /\ Present(w)
    BY <1>0, <1>1, <1>10, PresentIs DEF Moved
  <2>2. told' = told /\ list' = list /\ unsure' = unsure
    BY <1>10, <2>1 DEF HandleJoin
  <2>3. CASE w \in listens
    BY <1>8, <1>10, <2>1, <2>3
  <2>4. CASE w \notin listens
    <3>1. told'[w] = None
      BY <1>0, <2>1, <2>2, <2>4 DEF NotListed
    <3> QED
      BY <2>1, <3>1 DEF PairInv, ToldPair, EntryPair, VisiblePair, Known
  <2> QED
    BY <2>3, <2>4
<1>12. \A i \in listens' : i \in listens \/ i = w
  BY <1>1
<1> QED
  BY <1>6, <1>7, <1>8, <1>9, <1>10, <1>11, <1>12 DEF Kept

LEMMA ReplayKeeps ==
  ASSUME ListsAssumption, ListsInv, HandleReplay
  PROVE  Kept
<1>r. /\ replays \in Seq([user : Users, event : Joins]) /\ replays # <<>>
      /\ replays' = Tail(replays) /\ replays[1] = Head(replays)
  BY Typed DEF HandleReplay, ListsInv
<1>0. TypeOK /\ ConnOwn /\ NotListed /\ ListenerHere /\ TypeOK'
  BY ReplayTyped DEF ListsInv
<1>w. PICK w \in Users, e \in Joins : w = Head(replays).user /\ e = Head(replays).event
  <2>1. Head(replays) \in [user : Users, event : Joins]
    BY <1>r, HeadTailProperties
  <2> QED
    BY <2>1
<1>1. PICK new \in Objects :
        /\ SetUser(w, new) /\ new.user = w /\ new.hides = Before(w).hides
        /\ new.where = Moved(w, e)
        /\ IF "here" \in {Before(w).where, new.where} THEN Note(w, Object(w))
           ELSE UNCHANGED pending
        /\ listens' = IF new.where # "here" THEN listens \ {w}
                      ELSE IF conn[w] # 0 THEN listens \cup {w} ELSE listens
  <2> DEFINE c == conn[w] # 0
  <2>1. FixLists(w, e, c)
    BY <1>w DEF HandleReplay
  <2>2. c <=> conn[w] # 0
    OBVIOUS
  <2> HIDE DEF c
  <2>3. \E new \in Objects :
           /\ SetUser(w, new) /\ new.user = w /\ new.hides = Before(w).hides
           /\ new.where = Moved(w, e)
           /\ IF "here" \in {Before(w).where, new.where} THEN Note(w, Object(w))
              ELSE UNCHANGED pending
           /\ listens' = IF new.where # "here" THEN listens \ {w}
                         ELSE IF c THEN listens \cup {w} ELSE listens
    BY <1>0, <2>1, FixListsIs, Zenon
  <2> QED
    BY <2>2, <2>3
<1>2. UNCHANGED <<conn, list, asks, owes, echoes, profile, told, unheard, outdated, inputs>>
  BY DEF HandleReplay
<1>3. \A u \in Users : BackSoon(u)' => BackSoon(u)
  <2> SUFFICES ASSUME NEW u \in Users, NEW k \in 1..Len(replays'),
                      replays'[k].user = u, replays'[k].event.room = "here"
               PROVE  \E l \in 1..Len(replays) : replays[l].user = u /\ replays[l].event.room = "here"
    BY DEF BackSoon
  <2>1. k + 1 \in 1..Len(replays) /\ replays'[k] = replays[k + 1]
    BY <1>r
  <2> QED
    BY <2>1
<1>4. e.room = "here" => BackSoon(w)
  <2>1. 1 \in 1..Len(replays)
    BY <1>r
  <2> QED
    BY <1>r, <1>w, <2>1 DEF BackSoon
<1>5. unsure' = unsure \cup {<<i, u>> : i \in listens' \ listens, u \in Users}
  BY DEF HandleReplay
<1>6. Object(w) # 0
  BY <1>0, HeapIs
<1>7. NotListed'
  <2>1. \A u \in Users \ {w} : (Present(u)' => Present(u)) /\ (u \notin listens' => u \notin listens)
    BY <1>0, <1>1, PresentIs
  <2>2. (w \in Users \ Browsers /\ w \notin listens' /\ Present(w)') => told'[w] = None
    <3> SUFFICES ASSUME w \in Users \ Browsers, w \notin listens', Present(w)'
                 PROVE  told'[w] = None
      OBVIOUS
    <3>1. conn[w] = 0 /\ w \notin listens
      BY <1>0, <1>1, PresentIs
    <3>2. e.room = "here" \/ Present(w)
      BY <1>0, <1>1, PresentIs DEF Moved
    <3> QED
      BY <1>0, <1>2, <1>4, <3>1, <3>2 DEF NotListed
  <2>3. (w \in Users \ Browsers /\ w \notin listens' /\ conn'[w] = 0 /\ BackSoon(w)') => told'[w] = None
    BY <1>0, <1>2, <1>3, Typed DEF NotListed
  <2>4. \A u \in Users \ Browsers :
          u \notin listens' /\ (Present(u)' \/ (conn'[u] = 0 /\ BackSoon(u)')) => told'[u] = None
    BY <1>0, <1>2, <1>3, <2>1, <2>2, <2>3 DEF NotListed
  <2> QED
    BY <2>4 DEF NotListed
<1>8. ListenerHere' /\ ConnOwn'
  BY <1>0, <1>1, <1>2, ListenerHereKept, ConnOwnKept
<1>9. ASSUME NEW i \in listens, NEW u \in Users
      PROVE  PairInv(i, u)'
  <2>1. PairInv(i, u) /\ i \in Users
    BY <1>0, Typed DEF ListsInv
  <2>2. told'[i] = told[i] /\ list'[i] = list[i] /\ conn'[i] = conn[i]
    BY <1>2
  <2>3. /\ <<i, u>> \in unsure => <<i, u>> \in unsure'
        /\ u \in unheard => u \in unheard'
        /\ i \in Behind => i \in Behind'
    BY <1>2, <1>5 DEF Behind
  <2>6. /\ pending[u] # 0 => pending'[u] # 0
        /\ u = w => pending'[u] # 0 \/ (Before(w).where # "here" /\ new.where # "here")
    BY <1>0, <1>1, <1>6, Typed DEF Note
  <2>7. EntryPair(i, u)' /\ VisiblePair(i, u)'
    BY <1>0, <1>1, <2>1, <2>2, <2>3, <2>6, SetUserKeeps DEF PairInv
  <2>8. ToldPair(i, u)'
    <3>1. u = i /\ conn'[i] = loaded'[i] => conn[i] = loaded[i]
      BY <1>0, <1>1, <2>2, SameConn
    <3>2. Tells(i, u)' = Tells(i, u)
      BY <2>2 DEF Tells
    <3> QED
      BY <2>1, <2>2, <2>3, <3>1, <3>2, ToldSame DEF PairInv
  <2> QED
    BY <2>7, <2>8 DEF PairInv
<1>10. ASSUME NEW i \in listens' \ listens, NEW u \in Users
       PROVE  PairInv(i, u)'
  <2>1. <<i, u>> \in unsure'
    BY <1>5
  <2> QED
    BY <2>1 DEF PairInv, ToldPair, EntryPair, VisiblePair, Known
<1> QED
  BY <1>7, <1>8, <1>9, <1>10 DEF Kept

-----------------------------------------------------------------------------
(* The other events *)

(* A client who is not told anything while somebody's object changes.       *)
LEMMA NotTold ==
  ASSUME ListsAssumption, ListsInv, TypeOK', NEW w \in Users, NEW new \in Objects, new.user = w,
         SetUser(w, new), NEW i \in listens, NEW u \in Users,
         told'[i] = told[i], list'[i] = list[i], conn'[i] = conn[i],
         unsure \subseteq unsure', unheard \subseteq unheard', i \in Behind => i \in Behind',
         new.hides = Before(w).hides \/ w \in Behind',
         pending[u] # 0 => pending'[u] # 0,
         u = w => \/ pending'[u] # 0
                  \/ Before(w).where # "here" /\ new.where # "here"
                  \/ /\ new.nick = Before(w).nick /\ new.where = Before(w).where
                     /\ new.inv = Before(w).inv
  PROVE  PairInv(i, u)'
<1>1. TypeOK /\ PairInv(i, u) /\ i \in Users
  BY Typed DEF ListsInv
<1>2. EntryPair(i, u)' /\ VisiblePair(i, u)'
  BY <1>1, SetUserKeeps DEF PairInv
<1>3. u = i /\ conn'[i] = loaded'[i] => conn[i] = loaded[i]
  BY <1>1, SameConn
<1>4. Tells(i, u)' = Tells(i, u)
  BY DEF Tells
<1>5. ToldPair(i, u)'
  BY <1>1, <1>3, <1>4, ToldSame DEF PairInv
<1> QED
  BY <1>2, <1>5 DEF PairInv

LEMMA PartKeeps ==
  ASSUME ListsAssumption, ListsInv, NEW w \in Users, NEW where \in {"away", "out"},
         HandlePart(w, where)
  PROVE  Kept
<1> DEFINE new == [Before(w) EXCEPT !.where = where]
<1>0. TypeOK /\ ConnOwn /\ NotListed /\ ListenerHere /\ TypeOK'
  BY PartTyped DEF ListsInv
<1>1. /\ SetUser(w, new) /\ new \in Objects /\ new.user = w /\ new.hides = Before(w).hides
      /\ new.where # "here"
  <2>1. SetUser(w, new)
    BY DEF HandlePart, Before
  <2>2. Before(w) \in Objects /\ Before(w).user = w
    BY <1>0, HeapIs
  <2> QED
    BY <2>1, <2>2 DEF Objects, Places
<1> HIDE DEF new
<1>2. UNCHANGED <<conn, list, replays, asks, owes, echoes, profile, unsure, unheard, outdated>>
  BY DEF HandlePart, coming, history
<1>3. listens' = listens \ {w} /\ told' = [told EXCEPT ![w] = None]
  BY DEF HandlePart
<1>4. /\ \A u \in Users : pending[u] # 0 => pending'[u] # 0
      /\ Before(w).where = "here" => pending'[w] # 0
  <2>1. Object(w) # 0
    BY <1>0, HeapIs
  <2> QED
    BY <1>0, <2>1, Typed DEF HandlePart, Note, Before
<1>5. NotListed'
  <2>1. \A u \in Users \ {w} : Present(u)' => Present(u)
    BY <1>0, <1>1, PresentIs
  <2>2. told'[w] = None /\ \A u \in Users \ {w} : told'[u] = told[u]
    BY <1>0, <1>3, Typed
  <2>3. \A u \in Users : BackSoon(u)' => BackSoon(u)
    BY <1>2 DEF BackSoon
  <2> QED
    BY <1>0, <1>2, <1>3, <2>1, <2>2, <2>3, NotListedKept
<1>6. ListenerHere' /\ ConnOwn'
  BY <1>0, <1>1, <1>2, <1>3, ListenerHereKept, ConnOwnKept
<1>7. ASSUME NEW i \in listens', NEW u \in Users
      PROVE  PairInv(i, u)'
  <2>1. i \in listens /\ told'[i] = told[i]
    BY <1>0, <1>3, Typed
  <2> QED
    BY <1>0, <1>1, <1>2, <1>4, <2>1, NotTold DEF Behind
<1> QED
  BY <1>5, <1>6, <1>7 DEF Kept

LEMMA ChangeKeeps ==
  ASSUME ListsAssumption, ListsInv, TypeOK', NEW w \in Users, NEW new \in Objects,
         new.user = w, new.hides = Before(w).hides, new.where = Before(w).where,
         Change(w, new)
  PROVE  Kept
<1>0. TypeOK /\ ConnOwn /\ NotListed /\ ListenerHere
  BY DEF ListsInv
<1>1. PICK new2 \in Objects : /\ SetUser(w, new2) /\ new2.user = w
                              /\ new2.hides = Before(w).hides /\ new2.where = Before(w).where
  <2>1. Before(w) \in Objects /\ Before(w).user = w
    BY <1>0, HeapIs
  <2>2. SetUser(w, IF Before(w).where = "out" THEN Before(w) ELSE new)
    BY DEF Change, Before
  <2> QED
    BY <2>1, <2>2
<1>2. UNCHANGED <<conn, listens, list, replays, asks, owes, profile, told, unsure, unheard, outdated>>
  BY DEF Change, clients, history
<1>4. /\ \A u \in Users : pending[u] # 0 => pending'[u] # 0
      /\ Before(w).where = "here" => pending'[w] # 0
  <2>1. Object(w) # 0
    BY <1>0, HeapIs
  <2> QED
    BY <1>0, <2>1, Typed DEF Change, Note, Before
<1>5. NotListed'
  <2>1. \A u \in Users : Present(u)' => Present(u)
    BY <1>0, <1>1, PresentIs
  <2>3. \A u \in Users : BackSoon(u)' => BackSoon(u)
    BY <1>2 DEF BackSoon
  <2> QED
    BY <1>0, <1>2, <2>1, <2>3, NotListedKept
<1>6. ListenerHere' /\ ConnOwn'
  BY <1>0, <1>1, <1>2, ListenerHereKept, ConnOwnKept
<1>7. ASSUME NEW i \in listens, NEW u \in Users
      PROVE  PairInv(i, u)'
  BY <1>0, <1>1, <1>2, <1>4, NotTold DEF Behind
<1> QED
  BY <1>2, <1>5, <1>6, <1>7 DEF Kept

LEMMA NickKeeps ==
  ASSUME ListsAssumption, ListsInv, NEW w \in Users, NEW k \in Nicks, HandleNick(w, k)
  PROVE  Kept
<1> DEFINE new == [Before(w) EXCEPT !.nick = k]
<1>1. TypeOK /\ TypeOK' /\ Before(w) \in Objects /\ Before(w).user = w
  BY HeapIs, NickTyped DEF ListsInv
<1>2. /\ new \in Objects /\ new.user = w /\ new.hides = Before(w).hides
      /\ new.where = Before(w).where
  BY <1>1 DEF Objects
<1>3. Change(w, new)
  BY DEF HandleNick, Before
<1> HIDE DEF new
<1> QED
  BY <1>1, <1>2, <1>3, ChangeKeeps

LEMMA StatusKeeps ==
  ASSUME ListsAssumption, ListsInv, NEW w \in Users, NEW inv \in BOOLEAN, HandleStatus(w, inv)
  PROVE  Kept
<1> DEFINE new == [Before(w) EXCEPT !.inv = inv]
<1>1. TypeOK /\ TypeOK' /\ Before(w) \in Objects /\ Before(w).user = w
  BY HeapIs, StatusTyped DEF ListsInv
<1>2. /\ new \in Objects /\ new.user = w /\ new.hides = Before(w).hides
      /\ new.where = Before(w).where
  BY <1>1 DEF Objects
<1>3. Change(w, new)
  BY DEF HandleStatus, Before
<1> HIDE DEF new
<1> QED
  BY <1>1, <1>2, <1>3, ChangeKeeps

LEMMA ModeKeeps ==
  ASSUME ListsAssumption, ListsInv, NEW w \in Users, HandleMode(w)
  PROVE  Kept
<1> DEFINE new == [Before(w) EXCEPT !.hides = profile'[w]]
<1>0. TypeOK /\ ConnOwn /\ NotListed /\ ListenerHere /\ TypeOK'
  BY ModeTyped DEF ListsInv
<1>1. /\ SetUser(w, new) /\ new.user = w /\ new.where = Before(w).where
      /\ new.nick = Before(w).nick /\ new.inv = Before(w).inv /\ new \in Objects
  <2>1. Before(w) \in Objects /\ Before(w).user = w
    BY <1>0, HeapIs
  <2>2. profile'[w] \in BOOLEAN
    <3>1. profile' \in [Users -> BOOLEAN]
      BY <1>0 DEF TypeOK
    <3> QED
      BY <3>1, Zenon
  <2>3. \A b \in BOOLEAN : [Before(w) EXCEPT !.hides = b] \in Objects
    BY <2>1 DEF Objects
  <2>4. new \in Objects
    BY <2>2, <2>3, Zenon
  <2>5. SetUser(w, new)
    BY DEF HandleMode, Before
  <2>6. /\ new.user = w /\ new.where = Before(w).where
        /\ new.nick = Before(w).nick /\ new.inv = Before(w).inv
    BY <2>1 DEF Objects
  <2> QED
    BY <2>4, <2>5, <2>6
<1> HIDE DEF new
<1>2. UNCHANGED <<conn, listens, list, pending, replays, asks, told, unsure, unheard, outdated>>
  BY DEF HandleMode, clients, history
<1>3. w \in Behind' /\ Behind \subseteq Behind'
  BY <1>2 DEF HandleMode, Behind
<1>5. NotListed'
  <2>1. \A u \in Users : Present(u)' => Present(u)
    BY <1>0, <1>1, PresentIs
  <2>3. \A u \in Users : BackSoon(u)' => BackSoon(u)
    BY <1>2 DEF BackSoon
  <2> QED
    BY <1>0, <1>2, <2>1, <2>3, NotListedKept
<1>6. ListenerHere' /\ ConnOwn'
  BY <1>0, <1>1, <1>2, ListenerHereKept, ConnOwnKept
<1>7. ASSUME NEW i \in listens, NEW u \in Users
      PROVE  PairInv(i, u)'
  BY <1>0, <1>1, <1>2, <1>3, NotTold
<1> QED
  BY <1>2, <1>5, <1>6, <1>7 DEF Kept

LEMMA PageKeeps ==
  ASSUME ListsAssumption, ListsInv, NEW w \in Users, HandlePage(w)
  PROVE  Kept
<1>0. TypeOK /\ ConnOwn /\ NotListed /\ ListenerHere /\ TypeOK' /\ w \in Browsers
  BY PageTyped, Typed DEF ListsInv, HandlePage
<1>1. SetUser(w, Before(w)) /\ Before(w) \in Objects /\ Before(w).user = w
  BY <1>0, HeapIs DEF HandlePage, Before
<1>2. /\ UNCHANGED <<listens, list, pending, replays, owes, echoes, profile, unheard, outdated, inputs>>
      /\ conn' = [conn EXCEPT ![w] = IF @ = 0 THEN Object(w) ELSE @]
  BY DEF HandlePage
<1>3. /\ conn'[w] # 0 /\ \A i \in Users \ {w} : conn'[i] = conn[i]
      /\ conn[w] # 0 => conn'[w] = conn[w]
      /\ conn[w] = 0 => conn'[w] = Object(w)
  <2>1. Object(w) \in 1..Len(objects') /\ Len(objects') \in Nat /\ Len(objects) <= Len(objects')
    BY <1>0, <1>1, SetUserIs
  <2> QED
    BY <1>0, <1>2, <2>1, NoteTyped
<1>4. \A i \in Users \ {w} : told'[i] = told[i]
  BY <1>0, Typed DEF HandlePage
<1>5. unsure \subseteq unsure'
  BY DEF HandlePage
<1>6. NotListed'
  <2>1. \A u \in Users : Present(u)' => Present(u)
    BY <1>0, <1>1, PresentIs
  <2>3. \A u \in Users : BackSoon(u)' => BackSoon(u)
    BY <1>2 DEF BackSoon
  <2> QED
    BY <1>0, <1>2, <1>3, <1>4, <2>1, <2>3, NotListedKept
<1>7. \A i \in listens : i \in Users /\ conn[i] # 0 /\ conn'[i] = conn[i]
  BY <1>0, <1>3, Typed
<1>8. ListenerHere' /\ ConnOwn'
  <2>1. \A i \in Users : conn'[i] = conn[i] \/ (i = w /\ conn'[i] = Object(w))
    BY <1>3
  <2> QED
    BY <1>0, <1>1, <1>2, <1>7, <2>1, ListenerHereKept, ConnOwnKept
<1>9. ASSUME NEW i \in listens, NEW u \in Users, i # w
      PROVE  PairInv(i, u)'
  BY <1>0, <1>1, <1>2, <1>4, <1>5, <1>7, <1>9, NotTold DEF Behind
<1>10. ASSUME NEW u \in Users, w \in listens
       PROVE  PairInv(w, u)'
  <2>1. PairInv(w, u)
    BY <1>10 DEF ListsInv
  <2>2. EntryPair(w, u)' /\ VisiblePair(w, u)'
    BY <1>0, <1>1, <1>2, <1>5, <1>7, <1>10, <2>1, SetUserKeeps DEF PairInv, Behind
  <2>3. u = w /\ conn'[w] = loaded'[w] => conn[w] = loaded[w]
    BY <1>0, <1>1, <1>7, <1>10, SameConn
  <2>4. ToldPair(w, u)'
    <3>1. CASE Before(w).where # "here"
      <4>1. told' = told
        BY <3>1 DEF HandlePage, Before
      <4>2. Tells(w, u)' = Tells(w, u)
        BY <4>1 DEF Tells
      <4> QED
        BY <1>2, <1>5, <2>1, <2>3, <4>1, <4>2, ToldSame DEF PairInv
    <3>2. CASE Before(w).where = "here"
      <4>1. /\ told'[w] = {<<z, objects[list[w][z].object].nick>> :
                             z \in {y \in Users : list[w][y] # None}}
            /\ unsure' = unsure \cup {<<w, z>> : z \in {y \in Users :
                /\ list[w][y] # None
                /\ list[w][y].nick # objects[list[w][y].object].nick}}
        BY <1>0, <3>2, Typed DEF HandlePage, Before
      <4>2. Tells(w, u)' = IF list[w][u] # None
                           THEN {<<u, objects[list[w][u].object].nick>>} ELSE {}
        BY <4>1 DEF Tells
      <4>3. <<w, u>> \notin unsure' /\ list[w][u] # None =>
              list[w][u].nick = objects[list[w][u].object].nick
        BY <4>1
      <4> QED
        BY <1>2, <4>2, <4>3 DEF ToldPair
    <3> QED
      BY <3>1, <3>2
  <2> QED
    BY <2>2, <2>4 DEF PairInv
<1> QED
  BY <1>2, <1>6, <1>8, <1>9, <1>10 DEF Kept

(* A user whose object only got loaded is listed as before.                 *)
LEMMA EntrySame ==
  ASSUME ListsAssumption, TypeOK, NEW w \in Users, SetUser(w, Before(w)),
         NEW i \in listens, NEW u \in Users, EntryPair(i, u),
         told'[i] # None => told[i] # None \/ i \in Browsers,
         list'[i][u] = list[i][u],
         <<i, u>> \in unsure => <<i, u>> \in unsure',
         u \in unheard => u \in unheard',
         pending[u] # 0 => pending'[u] # 0
  PROVE  EntryPair(i, u)'
<1> SUFFICES ASSUME Known(i, u)', list[i][u] # None
             PROVE  Present(u)' /\ list'[i][u].nick = objects'[loaded'[u]].nick
  BY DEF EntryPair
<1>1. /\ Before(w) \in Objects /\ Before(w).user = w
      /\ loaded[w] # 0 => Before(w) = objects[loaded[w]] /\ Object(w) = loaded[w]
      /\ loaded[w] = 0 => Object(w) = Len(objects) + 1
  BY HeapIs
<1>2. /\ loaded'[w] = Object(w) /\ objects'[loaded'[w]] = Before(w)
      /\ \A z \in Users \ {w} : /\ loaded'[z] = loaded[z]
                                /\ loaded[z] # 0 => objects'[loaded[z]] = objects[loaded[z]]
  BY <1>1, SetUserIs
<1>3. i \in Users /\ Len(objects) \in Nat
  BY Typed
<1>4. list[i][u].object = loaded'[u] /\ list[i][u].object \in 1..Len(objects)
  BY <1>3, ListedIs DEF Known
<1>5. loaded'[u] = loaded[u] /\ loaded[u] # 0 /\ objects'[loaded[u]] = objects[loaded[u]]
  BY <1>1, <1>2, <1>3, <1>4
<1>6. Known(i, u)
  BY <1>4, <1>5 DEF Known
<1> QED
  BY <1>5, <1>6 DEF EntryPair, Present

LEMMA UpdateListKeeps ==
  ASSUME ListsAssumption, ListsInv, NEW w \in Users, HandleUpdateList(w)
  PROVE  Kept
<1>0. TypeOK /\ ConnOwn /\ NotListed /\ ListenerHere /\ TypeOK' /\ w \in Browsers
  BY UpdateListTyped, Typed DEF ListsInv, HandleUpdateList
<1>1. SetUser(w, Before(w)) /\ Before(w) \in Objects /\ Before(w).user = w
  BY <1>0, HeapIs DEF HandleUpdateList, Before
<1>2. /\ UNCHANGED <<listens, pending, replays, asks, echoes, profile, unsure, unheard, inputs>>
      /\ conn' = [conn EXCEPT ![w] = IF @ = 0 THEN Object(w) ELSE @]
      /\ owes' = owes \ {w}
      /\ outdated \ {w} \subseteq outdated'
  BY DEF HandleUpdateList
<1>3. /\ conn'[w] # 0 /\ \A i \in Users \ {w} : conn'[i] = conn[i]
      /\ conn[w] # 0 => conn'[w] = conn[w]
      /\ conn[w] = 0 => conn'[w] = Object(w)
  <2>1. Object(w) \in 1..Len(objects') /\ Len(objects') \in Nat /\ Len(objects) <= Len(objects')
    BY <1>0, <1>1, SetUserIs
  <2> QED
    BY <1>0, <1>2, <2>1, NoteTyped
<1>4. \A i \in Users \ {w} : told'[i] = told[i] /\ list'[i] = list[i]
  <2>1. /\ told' = told \/ \E x : told' = [told EXCEPT ![w] = x]
        /\ list' = list \/ \E x : list' = [list EXCEPT ![w] = x]
    BY UpdateListIs
  <2> QED
    BY <1>0, <2>1, Typed
<1>6. NotListed'
  <2>1. \A u \in Users : Present(u)' => Present(u)
    BY <1>0, <1>1, PresentIs
  <2>3. \A u \in Users : BackSoon(u)' => BackSoon(u)
    BY <1>2 DEF BackSoon
  <2> QED
    BY <1>0, <1>2, <1>3, <1>4, <2>1, <2>3, NotListedKept
<1>7. \A i \in listens : i \in Users /\ conn[i] # 0 /\ conn'[i] = conn[i]
  BY <1>0, <1>3, Typed
<1>8. ListenerHere' /\ ConnOwn'
  <2>1. \A i \in Users : conn'[i] = conn[i] \/ (i = w /\ conn'[i] = Object(w))
    BY <1>3
  <2> QED
    BY <1>0, <1>1, <1>2, <1>7, <2>1, ListenerHereKept, ConnOwnKept
<1>9. ASSUME NEW i \in listens, NEW u \in Users, i # w
      PROVE  PairInv(i, u)'
  BY <1>0, <1>1, <1>2, <1>4, <1>7, <1>9, NotTold DEF Behind
<1>10. ASSUME NEW u \in Users, w \in listens
       PROVE  PairInv(w, u)'
  <2>1. PairInv(w, u)
    BY <1>10 DEF ListsInv
  <2>2. conn'[w] = loaded'[w] => conn[w] = loaded[w]
    BY <1>0, <1>1, <1>7, <1>10, SameConn
  <2>3. conn'[w] = loaded'[w] => objects'[loaded'[w]].where = "here"
    BY <1>2, <1>8, <1>10 DEF ListenerHere
  <2>t. /\ list \in [Users -> [Users -> {None} \cup Entries(Len(objects))]]
        /\ told \in [Users -> {None} \cup SUBSET (Users \X Nicks)]
    BY <1>0, Typed
  <2>4. CASE objects'[loaded'[w]].where # "here"
    <3>1. told' = told /\ list' = list
      BY <2>4, UpdateListIs
    <3>2. conn'[w] # loaded'[w]
      BY <2>3, <2>4
    <3>3. ToldPair(w, u)'
      <4>1. Tells(w, u)' = Tells(w, u)
        BY <3>1 DEF Tells
      <4> QED
        BY <1>2, <2>1, <3>1, <3>2, <4>1, ToldSame DEF PairInv
    <3>4. VisiblePair(w, u)'
      BY <3>2 DEF VisiblePair
    <3>5. EntryPair(w, u)'
      BY <1>0, <1>1, <1>2, <1>10, <2>1, <3>1, EntrySame DEF PairInv
    <3> QED
      BY <3>3, <3>4, <3>5 DEF PairInv
  <2>5. CASE objects'[loaded'[w]].where = "here"
    <3> DEFINE new == Shows(w, Going(w), {}, Coming(w), NowNicks, NowNicks)
    <3>1. /\ list' = [list EXCEPT ![w] = [z \in Users |->
                   IF z \in Coming(w) THEN Entry(objects', loaded'[z])
                   ELSE IF z \in Going(w) THEN None ELSE list[w][z]]]
          /\ told' = IF told[w] = None THEN told ELSE [told EXCEPT ![w] = new]
      BY <2>5, UpdateListIs, Zenon
    <3>2. /\ list'[w][u] = IF u \in Coming(w) THEN Entry(objects', loaded'[u])
                           ELSE IF u \in Going(w) THEN None ELSE list[w][u]
          /\ told'[w] = IF told[w] = None THEN None ELSE new
      <4> HIDE DEF new
      <4> QED
        BY <2>t, <3>1
    <3>3. /\ u \in Coming(w) => /\ loaded'[u] # 0 /\ objects'[loaded'[u]].where = "here"
                                 /\ CanSee(objects', conn'[w], loaded'[u])
                                 /\ list[w][u] = None
                                 /\ Entry(objects', loaded'[u]) # None
                                 /\ NowNicks[u] = objects'[loaded'[u]].nick
          /\ u \in Going(w) => /\ loaded'[u] # 0 /\ list[w][u] # None /\ u \notin Coming(w)
                                /\ ~(/\ objects'[loaded'[u]].where = "here"
                                     /\ CanSee(objects', conn'[w], loaded'[u]))
          /\ u \notin Coming(w) /\ u \notin Going(w) /\ loaded'[u] # 0 =>
                (list[w][u] # None <=> /\ objects'[loaded'[u]].where = "here"
                                       /\ CanSee(objects', conn'[w], loaded'[u]))
      <4>1. loaded'[u] # 0 => Entry(objects', loaded'[u]) # None
        BY <1>0, EntryIs
      <4>2. u \in Loaded <=> loaded'[u] # 0
        BY DEF Loaded
      <4>3. u \in NowSees(w) <=> /\ loaded'[u] # 0 /\ objects'[loaded'[u]].where = "here"
                                 /\ CanSee(objects', conn'[w], loaded'[u])
        BY <4>2 DEF NowSees
      <4>4. u \in Loaded => NowNicks[u] = objects'[loaded'[u]].nick
        BY DEF NowNicks
      <4>5. /\ u \in Coming(w) <=> u \in NowSees(w) /\ list[w][u] = None
            /\ u \in Going(w) <=> u \in Loaded /\ u \notin NowSees(w) /\ list[w][u] # None
        BY DEF Coming, Going
      <4> QED
        BY <4>1, <4>2, <4>3, <4>4, <4>5
    <3>4. ToldPair(w, u)'
      <4> SUFFICES ASSUME told'[w] # None, <<w, u>> \notin unsure',
                          u = w => conn'[w] = loaded'[w]
                   PROVE  Tells(w, u)' = IF list'[w][u] # None
                                         THEN {<<u, list'[w][u].nick>>} ELSE {}
        BY DEF ToldPair
      <4>1. told[w] # None /\ told'[w] = {p \in told[w] : p[1] \notin Going(w)}
                                           \cup {<<z, NowNicks[z]>> : z \in Coming(w)}
        BY <1>0, <3>2 DEF Shows
      <4>2. Tells(w, u) = IF list[w][u] # None THEN {<<u, list[w][u].nick>>} ELSE {}
        BY <1>2, <2>1, <2>2, <4>1 DEF PairInv, ToldPair
      <4>3. Tells(w, u)' = (IF u \in Going(w) THEN {} ELSE Tells(w, u))
                            \cup (IF u \in Coming(w) THEN {<<u, NowNicks[u]>>} ELSE {})
        BY <4>1 DEF Tells
      <4> QED
        BY <3>2, <3>3, <4>2, <4>3 DEF Entry
    <3>5. EntryPair(w, u)'
      <4>1. CASE u \in Coming(w)
        BY <3>2, <3>3, <4>1 DEF EntryPair, Entry, Present
      <4>2. CASE u \in Going(w)
        BY <3>2, <3>3, <4>2 DEF EntryPair
      <4>3. CASE u \notin Coming(w) /\ u \notin Going(w)
        BY <1>0, <1>1, <1>2, <1>10, <2>1, <3>2, <4>3, EntrySame DEF PairInv
      <4> QED
        BY <4>1, <4>2, <4>3
    <3>6. VisiblePair(w, u)'
      <4> SUFFICES ASSUME Known(w, u)', conn'[w] = loaded'[w]
                   PROVE  list'[w][u] # None <=>
                            Present(u)' /\ CanSee(objects', loaded'[w], loaded'[u])
        BY DEF VisiblePair
      <4>1. CASE loaded'[u] # 0
        BY <3>2, <3>3, <4>1 DEF Present
      <4>2. CASE loaded'[u] = 0
        <5>1. list'[w][u] = list[w][u]
          BY <3>2, <3>3, <4>2
        <5>2. list[w][u] # None => list[w][u].object # 0
          BY <1>0, ListedIs
        <5> QED
          BY <4>2, <5>1, <5>2 DEF Known, Present
      <4> QED
        BY <4>1, <4>2
    <3> QED
      BY <3>4, <3>5, <3>6 DEF PairInv
  <2> QED
    BY <2>4, <2>5
<1> QED
  BY <1>2, <1>6, <1>8, <1>9, <1>10 DEF Kept

LEMMA EchoKeeps ==
  ASSUME ListsAssumption, ListsInv, NEW w \in Users, NEW e \in Echoes, Echo(w, e),
         NEW new, SetAgain(w, new), Again(w, new)
  PROVE  Kept
<1>0. TypeOK /\ ConnOwn /\ NotListed /\ ListenerHere /\ TypeOK'
  BY EchoTyped DEF ListsInv
<1>1. UNCHANGED <<loaded, conn, listens, list, pending, replays, asks, owes, profile, told,
                  unsure, inputs>>
  BY DEF SetAgain, clients
<1>t. /\ objects \in Seq(Objects) /\ loaded \in [Users -> 0..Len(objects)]
      /\ \A z \in Users : loaded[z] # 0 => objects[loaded[z]].user = z
      /\ \A i \in listens : i \in Users /\ conn[i] # 0
      /\ conn \in [Users -> 0..Len(objects)]
  BY <1>0, Typed
<1>2. \A k \in 1..Len(objects) :
        /\ objects'[k].user = objects[k].user /\ objects'[k].where = objects[k].where
        /\ k # loaded[w] => objects'[k] = objects[k]
  <2>1. CASE loaded[w] = 0
    BY <2>1 DEF SetAgain
  <2>2. CASE loaded[w] # 0
    <3>1. objects' = [objects EXCEPT ![loaded[w]] = new]
      BY <2>2 DEF SetAgain
    <3>2. loaded[w] \in 1..Len(objects) /\ objects[loaded[w]].user = w
      BY <1>t, <2>2
    <3>3. new.user = w /\ new.where = objects[loaded[w]].where
      BY <2>2 DEF Again
    <3>4. \A k \in 1..Len(objects) : objects'[k] = IF k = loaded[w] THEN new ELSE objects[k]
      BY <1>t, <3>1
    <3> QED
      BY <3>2, <3>3, <3>4
  <2> QED
    BY <2>1, <2>2
<1>n. loaded[w] # 0 => objects'[loaded[w]] = new
  <2>1. loaded[w] # 0 => objects' = [objects EXCEPT ![loaded[w]] = new]
    BY DEF SetAgain
  <2> QED
    BY <1>t, <2>1
<1>3. \A u \in Users : loaded[u] # 0 => loaded[u] \in 1..Len(objects)
  BY <1>t
<1>4. ASSUME NEW u \in Users, u \notin unheard'
      PROVE  /\ u \notin unheard
             /\ loaded[u] # 0 => /\ objects'[loaded[u]].nick = objects[loaded[u]].nick
                                 /\ objects'[loaded[u]].inv = objects[loaded[u]].inv
  <2>1. u \notin unheard
    BY <1>4 DEF SetAgain
  <2>2. CASE u = w
    BY <1>4, <1>n, <2>1, <2>2 DEF SetAgain
  <2>3. CASE u # w /\ loaded[u] # 0
    <3>1. loaded[u] # loaded[w]
      BY <1>t, <2>3
    <3> QED
      BY <1>2, <1>3, <2>1, <2>3, <3>1
  <2> QED
    BY <2>1, <2>2, <2>3
<1>9. ASSUME NEW i \in Users, i \notin Behind'
      PROVE  /\ i \notin Behind
             /\ loaded[i] # 0 => objects'[loaded[i]].hides = objects[loaded[i]].hides
  <2>1. i \notin Behind
    BY <1>1, <1>9 DEF SetAgain, Behind
  <2>2. CASE i = w
    BY <1>1, <1>9, <1>n, <2>1, <2>2 DEF SetAgain, Behind
  <2>3. CASE i # w /\ loaded[i] # 0
    <3>1. loaded[i] # loaded[w]
      BY <1>t, <2>3
    <3> QED
      BY <1>2, <1>3, <2>1, <2>3, <3>1
  <2> QED
    BY <2>1, <2>2, <2>3
<1>5. \A u \in Users : Present(u)' <=> Present(u)
  BY <1>1, <1>2, <1>3 DEF Present
<1>6. NotListed'
  BY <1>0, <1>1, <1>5 DEF NotListed, BackSoon
<1>7. ListenerHere' /\ ConnOwn'
  <2>1. \A i \in Users : conn[i] # 0 => conn[i] \in 1..Len(objects)
    BY <1>t
  <2>2. ConnOwn'
    BY <1>0, <1>1, <1>2, <2>1 DEF ConnOwn
  <2>3. ListenerHere'
    BY <1>0, <1>1, <1>2, <1>t, <2>1 DEF ListenerHere
  <2> QED
    BY <2>2, <2>3
<1>8. ASSUME NEW i \in listens, NEW u \in Users
      PROVE  PairInv(i, u)'
  <2>1. PairInv(i, u) /\ i \in Users
    BY <1>t DEF ListsInv
  <2>2. ToldPair(i, u)'
    BY <1>1, <2>1 DEF PairInv, ToldPair, Tells
  <2>3. CASE u \in unheard'
    BY <2>2, <2>3 DEF PairInv, EntryPair, VisiblePair, Known
  <2>4. CASE u \notin unheard'
    <3>1. loaded[u] # 0 => /\ objects'[loaded[u]].nick = objects[loaded[u]].nick
                           /\ objects'[loaded[u]].where = objects[loaded[u]].where
                           /\ objects'[loaded[u]].inv = objects[loaded[u]].inv
      BY <1>2, <1>3, <1>4, <2>4
    <3>2. loaded'[i] = conn[i] =>
            \/ i \in Behind'
            \/ loaded[i] = conn[i] /\ objects'[conn[i]].hides = objects[conn[i]].hides
      BY <1>1, <1>9, <1>t, <2>1
    <3>4. (i \in Behind => i \in Behind') /\ (u \in unheard => u \in unheard')
      BY <1>4, <1>9, <2>1, <2>4
    <3>3. EntryPair(i, u)' /\ VisiblePair(i, u)'
      BY <1>0, <1>1, <2>1, <3>1, <3>2, <3>4, ListSame DEF PairInv
    <3> QED
      BY <2>2, <3>3 DEF PairInv
  <2> QED
    BY <2>3, <2>4
<1> QED
  BY <1>1, <1>6, <1>7, <1>8 DEF Kept

LEMMA SaveKeeps ==
  ASSUME ListsInv, NEW w \in Users, NEW on \in BOOLEAN, SaveMode(w, on)
  PROVE  Kept
<1>1. UNCHANGED <<objects, loaded, conn, listens, list, pending, replays, asks, owes, told,
                  unsure, unheard, outdated, inputs>>
  BY DEF SaveMode, users, clients, history
<1>2. ConnOwn' /\ NotListed' /\ ListenerHere'
  BY <1>1 DEF ListsInv, ConnOwn, NotListed, ListenerHere, BackSoon, Present
<1>3. ASSUME NEW i \in listens, NEW u \in Users
      PROVE  PairInv(i, u)'
  <2>1. PairInv(i, u)
    BY DEF ListsInv
  <2> QED
    BY <1>1, <2>1 DEF PairInv, ToldPair, EntryPair, VisiblePair, Known, Tells, Present, CanSee,
                      Behind
<1> QED
  BY <1>1, <1>2, <1>3 DEF Kept

LEMMA FlushKeeps ==
  ASSUME ListsAssumption, ListsInv, NEW w \in Users, HandleFlush(w)
  PROVE  Kept
<1>0. TypeOK /\ ConnOwn /\ NotListed /\ ListenerHere /\ TypeOK'
  BY FlushTyped DEF ListsInv
<1>1. UNCHANGED <<objects, conn, listens, list, pending, replays, asks, owes, echoes,
                  profile, told, unsure, unheard, outdated>>
  BY DEF HandleFlush, clients, coming, history
<1>2. loaded'[w] = 0 /\ \A u \in Users \ {w} : loaded'[u] = loaded[u]
  BY <1>0, Typed DEF HandleFlush
<1>3. \A i \in listens : i \in Users /\ conn[i] # 0
  BY <1>0, Typed
<1>4. \A u \in Users : Present(u)' => Present(u)
  BY <1>1, <1>2 DEF Present
<1>5. NotListed'
  BY <1>0, <1>1, <1>4 DEF NotListed, BackSoon
<1>6. ListenerHere' /\ ConnOwn'
  BY <1>0, <1>1, <1>2, <1>3 DEF ListenerHere, ConnOwn
<1>7. ASSUME NEW i \in listens, NEW u \in Users
      PROVE  PairInv(i, u)'
  <2>1. PairInv(i, u) /\ i \in Users
    BY <1>3 DEF ListsInv
  <2>2. ToldPair(i, u)'
    <3>1. u = i /\ conn'[i] = loaded'[i] => conn[i] = loaded[i]
      BY <1>1, <1>2, <1>3
    <3> QED
      BY <1>1, <2>1, <3>1 DEF PairInv, ToldPair, Tells
  <2>3. EntryPair(i, u)' /\ VisiblePair(i, u)'
    <3>1. CASE u = w
      <4>1. ~Present(u)'
        BY <1>2, <3>1 DEF Present
      <4>2. list[i][u] # None => list[i][u].object # 0
        BY <1>0, <2>1, ListedIs
      <4>3. Known(i, u)' => list'[i][u] = None
        BY <1>1, <1>2, <3>1, <4>2 DEF Known
      <4> QED
        BY <1>0, <2>1, <4>1, <4>3, GoneSame
    <3>2. CASE u # w
      <4>1. loaded'[i] = conn[i] => loaded[i] = conn[i]
        BY <1>2, <1>3
      <4> QED
        BY <1>0, <1>1, <1>2, <2>1, <3>2, <4>1, ListSame DEF PairInv, Behind
    <3> QED
      BY <3>1, <3>2
  <2> QED
    BY <2>2, <2>3 DEF PairInv
<1> QED
  BY <1>1, <1>5, <1>6, <1>7 DEF Kept

LEMMA CleanKeeps ==
  ASSUME ListsAssumption, ListsInv, CleanLocalClients
  PROVE  Kept
<1>0. TypeOK /\ ConnOwn /\ NotListed /\ ListenerHere /\ TypeOK'
  BY CleanTyped DEF ListsInv
<1>1. PICK w \in Users \ listens : /\ conn' = [conn EXCEPT ![w] = 0]
                                   /\ list' = [list EXCEPT ![w] = NoList]
  BY DEF CleanLocalClients
<1>2. /\ UNCHANGED <<objects, loaded, listens, pending, replays, asks, owes, echoes, profile,
                     told, unsure, unheard, outdated, inputs>>
      /\ replays = <<>>
  BY DEF CleanLocalClients, users, coming, history
<1>3. \A i \in Users \ {w} : conn'[i] = conn[i] /\ list'[i] = list[i]
  BY <1>0, <1>1, Typed
<1>4. conn'[w] = 0
  BY <1>0, <1>1, Typed
<1>5. NotListed'
  <2>1. \A u \in Users : Present(u)' <=> Present(u)
    BY <1>2 DEF Present
  <2>2. \A u \in Users : ~BackSoon(u)'
    BY <1>2 DEF BackSoon
  <2> QED
    BY <1>0, <1>2, <2>1, <2>2 DEF NotListed
<1>6. ListenerHere' /\ ConnOwn'
  BY <1>0, <1>1, <1>2, <1>3, <1>4, Typed DEF ListenerHere, ConnOwn
<1>7. ASSUME NEW i \in listens, NEW u \in Users
      PROVE  PairInv(i, u)'
  <2>1. PairInv(i, u) /\ conn'[i] = conn[i] /\ list'[i] = list[i]
    BY <1>0, <1>1, <1>3, Typed DEF ListsInv
  <2> QED
    BY <1>2, <2>1 DEF PairInv, ToldPair, EntryPair, VisiblePair, Known, Tells, Present, CanSee,
                      Behind
<1> QED
  BY <1>2, <1>5, <1>6, <1>7 DEF Kept

LEMMA KickKeeps ==
  ASSUME ListsAssumption, ListsInv, NEW w \in Users, HandleKick(w)
  PROVE  Kept
<1> DEFINE hear == IF Before(w).where = "here" THEN listens \ Browsers ELSE {}
<1>0. TypeOK /\ ConnOwn /\ NotListed /\ ListenerHere /\ TypeOK'
  BY KickTyped DEF ListsInv
<1>1. /\ loaded'[w] = 0
      /\ \A z \in Users \ {w} : /\ loaded'[z] = loaded[z]
                                /\ loaded[z] # 0 => objects'[loaded[z]] = objects[loaded[z]]
      /\ \A k \in 1..Len(objects) : k # loaded[w] => objects'[k] = objects[k]
  BY <1>0, KickIs
<1>2. UNCHANGED <<replays, asks, owes, echoes, profile, unheard, outdated>>
  BY DEF HandleKick, coming
<1>3. /\ listens' = listens \ {w} /\ conn' = [conn EXCEPT ![w] = 0]
      /\ list' = [i \in Users |->
           IF i = w THEN NoList
           ELSE IF i \in hear THEN [list[i] EXCEPT ![w] = None] ELSE list[i]]
      /\ told' = [i \in Users |->
           IF i = w THEN None
           ELSE IF i \in hear /\ told[i] # None THEN told[i] \ {<<w, Before(w).nick>>} ELSE told[i]]
      /\ unsure' = unsure \cup {<<i, w>> : i \in {j \in hear :
                      list[j][w] # None /\ list[j][w].nick # Before(w).nick}}
      /\ \A u \in Users : pending[u] # 0 => pending'[u] # 0
  BY <1>0, Typed DEF HandleKick, Before, Note
<1> HIDE DEF hear
<1>t. /\ conn \in [Users -> 0..Len(objects)] /\ \A i \in listens : i \in Users /\ conn[i] # 0
      /\ list \in [Users -> [Users -> {None} \cup Entries(Len(objects))]]
      /\ loaded \in [Users -> 0..Len(objects)] /\ Len(objects) \in Nat
  BY <1>0, Typed
<1>4. conn'[w] = 0 /\ \A i \in Users \ {w} : conn'[i] = conn[i]
  BY <1>3, <1>t
<1>5. ~Present(w)' /\ \A u \in Users \ {w} : Present(u)' <=> Present(u)
  BY <1>1 DEF Present
<1>6. NotListed'
  <2>1. \A u \in Users : BackSoon(u)' => BackSoon(u)
    BY <1>2 DEF BackSoon
  <2>2. \A u \in Users \ {w} : hear \subseteq listens /\ (u \notin listens => told'[u] = told[u])
    BY <1>3 DEF hear
  <2>3. told'[w] = None
    BY <1>3
  <2> QED
    BY <1>0, <1>3, <1>4, <1>5, <2>1, <2>2, <2>3, NotListedKept
<1>7. ListenerHere'
  <2> SUFFICES ASSUME NEW i \in listens', conn'[i] = loaded'[i]
               PROVE  objects'[loaded'[i]].where = "here"
    BY DEF ListenerHere
  <2>1. i \in listens /\ i # w /\ i \in Users /\ conn[i] # 0
    BY <1>3, <1>t
  <2> QED
    BY <1>0, <1>1, <1>4, <2>1 DEF ListenerHere
<1>8. ConnOwn'
  <2> SUFFICES ASSUME NEW i \in Users, conn'[i] # 0
               PROVE  objects'[conn'[i]].user = i
    BY DEF ConnOwn
  <2>1. i # w /\ conn'[i] = conn[i] /\ objects[conn[i]].user = i
    BY <1>0, <1>4 DEF ConnOwn
  <2>2. conn[i] # loaded[w]
    BY <1>0, <1>4, <2>1, Typed
  <2>3. objects'[conn[i]] = objects[conn[i]]
    BY <1>1, <1>t, <2>1, <2>2
  <2> QED
    BY <2>1, <2>3
<1>9. ASSUME NEW i \in listens', NEW u \in Users
      PROVE  PairInv(i, u)'
  <2>1. i \in listens /\ i # w /\ i \in Users /\ PairInv(i, u) /\ conn'[i] = conn[i]
    BY <1>3, <1>4, <1>t DEF ListsInv
  <2>2. /\ list'[i] = IF i \in hear THEN [list[i] EXCEPT ![w] = None] ELSE list[i]
        /\ told'[i] = IF i \in hear /\ told[i] # None
                      THEN told[i] \ {<<w, Before(w).nick>>} ELSE told[i]
    BY <1>3, <2>1
  <2>3. <<i, u>> \in unsure => <<i, u>> \in unsure'
    BY <1>3
  <2>4. told'[i] # None => told[i] # None
    BY <2>2
  <2>5. CASE u # w
    <3>1. list'[i][u] = list[i][u]
      BY <1>t, <2>1, <2>2, <2>5
    <3>2. Tells(i, u)' = Tells(i, u)
      BY <2>2, <2>5 DEF Tells
    <3>3. ToldPair(i, u)'
      BY <1>1, <2>1, <2>3, <2>4, <3>1, <3>2, ToldSame DEF PairInv
    <3>4. loaded'[i] = conn[i] =>
            loaded[i] = conn[i] /\ objects'[conn[i]].hides = objects[conn[i]].hides
      BY <1>1, <1>t, <2>1
    <3>5. EntryPair(i, u)' /\ VisiblePair(i, u)'
      BY <1>0, <1>1, <1>2, <1>3, <2>1, <2>3, <2>4, <2>5, <3>1, <3>4, ListSame DEF PairInv, Behind
    <3> QED
      BY <3>3, <3>5 DEF PairInv
  <2>6. CASE u = w /\ i \in hear
    <3>1. list'[i][w] = None
      BY <1>t, <2>1, <2>2, <2>6
    <3>2. EntryPair(i, u)' /\ VisiblePair(i, u)'
      BY <1>0, <1>5, <2>1, <2>6, <3>1, GoneSame
    <3>3. ToldPair(i, u)'
      <4> SUFFICES ASSUME told'[i] # None, <<i, w>> \notin unsure'
                   PROVE  Tells(i, w)' = {}
        BY <2>6, <3>1 DEF ToldPair
      <4>1. told[i] # None /\ told'[i] = told[i] \ {<<w, Before(w).nick>>}
        BY <2>2, <2>6
      <4>2. <<i, w>> \notin unsure /\ (list[i][w] # None => list[i][w].nick = Before(w).nick)
        BY <1>3, <2>6
      <4>3. Tells(i, w) = IF list[i][w] # None THEN {<<w, list[i][w].nick>>} ELSE {}
        BY <2>1, <2>6, <4>1, <4>2 DEF PairInv, ToldPair
      <4> QED
        BY <4>1, <4>2, <4>3 DEF Tells
    <3> QED
      BY <3>2, <3>3 DEF PairInv
  <2>7. CASE u = w /\ i \notin hear
    <3>1. list'[i] = list[i] /\ told'[i] = told[i]
      BY <2>2, <2>7
    <3>2. ToldPair(i, u)'
      <4>1. Tells(i, u)' = Tells(i, u)
        BY <3>1 DEF Tells
      <4> QED
        BY <2>1, <2>3, <2>7, <3>1, <4>1, ToldSame DEF PairInv
    <3>3. Known(i, u)' => list'[i][u] = None
      BY <1>0, <1>1, <2>1, <2>7, <3>1, ListedIs DEF Known
    <3>4. EntryPair(i, u)' /\ VisiblePair(i, u)'
      BY <1>0, <1>5, <2>1, <2>7, <3>3, GoneSame
    <3> QED
      BY <3>2, <3>4 DEF PairInv
  <2> QED
    BY <2>5, <2>6, <2>7
<1> QED
  BY <1>6, <1>7, <1>8, <1>9 DEF Kept

-----------------------------------------------------------------------------
(* The refresh *)

LEMMA RefreshKeeps ==
  ASSUME ListsAssumption, ListsInv, Refresh
  PROVE  Kept
<1>0. TypeOK /\ ConnOwn /\ NotListed /\ ListenerHere /\ TypeOK'
  BY RefreshTyped DEF ListsInv
<1>1. UNCHANGED <<objects, loaded, conn, listens, replays, asks, owes, echoes, profile,
                outdated, inputs>>
  BY RefreshIs
<1>t. /\ list \in [Users -> [Users -> {None} \cup Entries(Len(objects))]]
      /\ \A i \in listens : i \in Users /\ conn[i] # 0
      /\ pending \in [Users -> 0..Len(objects)]
      /\ objects' = objects
  BY <1>0, <1>1, Typed
<1>2. \A u \in Users : Present(u)' <=> Present(u)
  BY <1>1 DEF Present
<1>3. NotListed'
  <2>1. \A i \in Users : i \notin listens => told'[i] = told[i]
    BY RefreshIs
  <2> QED
    BY <1>0, <1>1, <1>2, <2>1 DEF NotListed, BackSoon
<1>4. ListenerHere' /\ ConnOwn'
  BY <1>0, <1>1 DEF ListenerHere, ConnOwn
<1>5. ASSUME NEW i \in listens, NEW u \in Users
      PROVE  PairInv(i, u)'
  <2>1. PairInv(i, u) /\ i \in Users
    BY <1>t DEF ListsInv
  <2>2. /\ list'[i] = [z \in Users |->
             IF z \in Removes(i) THEN None
             ELSE IF z \in Adds(i) THEN Entry(objects, pending[z])
             ELSE IF z \in Renames(i) THEN [list[i][z] EXCEPT !.nick = NotedNicks[z]]
             ELSE list[i][z]]
        /\ told'[i] = IF told[i] = None THEN told[i]
                      ELSE Shows(i, Removes(i), Renames(i), Adds(i), NotedNicks, NotedNicks)
    BY <2>1, RefreshIs
  <2>3. list'[i][u] = IF u \in Removes(i) THEN None
                      ELSE IF u \in Adds(i) THEN Entry(objects, pending[u])
                      ELSE IF u \in Renames(i) THEN [list[i][u] EXCEPT !.nick = NotedNicks[u]]
                      ELSE list[i][u]
    BY <2>2
  <2>4. /\ <<i, u>> \in unsure => <<i, u>> \in unsure'
        /\ u \in Doubts(i) => <<i, u>> \in unsure'
        /\ pending'[u] = 0
        /\ told'[i] # None => told[i] # None
    BY <2>1, <2>2, RefreshIs
  <2>5. u \notin unheard' => IF u \in Noted THEN loaded[u] \in {0, pending[u]} ELSE u \notin unheard
    BY RefreshIs
  <2> DEFINE lost  == {<<z, NotedNicks[z]>> : z \in Removes(i)}
                         \cup {<<z, list[i][z].nick>> : z \in Renames(i)}
             known == {z \in Renames(i) : <<z, list[i][z].nick>> \in told[i]}
  <2>6. told'[i] # None =>
          told'[i] = IF i \in Browsers
                     THEN {p \in told[i] : p[1] \notin Removes(i) \cup Renames(i)}
                            \cup {<<z, NotedNicks[z]>> : z \in Adds(i) \cup Renames(i)}
                     ELSE (told[i] \ lost) \cup {<<z, NotedNicks[z]>> : z \in Adds(i) \cup known}
    BY <2>2, <2>4, Zenon DEF Shows
  <2>7. \A z : /\ z \in Removes(i) <=> z \in Noted /\ list[i][z] # None /\ ~MaySee(i, z)
               /\ z \in Adds(i) <=> z \in Noted /\ list[i][z] = None /\ MaySee(i, z)
               /\ z \in Renames(i) <=> /\ z \in Noted /\ list[i][z] # None /\ Present(z)
                                       /\ list[i][z].nick # NotedNicks[z]
               /\ z \in Doubts(i) <=> /\ z \in Removes(i) /\ list[i][z].nick # NotedNicks[z]
                                      /\ i \in Browsers => Present(z)
    BY DEF Removes, Adds, Renames, Doubts, Sees
  <2>8. CASE u \notin Noted
    <3>1. list'[i][u] = list[i][u]
      BY <2>3, <2>7, <2>8
    <3>2. told'[i] # None => told[i] # None /\ Tells(i, u)' = Tells(i, u)
      <4> SUFFICES ASSUME told'[i] # None
                   PROVE  Tells(i, u)' = Tells(i, u)
        BY <2>4
      <4>1. u \notin Removes(i) /\ u \notin Renames(i) /\ u \notin Adds(i) /\ u \notin known
        BY <2>7, <2>8
      <4>2. CASE i \in Browsers
        BY <2>6, <4>1, <4>2 DEF Tells
      <4>3. CASE i \notin Browsers
        <5>1. \A p \in lost : p[1] # u
          BY <4>1
        <5>2. told'[i] = (told[i] \ lost) \cup {<<z, NotedNicks[z]>> : z \in Adds(i) \cup known}
          BY <2>6, <4>3
        <5> HIDE DEF lost, known
        <5> QED
          BY <4>1, <5>1, <5>2 DEF Tells
      <4> QED
        BY <4>2, <4>3
    <3>3. ToldPair(i, u)'
      BY <1>1, <2>1, <2>4, <3>1, <3>2, ToldSame DEF PairInv
    <3>4. pending[u] = 0 /\ (u \in unheard => u \in unheard')
      BY <2>5, <2>8 DEF Noted
    <3>5. EntryPair(i, u)' /\ VisiblePair(i, u)'
      BY <1>0, <1>1, <2>1, <2>4, <3>1, <3>4, ListSame DEF PairInv, Behind
    <3> QED
      BY <3>3, <3>5 DEF PairInv
  <2>9. CASE u \in Noted
    <3>n. NotedNicks[u] = objects[pending[u]].nick /\ pending[u] # 0
      BY <2>9 DEF NotedNicks, Noted
    <3>e. Entry(objects, pending[u]) # None
      <4>1. pending[u] \in 1..Len(objects')
        BY <1>t, <3>n, <1>0, Typed
      <4> QED
        BY <1>0, <1>t, <4>1, EntryIs
    <3>r. u \in Renames(i) =>
            LET new == [list[i][u] EXCEPT !.nick = NotedNicks[u]]
            IN  new # None /\ new.nick = NotedNicks[u] /\ new.object = list[i][u].object
      <4> SUFFICES ASSUME u \in Renames(i)
                   PROVE  LET new == [list[i][u] EXCEPT !.nick = NotedNicks[u]]
                          IN  new # None /\ new.nick = NotedNicks[u]
                              /\ new.object = list[i][u].object
        OBVIOUS
      <4> DEFINE new == [list[i][u] EXCEPT !.nick = NotedNicks[u]]
      <4>1. list[i][u] \in Entries(Len(objects)) /\ Len(objects) \in Nat
        BY <1>0, <1>t, <2>1, <2>7, Typed
      <4>2. NotedNicks[u] \in Nicks
        <5>1. pending[u] \in 1..Len(objects) /\ objects \in Seq(Objects)
          BY <1>0, <1>t, <3>n, <4>1, Typed
        <5>2. objects[pending[u]] \in Objects
          BY <5>1
        <5> QED
          BY <3>n, <5>2 DEF Objects
      <4>3. new \in [nick : Nicks, object : Nat]
        BY <4>1, <4>2 DEF Entries
      <4>4. new.nick = NotedNicks[u] /\ new.object = list[i][u].object
        BY <4>1 DEF Entries
      <4>5. new # None
        BY <4>3 DEF ListsAssumption
      <4> QED
        BY <4>4, <4>5
    <3>o. list[i][u] # None => list[i][u].object # 0
      BY <1>0, <2>1, ListedIs
    <3>5. /\ u \in Removes(i) => list[i][u] # None /\ list'[i][u] = None /\ u \notin Adds(i)
          /\ u \in Adds(i) => /\ list[i][u] = None /\ list'[i][u] # None /\ u \notin Renames(i)
                              /\ list'[i][u].nick = NotedNicks[u]
                              /\ list'[i][u].object = pending[u]
          /\ u \in Renames(i) /\ u \notin Removes(i) =>
               /\ list[i][u] # None /\ list'[i][u] # None
               /\ list'[i][u].nick = NotedNicks[u]
               /\ list'[i][u].object = list[i][u].object
          /\ u \notin Adds(i) /\ u \notin Removes(i) /\ u \notin Renames(i) =>
               list'[i][u] = list[i][u]
      <4>1. CASE u \in Removes(i)
        BY <2>3, <2>7, <4>1
      <4>2. CASE u \in Adds(i)
        <5>1. list'[i][u] = Entry(objects, pending[u])
          BY <2>3, <2>7, <4>2
        <5>2. list'[i][u].nick = NotedNicks[u] /\ list'[i][u].object = pending[u]
          BY <3>n, <5>1 DEF Entry
        <5> QED
          BY <2>7, <3>e, <4>2, <5>1, <5>2
      <4>3. CASE u \in Renames(i) /\ u \notin Removes(i)
        <5>1. list'[i][u] = [list[i][u] EXCEPT !.nick = NotedNicks[u]]
          BY <2>3, <2>7, <4>3
        <5> QED
          BY <2>7, <3>r, <4>3, <5>1
      <4>4. CASE u \notin Adds(i) /\ u \notin Removes(i) /\ u \notin Renames(i)
        BY <2>3, <4>4
      <4> QED
        BY <4>1, <4>2, <4>3, <4>4
    <3>1. ToldPair(i, u)'
      <4> SUFFICES ASSUME told'[i] # None, <<i, u>> \notin unsure',
                          u = i => conn'[i] = loaded'[i]
                   PROVE  Tells(i, u)' = IF list'[i][u] # None
                                         THEN {<<u, list'[i][u].nick>>} ELSE {}
        BY DEF ToldPair
      <4>1. Tells(i, u) = IF list[i][u] # None THEN {<<u, list[i][u].nick>>} ELSE {}
        BY <1>1, <2>1, <2>4 DEF PairInv, ToldPair
      <4>2. u \in Removes(i) => u \notin Renames(i)
                                /\ (i \in Browsers \/ list[i][u].nick = NotedNicks[u])
        BY <2>4, <2>7
      <4>3. CASE i \in Browsers
        <5>1. Tells(i, u)' = IF u \in Adds(i) \cup Renames(i) THEN {<<u, NotedNicks[u]>>}
                             ELSE IF u \in Removes(i) THEN {} ELSE Tells(i, u)
          BY <2>6, <2>7, <4>1, <4>3 DEF Tells
        <5> QED
          BY <3>5, <4>1, <4>2, <5>1
      <4>4. CASE i \notin Browsers
        <5>1. u \in Renames(i) => u \in known
          BY <2>7, <4>1 DEF Tells
        <5>2. Tells(i, u)' = IF u \in Adds(i) \cup Renames(i) THEN {<<u, NotedNicks[u]>>}
                             ELSE IF u \in Removes(i) THEN {} ELSE Tells(i, u)
          <6>1. \A p \in lost : p[1] = u =>
                  \/ u \in Removes(i) /\ p = <<u, NotedNicks[u]>>
                  \/ u \in Renames(i) /\ p = <<u, list[i][u].nick>>
            OBVIOUS
          <6>2. /\ u \in Removes(i) => <<u, NotedNicks[u]>> \in lost
                /\ u \in Renames(i) => <<u, list[i][u].nick>> \in lost
            OBVIOUS
          <6>3. told'[i] = (told[i] \ lost) \cup {<<z, NotedNicks[z]>> : z \in Adds(i) \cup known}
            BY <2>6, <4>4
          <6>4. u \in known <=> u \in Renames(i)
            BY <5>1
          <6> HIDE DEF lost, known
          <6>5. {p \in told'[i] : p[1] = u} =
                  {p \in told[i] : p[1] = u /\ p \notin lost}
                    \cup (IF u \in Adds(i) \cup Renames(i) THEN {<<u, NotedNicks[u]>>} ELSE {})
            BY <6>3, <6>4
          <6>6. {p \in told[i] : p[1] = u /\ p \notin lost} = Tells(i, u) \ lost
            BY DEF Tells
          <6>7. Tells(i, u) \ lost = IF u \in Adds(i) \cup Renames(i) \cup Removes(i) THEN {}
                                     ELSE Tells(i, u)
            <7>1. CASE u \in Adds(i)
              BY <3>5, <4>1, <7>1
            <7>2. CASE u \in Renames(i)
              BY <2>7, <4>1, <6>2, <7>2
            <7>3. CASE u \in Removes(i)
              BY <2>7, <4>1, <4>2, <4>4, <6>2, <7>3
            <7>4. CASE u \notin Adds(i) \cup Renames(i) \cup Removes(i)
              BY <6>1, <7>4 DEF Tells
            <7> QED
              BY <7>1, <7>2, <7>3, <7>4
          <6> QED
            BY <6>5, <6>6, <6>7 DEF Tells
        <5> QED
          BY <3>5, <4>1, <4>2, <5>2
      <4> QED
        BY <4>3, <4>4
    <3>2. Known(i, u)' => IF list'[i][u] # None THEN loaded[u] = pending[u]
                          ELSE loaded[u] \in {0, pending[u]}
      <4> SUFFICES ASSUME Known(i, u)'
                   PROVE  IF list'[i][u] # None THEN loaded[u] = pending[u]
                          ELSE loaded[u] \in {0, pending[u]}
        OBVIOUS
      <4>1. loaded[u] \in {0, pending[u]} /\ (list'[i][u] # None => list'[i][u].object = loaded[u])
        BY <1>1, <2>5, <2>9 DEF Known
      <4>2. list'[i][u] # None => list'[i][u].object # 0
        BY <3>5, <3>n, <3>o
      <4> QED
        BY <4>1, <4>2
    <3>3. EntryPair(i, u)'
      <4> SUFFICES ASSUME Known(i, u)', list'[i][u] # None
                   PROVE  Present(u) /\ list'[i][u].nick = objects[loaded[u]].nick
        BY <1>1, <1>2 DEF EntryPair
      <4>1. u \notin Removes(i)
        BY <3>5
      <4>2. u \in Adds(i) \/ (list[i][u] # None /\ MaySee(i, u))
        BY <2>7, <2>9, <3>5, <4>1
      <4>3. Present(u)
        BY <2>7, <4>2 DEF MaySee
      <4>4. list'[i][u].nick = NotedNicks[u]
        BY <2>7, <2>9, <3>5, <4>1, <4>2, <4>3
      <4> QED
        BY <3>2, <3>n, <4>3, <4>4
    <3>4. VisiblePair(i, u)'
      <4> SUFFICES ASSUME Known(i, u)', conn[i] = loaded[i]
                   PROVE  list'[i][u] # None <=> Present(u) /\ CanSee(objects, loaded[i], loaded[u])
        BY <1>1, <1>2 DEF VisiblePair
      <4>1. CASE loaded[u] = 0
        BY <3>2, <3>n, <4>1 DEF Present
      <4>2. CASE loaded[u] # 0
        <5>1. MaySee(i, u) <=> Present(u) /\ CanSee(objects, loaded[i], loaded[u])
          BY <3>2, <4>2 DEF MaySee
        <5>2. list'[i][u] # None <=> MaySee(i, u)
          BY <2>7, <2>9, <3>5
        <5> QED
          BY <5>1, <5>2
      <4> QED
        BY <4>1, <4>2
    <3> QED
      BY <3>1, <3>3, <3>4 DEF PairInv
  <2> QED
    BY <2>8, <2>9
<1> QED
  BY <1>1, <1>3, <1>4, <1>5 DEF Kept

-----------------------------------------------------------------------------
(* The theorem *)

LEMMA InitLists ==
  ASSUME ListsAssumption, Init
  PROVE  ListsInv
<1>1. TypeOK
  BY InitTyped
<1>2. listens = {} /\ told = [u \in Users |-> None] /\ conn = [u \in Users |-> 0]
  BY DEF Init
<1> QED
  BY <1>1, <1>2 DEF ListsInv, ConnOwn, NotListed, ListenerHere

LEMMA StutterKeeps ==
  ASSUME ListsInv, UNCHANGED vars
  PROVE  Kept
<1>1. UNCHANGED <<objects, loaded, conn, listens, list, pending, replays, asks, owes, echoes,
                  profile, told, unsure, unheard, outdated, inputs>>
  BY DEF vars, users, clients, coming, history
<1>2. ConnOwn' /\ NotListed' /\ ListenerHere'
  BY <1>1 DEF ListsInv, ConnOwn, NotListed, ListenerHere, BackSoon, Present
<1>3. ASSUME NEW i \in listens, NEW u \in Users
      PROVE  PairInv(i, u)'
  <2>1. PairInv(i, u)
    BY DEF ListsInv
  <2> QED
    BY <1>1, <2>1 DEF PairInv, ToldPair, EntryPair, VisiblePair, Known, Tells, Present, CanSee,
                      Behind
<1> QED
  BY <1>1, <1>2, <1>3 DEF Kept

LEMMA StepLists ==
  ASSUME ListsAssumption, ListsInv, [Next]_vars
  PROVE  ListsInv'
<1>1. ASSUME NEW u \in Users, NEW e \in Joins, HandleJoin(u, e) PROVE Kept
  BY <1>1, JoinKeeps
<1>2. ASSUME NEW u \in Users, NEW w \in {"away", "out"}, HandlePart(u, w) PROVE Kept
  BY <1>2, PartKeeps
<1>3. ASSUME NEW u \in Users, NEW k \in Nicks, HandleNick(u, k) PROVE Kept
  BY <1>3, NickKeeps
<1>4. ASSUME NEW u \in Users, NEW inv \in BOOLEAN, HandleStatus(u, inv) PROVE Kept
  BY <1>4, StatusKeeps
<1>5. ASSUME NEW u \in Users, HandleKick(u) \/ HandleFlush(u) \/ HandleMode(u) PROVE Kept
  BY <1>5, KickKeeps, FlushKeeps, ModeKeeps
<1>6. ASSUME NEW u \in Users, HandlePage(u) \/ HandleUpdateList(u) PROVE Kept
  BY <1>6, PageKeeps, UpdateListKeeps
<1>11. ASSUME NEW u \in Users, EchoStep(u) PROVE Kept
  BY <1>11, EchoKeeps, Zenon DEF EchoStep
<1>12. TypeOK
  BY DEF ListsInv
<1>13. ASSUME NEW u \in Users, NEW k \in Nicks, EchoNick(u, k) PROVE Kept
  BY <1>11, <1>12, <1>13, EchoIs, Zenon
<1>14. ASSUME NEW u \in Users, NEW b \in BOOLEAN, EchoStatus(u, b) \/ EchoMode(u, b) PROVE Kept
  BY <1>11, <1>12, <1>14, EchoIs, Zenon
<1>15. ASSUME NEW u \in Users, NEW b \in BOOLEAN, SaveMode(u, b) PROVE Kept
  BY <1>15, SaveKeeps
<1>7. ASSUME HandleReplay \/ CleanLocalClients \/ Refresh PROVE Kept
  BY <1>7, ReplayKeeps, CleanKeeps, RefreshKeeps
<1>8. ASSUME UNCHANGED vars PROVE Kept
  BY <1>8, StutterKeeps
<1>9. Kept
  BY <1>1, <1>2, <1>3, <1>4, <1>5, <1>6, <1>7, <1>8, <1>13, <1>14, <1>15
     DEF Next, UserEvents, LaterEvents
<1>10. TypeOK'
  BY StepTyped DEF ListsInv
<1> QED
  BY <1>9, <1>10 DEF Kept, ListsInv

(* The invariant says what the lists should: what a client shows is what    *)
(* its list says, and the list says who can be seen, and how he is called.  *)
LEMMA InvExact ==
  ASSUME ListsAssumption, ListsInv
  PROVE  ListsExact
<1> SUFFICES ASSUME \A u \in Users : pending[u] = 0, NEW i \in listens, NEW u \in Users,
                    Certain(i, u)
             PROVE  {p \in told[i] : p[1] = u} =
                      IF Present(u) /\ CanSee(objects, loaded[i], loaded[u])
                      THEN {<<u, objects[loaded[u]].nick>>}
                      ELSE {}
  BY DEF ListsExact
<1>1. PairInv(i, u)
  BY DEF ListsInv
<1>2. Known(i, u) /\ told[i] # None /\ i \notin Behind /\ conn[i] = loaded[i]
  BY DEF Certain, Known, Behind
<1>3. Tells(i, u) = IF list[i][u] # None THEN {<<u, list[i][u].nick>>} ELSE {}
  BY <1>1, <1>2 DEF PairInv, ToldPair, Known
<1>4. list[i][u] # None <=> Present(u) /\ CanSee(objects, loaded[i], loaded[u])
  BY <1>1, <1>2 DEF PairInv, VisiblePair
<1>5. list[i][u] # None => list[i][u].nick = objects[loaded[u]].nick
  BY <1>1, <1>2 DEF PairInv, EntryPair
<1> QED
  BY <1>3, <1>4, <1>5 DEF Tells

(* Whatever joins, leaves, nicks, statuses, modes, kicks, logins and        *)
(* replays came in whatever order: when nothing is noted any more, what the *)
(* client of a listener shows of a user is exactly whether he is in the     *)
(* room and visible to him, and under the nick he has, wherever the code    *)
(* can be certain of it (__update_contact_list_all and the lists it keeps). *)
THEOREM ListsAlwaysExact == Spec => []ListsExact
<1>1. Init => ListsInv
  BY InitLists, ListsAssumption
<1>2. ListsInv /\ [Next]_vars => ListsInv'
  BY StepLists, ListsAssumption
<1>3. ListsInv => ListsExact
  BY InvExact, ListsAssumption
<1> QED
  BY <1>1, <1>2, <1>3, PTL DEF Spec
===============================================================================
