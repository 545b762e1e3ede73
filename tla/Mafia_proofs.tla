----------------------------- MODULE Mafia_proofs ------------------------------
(***************************************************************************)
(* What holds of a game of Mafia for every number of players and every     *)
(* deal of the roles.                                                      *)
(***************************************************************************)
EXTENDS Mafia, FiniteSetTheorems, TLAPS

Players == UNION {DOMAIN role : role \in Casts}
AllFlags == {"game_started", "night", "morning", "day", "vote1", "vote_say", "vote2"}

(* What some players do: about another, how often, or yes or no.           *)
Plans  == UNION {[S -> Players] : S \in SUBSET Players}
Counts == UNION {[S -> 0..3] : S \in SUBSET Players}
Polls  == UNION {[S -> BOOLEAN] : S \in SUBSET Players}
Orders == UNION {[1..n -> Players] : n \in Nat}

Games ==
  [role : Casts \cup {Nobody}, mafs : Orders, main : SUBSET Players,
   flags : SUBSET AllFlags, marked : SUBSET Players, left : SUBSET Players,
   chnick : SUBSET Players, voice : SUBSET Players, order : Plans, kill : SUBSET Players,
   doced : SUBSET Players, valed : SUBSET Players, docSelf : Counts, votes1 : Plans,
   votes2 : Polls, accused : Players \cup {None}, young : BOOLEAN]

(* The function of nobody, and what a function becomes.                    *)
LEMMA NobodyIs ==
  /\ DOMAIN Nobody = {} /\ \A x : x \notin DOMAIN Nobody
  /\ Nobody \in Plans /\ Nobody \in Counts /\ Nobody \in Polls /\ Nobody \in Orders
<1>1. DOMAIN Nobody = {}
  BY DEF Nobody
<1>2. \A S : Nobody \in [{} -> S]
  BY <1>1 DEF Nobody
<1>3. 1..0 = {} /\ {} \in SUBSET Players /\ 0 \in Nat
  OBVIOUS
<1>4. Nobody \in Plans /\ Nobody \in Counts /\ Nobody \in Polls
  BY <1>2, <1>3 DEF Plans, Counts, Polls
<1>5. Nobody \in Orders
  BY <1>2, <1>3 DEF Orders
<1> QED
  BY <1>1, <1>4, <1>5

(* A function with one more entry.                                        *)
LEMMA PutIs ==
  ASSUME NEW f, NEW u, NEW z
  PROVE  /\ DOMAIN Put(f, u, z) = DOMAIN f \cup {u} /\ Put(f, u, z)[u] = z
         /\ \A p \in DOMAIN f : p # u => Put(f, u, z)[p] = f[p]
         /\ f \in Plans /\ u \in Players /\ z \in Players => Put(f, u, z) \in Plans
         /\ f \in Polls /\ u \in Players /\ z \in BOOLEAN => Put(f, u, z) \in Polls
<1>1. /\ DOMAIN Put(f, u, z) = DOMAIN f \cup {u} /\ Put(f, u, z)[u] = z
      /\ \A p \in DOMAIN f : p # u => Put(f, u, z)[p] = f[p]
  BY DEF Put
<1>2. ASSUME f \in Plans, u \in Players, z \in Players PROVE Put(f, u, z) \in Plans
  <2>1. PICK S \in SUBSET Players : f \in [S -> Players]
    BY <1>2 DEF Plans
  <2>2. Put(f, u, z) \in [S \cup {u} -> Players]
    BY <1>2, <2>1 DEF Put
  <2> QED
    BY <1>2, <2>2 DEF Plans
<1>3. ASSUME f \in Polls, u \in Players, z \in BOOLEAN PROVE Put(f, u, z) \in Polls
  <2>1. PICK S \in SUBSET Players : f \in [S -> BOOLEAN]
    BY <1>3 DEF Polls
  <2>2. Put(f, u, z) \in [S \cup {u} -> BOOLEAN]
    BY <1>3, <2>1 DEF Put
  <2> QED
    BY <1>3, <2>2 DEF Polls
<1> QED
  BY <1>1, <1>2, <1>3

(* What some players do is about players.                                 *)
LEMMA PlanIs ==
  ASSUME NEW f \in Plans
  PROVE  f \in [DOMAIN f -> Players] /\ DOMAIN f \subseteq Players
  BY DEF Plans

(* What begins the night.                                                  *)
LEMMA DoNightIs ==
  ASSUME NEW g \in Games
  PROVE  /\ DoNight(g) \in Games
         /\ DoNight(g).flags = (g.flags \ {"day"}) \cup {"night"}
         /\ DoNight(g).marked = g.marked \cup g.left
         /\ DoNight(g).order = Nobody /\ DoNight(g).votes1 = Nobody /\ DoNight(g).votes2 = Nobody
         /\ DoNight(g).kill = {} /\ DoNight(g).doced = {} /\ DoNight(g).valed = {}
         /\ DoNight(g).accused = None /\ DoNight(g).young = FALSE
         /\ DoNight(g).role = g.role /\ DoNight(g).mafs = g.mafs /\ DoNight(g).main = g.main
         /\ DoNight(g).left = g.left /\ DoNight(g).chnick = g.chnick
         /\ DoNight(g).voice = g.voice /\ DoNight(g).docSelf = g.docSelf
  BY NobodyIs DEF DoNight, RemoveLeft, Games, AllFlags

(* What begins the first vote.                                             *)
LEMMA DoVote1Is ==
  ASSUME NEW g \in Games
  PROVE  /\ DoVote1(g) \in Games
         /\ DoVote1(g).flags = (g.flags \ {"vote2", "vote_say"}) \cup {"vote1"}
         /\ DoVote1(g).votes1 = Nobody /\ DoVote1(g).votes2 = Nobody
         /\ DoVote1(g).accused = None
         /\ DoVote1(g).role = g.role /\ DoVote1(g).mafs = g.mafs /\ DoVote1(g).main = g.main
         /\ DoVote1(g).marked = g.marked
         /\ DoVote1(g).left = g.left /\ DoVote1(g).chnick = g.chnick
         /\ DoVote1(g).voice = g.voice /\ DoVote1(g).docSelf = g.docSelf
         /\ DoVote1(g).order = g.order /\ DoVote1(g).kill = g.kill
         /\ DoVote1(g).doced = g.doced /\ DoVote1(g).valed = g.valed
         /\ DoVote1(g).young = g.young
  BY NobodyIs DEF DoVote1, Games, AllFlags

(* What makes a head.                                                      *)
LEMMA CheckMainIs ==
  ASSUME NEW g \in Games
  PROVE  /\ CheckMain(g).role = g.role /\ CheckMain(g).mafs = g.mafs
         /\ CheckMain(g).flags = g.flags /\ CheckMain(g).marked = g.marked
         /\ CheckMain(g).left = g.left /\ CheckMain(g).chnick = g.chnick
         /\ CheckMain(g).voice = g.voice /\ CheckMain(g).docSelf = g.docSelf
         /\ CheckMain(g).order = g.order /\ CheckMain(g).kill = g.kill
         /\ CheckMain(g).doced = g.doced /\ CheckMain(g).valed = g.valed
         /\ CheckMain(g).votes1 = g.votes1 /\ CheckMain(g).votes2 = g.votes2
         /\ CheckMain(g).accused = g.accused /\ CheckMain(g).young = g.young
         /\ CheckMain(g).main = IF g.main \cap Living(g) # {} \/ Heirs(g) = {} THEN g.main
                                ELSE g.main \cup {g.mafs[Min(Heirs(g))]}
         /\ CheckMain(g).main \subseteq Players => CheckMain(g) \in Games
<1>1. CASE g.main \cap Living(g) # {} \/ Heirs(g) = {}
  BY <1>1 DEF CheckMain
<1>2. CASE ~(g.main \cap Living(g) # {} \/ Heirs(g) = {})
  <2> DEFINE m == g.main \cup {g.mafs[Min(Heirs(g))]}
  <2>1. CheckMain(g) = [g EXCEPT !.main = m]
    BY <1>2 DEF CheckMain
  <2> HIDE DEF m
  <2>2. [g EXCEPT !.main = m].main = m /\ (m \subseteq Players => [g EXCEPT !.main = m] \in Games)
    BY DEF Games
  <2> QED
    BY <1>2, <2>1, <2>2 DEF m, Games
<1> QED
  BY <1>1, <1>2

-----------------------------------------------------------------------------
(* What is known of a game in any phase: what it says of players is about   *)
(* its gamers, and no two living mafiosi are the head.                     *)

Known(g) ==
  /\ g.main \subseteq Gamers(g) /\ g.marked \subseteq Gamers(g)
  /\ g.left \subseteq Gamers(g) /\ g.chnick \subseteq Gamers(g) /\ g.voice \subseteq Gamers(g)
  /\ g.kill \subseteq Gamers(g) /\ g.doced \subseteq Gamers(g) /\ g.valed \subseteq Gamers(g)
  /\ \A u \in DOMAIN g.order : u \in Gamers(g) /\ g.order[u] \in Gamers(g)
  /\ \A u \in DOMAIN g.votes1 : u \in Gamers(g) /\ g.votes1[u] \in Gamers(g)
  /\ DOMAIN g.votes2 \subseteq Gamers(g)
  /\ DOMAIN g.docSelf = Gamers(g)
  /\ g.accused \in Gamers(g) \cup {None}

Heads(g) ==
  /\ \A p \in g.main : g.role[p] = "MAF"
  /\ \A p, q \in g.main \cap Living(g) : p = q
  /\ \A i \in DOMAIN g.mafs : g.mafs[i] \in Cast(g.role, "MAF")
  /\ \A p \in Cast(g.role, "MAF") : \E i \in DOMAIN g.mafs : g.mafs[i] = p

Base(g) == g \in Games /\ Known(g) /\ Heads(g)

(* The flags: a game that runs is in one phase, and a day in one vote; the  *)
(* flag of the second vote may stay for the night.                         *)
Phase(f) ==
  /\ \A flag \in f : "game_started" \in f
  /\ "game_started" \in f => "night" \in f \/ "morning" \in f \/ "day" \in f
  /\ ~("night" \in f /\ "morning" \in f)
  /\ "day" \in f =>
       /\ "night" \notin f /\ "morning" \notin f
       /\ "vote1" \in f \/ "vote_say" \in f \/ "vote2" \in f
       /\ ~("vote1" \in f /\ "vote_say" \in f) /\ ~("vote1" \in f /\ "vote2" \in f)
       /\ ~("vote_say" \in f /\ "vote2" \in f)
  /\ "vote1" \in f \/ "vote_say" \in f => "day" \in f

(* The orders of a night.  A DOC who sends himself has not done so three    *)
(* times before, and a MAF or MAN always kills.                            *)
Lone(g, r) == \A p, q \in LivingAs(g, r) : p = q
Targets(g, r) == {g.order[u] : u \in Ordered(g) \cap Cast(g.role, r)}

Nightly(g) ==
  /\ \A u \in Ordered(g) :
       /\ u \in Ordering(g) /\ g.order[u] \in Living(g)
       /\ g.order[u] = u => g.role[u] = "DOC" /\ g.docSelf[u] <= 2
       /\ g.role[u] \in {"MAF", "MAN"} => u \in g.kill
  /\ Lone(g, "DOC") => g.doced = Targets(g, "DOC")
  /\ Lone(g, "VAL") => g.valed = Targets(g, "VAL")

(* The votes of a day.                                                     *)
Daily(g) ==
  /\ ~Over(g)
  /\ \A u \in DOMAIN g.votes1 : g.votes1[u] \in Living(g)
  /\ LivingAs(g, "MAF") # {} => g.main \cap Living(g) # {}

(* The inductive invariant.                                                *)
Good(g) ==
  /\ Base(g)
  /\ Phase(g.flags)
  /\ Has(g, "night") \/ Has(g, "morning") => Nightly(g)
  /\ Has(g, "morning") => Ordering(g) \subseteq Ordered(g)
  /\ Has(g, "day") => Daily(g)
  /\ Has(g, "day") /\ (Has(g, "vote_say") \/ Has(g, "vote2")) => g.accused \in Living(g)

(* No game.                                                                *)
LEMMA NoGameGood == Good(NoGame)
<1>1. NoGame \in Games
  BY NobodyIs DEF Games, NoGame
<1>2. /\ Gamers(NoGame) = {} /\ NoGame.flags = {} /\ NoGame.role = Nobody
      /\ NoGame.mafs = Nobody
  BY NobodyIs DEF NoGame, Gamers, Nobody
<1>3. Known(NoGame)
  BY <1>2, NobodyIs DEF Known, NoGame
<1>4. Heads(NoGame)
  BY <1>2, NobodyIs DEF Heads, NoGame, Cast
<1>5. Phase(NoGame.flags)
  BY <1>2 DEF Phase
<1> QED
  BY <1>1, <1>2, <1>3, <1>4, <1>5 DEF Good, Base, Has

(* Whether a game is over hangs on the roles of the living.                *)
LEMMA OverSame ==
  ASSUME NEW g, NEW h, g.role = h.role, g.marked = h.marked
  PROVE  Over(g) <=> Over(h)
<1>1. \A r \in Roles : Count(g, r) = Count(h, r)
  BY DEF Count, LivingAs
<1>2. [r \in Roles |-> Count(g, r)] = [r \in Roles |-> Count(h, r)]
  BY <1>1
<1> QED
  BY <1>2 DEF Over

(* A set of numbers that is not empty has a least one.                     *)
LEMMA LeastNumber ==
  ASSUME NEW T \in SUBSET Nat, T # {}
  PROVE  \E m \in T : \A n \in T : m <= n
<1> DEFINE U == {0..n : n \in T}
<1>1. U \subseteq FiniteSubsetsOf(Nat)
  <2>1. ASSUME NEW n \in T PROVE 0..n \subseteq Nat /\ IsFiniteSet(0..n)
    BY FS_Interval
  <2> QED
    BY <2>1 DEF FiniteSubsetsOf
<1>2. U # {}
  OBVIOUS
<1>3. PICK u \in U : \A v \in U : ~(<<v, u>> \in StrictSubsetOrdering(Nat))
  BY <1>1, <1>2, FS_StrictSubsetOrderingWellFounded, WFMin
<1>4. PICK m \in T : u = 0..m
  OBVIOUS
<1>5. ASSUME NEW n \in T PROVE m <= n
  <2>1. ASSUME n < m PROVE FALSE
    <3>1. 0..n \subseteq 0..m /\ m \in 0..m /\ m \notin 0..n
      BY <2>1
    <3>2. <<0..n, 0..m>> \in StrictSubsetOrdering(Nat)
      BY <3>1 DEF StrictSubsetOrdering
    <3> QED
      BY <1>3, <1>4, <3>2
  <2> QED
    BY <2>1
<1> QED
  BY <1>5

(* The head: after the check there is one when a mafioso lives.            *)
LEMMA HeadChosen ==
  ASSUME NEW g, Base(g)
  PROVE  /\ Base(CheckMain(g))
         /\ LivingAs(g, "MAF") # {} => CheckMain(g).main \cap Living(g) # {}
<1> DEFINE h == CheckMain(g)
<1>0. g \in Games /\ Known(g) /\ Heads(g) /\ Gamers(g) \subseteq Players
  <2>1. g.role \in Casts \/ g.role = Nobody
    BY DEF Base, Games
  <2> QED
    BY <2>1, NobodyIs DEF Base, Gamers, Players
<1>1. /\ Gamers(h) = Gamers(g) /\ Living(h) = Living(g)
      /\ Cast(h.role, "MAF") = Cast(g.role, "MAF")
  BY <1>0, CheckMainIs DEF Gamers, Living
<1>2. CASE g.main \cap Living(g) # {} \/ Heirs(g) = {}
  <2>1. h = g
    BY <1>2 DEF CheckMain
  <2>2. Heirs(g) = {} => LivingAs(g, "MAF") = {}
    BY <1>0 DEF Heirs, Heads, LivingAs, Living, Cast, Gamers
  <2> QED
    BY <1>2, <2>1, <2>2
<1>3. CASE ~(g.main \cap Living(g) # {} \/ Heirs(g) = {})
  <2>1. Heirs(g) \in SUBSET Nat
    <3>1. g.mafs \in Orders
      BY <1>0 DEF Games
    <3> QED
      BY <3>1 DEF Orders, Heirs
  <2>2. Min(Heirs(g)) \in Heirs(g)
    <3>1. \E m \in Heirs(g) : \A n \in Heirs(g) : m <= n
      BY <1>3, <2>1, LeastNumber
    <3> QED
      BY <3>1 DEF Min
  <2> DEFINE p == g.mafs[Min(Heirs(g))]
  <2>3. p \in Living(g) /\ p \in Cast(g.role, "MAF") /\ p \in Gamers(g)
    BY <1>0, <2>2 DEF Heirs, Heads, Living
  <2>4. h.main = g.main \cup {p}
    BY <1>0, <1>3, CheckMainIs
  <2> HIDE DEF p
  <2>5. h \in Games
    <3>1. g.main \subseteq Players
      BY <1>0 DEF Games
    <3>2. h.main \subseteq Players
      BY <1>0, <2>3, <2>4, <3>1
    <3> QED
      BY <1>0, <3>2, CheckMainIs
  <2>a. /\ h.role = g.role /\ h.mafs = g.mafs /\ h.marked = g.marked
        /\ h.left = g.left /\ h.chnick = g.chnick /\ h.voice = g.voice /\ h.docSelf = g.docSelf
        /\ h.order = g.order /\ h.kill = g.kill /\ h.doced = g.doced /\ h.valed = g.valed
        /\ h.votes1 = g.votes1 /\ h.votes2 = g.votes2 /\ h.accused = g.accused
    BY <1>0, CheckMainIs
  <2> HIDE DEF h
  <2>6. Known(h)
    BY <1>0, <1>1, <2>3, <2>4, <2>a DEF Known
  <2>7. Heads(h)
    <3>1. \A q \in h.main : h.role[q] = "MAF"
      BY <1>0, <2>3, <2>4, <2>a DEF Heads, Cast
    <3>2. \A q, r \in h.main \cap Living(h) : q = r
      BY <1>1, <1>3, <2>4
    <3> QED
      BY <1>0, <1>1, <2>a, <3>1, <3>2 DEF Heads
  <2> QED
    BY <1>1, <2>3, <2>4, <2>5, <2>6, <2>7 DEF Base, h
<1> QED
  BY <1>2, <1>3

(* What stays true when some players go out.                               *)
LEMMA Fewer ==
  ASSUME NEW g, NEW h, Base(g), h \in Games, h.role = g.role, h.mafs = g.mafs,
         h.main = g.main, g.marked \subseteq h.marked
  PROVE  Heads(h)
<1>1. Living(h) \subseteq Living(g)
  BY DEF Living, Gamers
<1> QED
  BY <1>1 DEF Base, Heads

(* The night that falls.                                                   *)
LEMMA GoodNight ==
  ASSUME NEW g, Base(g), Phase((g.flags \ {"day"}) \cup {"night"})
  PROVE  Good(DoNight(g))
<1> DEFINE h == DoNight(g)
<1>0. g \in Games /\ Known(g) /\ h \in Games /\ h.flags = (g.flags \ {"day"}) \cup {"night"}
  BY DoNightIs DEF Base
<1>1. Gamers(h) = Gamers(g)
  BY <1>0, DoNightIs DEF Gamers
<1>2. Known(h)
  <2>1. /\ h.main = g.main /\ h.marked = g.marked \cup g.left /\ h.left = g.left
        /\ h.chnick = g.chnick /\ h.voice = g.voice /\ h.docSelf = g.docSelf
        /\ h.order = Nobody /\ h.votes1 = Nobody /\ h.votes2 = Nobody
        /\ h.kill = {} /\ h.doced = {} /\ h.valed = {} /\ h.accused = None
    BY <1>0, DoNightIs
  <2> HIDE DEF h
  <2> QED
    BY <1>0, <1>1, <2>1, NobodyIs DEF Known
<1>3. Heads(h)
  BY <1>0, DoNightIs, Fewer
<1>4. Ordered(h) = {} /\ h.doced = {} /\ h.valed = {}
  BY <1>0, DoNightIs, NobodyIs DEF Ordered
<1>5. Nightly(h)
  BY <1>4 DEF Nightly, Targets
<1>6. Has(h, "night") /\ ~Has(h, "morning") /\ ~Has(h, "day") /\ Phase(h.flags)
  BY <1>0 DEF Has, Phase
<1> QED
  BY <1>0, <1>2, <1>3, <1>5, <1>6 DEF Good, Base

(* The first vote of a day that goes on.                                   *)
LEMMA GoodVote1 ==
  ASSUME NEW g, Base(g), ~Over(g),
         LivingAs(g, "MAF") # {} => g.main \cap Living(g) # {},
         Phase((g.flags \ {"vote2", "vote_say"}) \cup {"vote1"})
  PROVE  Good(DoVote1(g))
<1> DEFINE h == DoVote1(g)
<1>0. /\ g \in Games /\ Known(g) /\ h \in Games
      /\ h.flags = (g.flags \ {"vote2", "vote_say"}) \cup {"vote1"}
  BY DoVote1Is DEF Base
<1>1. Gamers(h) = Gamers(g) /\ Living(h) = Living(g) /\ LivingAs(h, "MAF") = LivingAs(g, "MAF")
  BY <1>0, DoVote1Is DEF Gamers, Living, LivingAs
<1>2. Known(h)
  BY <1>0, <1>1, DoVote1Is, NobodyIs DEF Known
<1>3. Heads(h)
  BY <1>0, DoVote1Is, Fewer
<1>4. Daily(h)
  <2>1. ~Over(h)
    BY <1>0, DoVote1Is, OverSame
  <2> QED
    BY <1>0, <1>1, <2>1, DoVote1Is, NobodyIs DEF Daily
<1>5. Has(h, "day") /\ ~Has(h, "morning") /\ ~Has(h, "night") /\ ~Has(h, "vote_say")
      /\ ~Has(h, "vote2") /\ Phase(h.flags)
  BY <1>0 DEF Has, Phase
<1> QED
  BY <1>0, <1>2, <1>3, <1>4, <1>5 DEF Good, Base

(* Other flags alone.                                                      *)
LEMMA FlagsIs ==
  ASSUME NEW g, Base(g), NEW f \in SUBSET AllFlags
  PROVE  LET h == [g EXCEPT !.flags = f] IN
         /\ Base(h) /\ h.flags = f /\ Living(h) = Living(g) /\ h.marked = g.marked
         /\ h.role = g.role /\ h.main = g.main /\ h.votes1 = g.votes1 /\ h.order = g.order
         /\ h.accused = g.accused /\ h.doced = g.doced /\ h.valed = g.valed
         /\ h.docSelf = g.docSelf /\ h.left = g.left /\ h.kill = g.kill
<1> DEFINE h == [g EXCEPT !.flags = f]
<1>0. g \in Games /\ Known(g) /\ Heads(g)
  BY DEF Base
<1>1. /\ h \in Games /\ h.flags = f /\ h.role = g.role /\ h.mafs = g.mafs /\ h.main = g.main
      /\ h.marked = g.marked /\ h.left = g.left /\ h.chnick = g.chnick /\ h.voice = g.voice
      /\ h.docSelf = g.docSelf /\ h.order = g.order /\ h.kill = g.kill /\ h.doced = g.doced
      /\ h.valed = g.valed /\ h.votes1 = g.votes1 /\ h.votes2 = g.votes2
      /\ h.accused = g.accused
  BY <1>0 DEF Games
<1> HIDE DEF h
<1>2. Gamers(h) = Gamers(g) /\ Living(h) = Living(g)
  BY <1>1 DEF Gamers, Living
<1>3. Known(h) /\ Heads(h)
  BY <1>0, <1>1, <1>2 DEF Known, Heads
<1>4. Base(h)
  BY <1>1, <1>3 DEF Base
<1> QED
  BY <1>1, <1>2, <1>4 DEF h

(* What two games that differ in neither roles nor deaths agree on.        *)
LEMMA SameLives ==
  ASSUME NEW g, NEW h, g.role = h.role, g.marked = h.marked
  PROVE  /\ Gamers(h) = Gamers(g) /\ Living(h) = Living(g)
         /\ \A r : LivingAs(h, r) = LivingAs(g, r)
         /\ g.main = h.main => Ordering(h) = Ordering(g)
  BY DEF Gamers, Living, LivingAs, Ordering

(* The deaths of the night.                                                *)
LEMMA DawnBase ==
  ASSUME NEW g, Good(g), Has(g, "night") \/ Has(g, "morning")
  PROVE  /\ Base(Dawn(g))
         /\ Dawn(g).flags = (g.flags \ {"night", "morning"}) \cup {"day"}
<1> DEFINE h == Dawn(g)
           out == Killed(g) \cup Failed(g)
<1>0. g \in Games /\ Known(g) /\ Nightly(g) /\ Base(g)
  BY DEF Good, Base
<1>1. Gamers(g) \subseteq Players
  <2>1. g.role \in Casts \/ g.role = Nobody
    BY <1>0 DEF Games
  <2> QED
    BY <2>1, NobodyIs DEF Gamers, Players
<1>2. out \subseteq Gamers(g)
  <2>1. Killed(g) \subseteq Gamers(g)
    BY <1>0 DEF Killed, Killers, Ordered, Known
  <2>2. Failed(g) \subseteq Gamers(g)
    BY DEF Failed, Ordering, Living
  <2> QED
    BY <2>1, <2>2
<1>3. CountSelf(g) \in [Gamers(g) -> 0..3] /\ CountSelf(g) \in Counts
  <2>1. g.docSelf \in [Gamers(g) -> 0..3]
    <3>1. g.docSelf \in Counts /\ DOMAIN g.docSelf = Gamers(g)
      BY <1>0 DEF Games, Known
    <3> QED
      BY <3>1 DEF Counts
  <2>2. ASSUME NEW p \in Gamers(g), p \in Ordered(g), g.order[p] = p
        PROVE  g.docSelf[p] + 1 \in 0..3
    BY <1>0, <2>1, <2>2 DEF Nightly
  <2>3. CountSelf(g) \in [Gamers(g) -> 0..3]
    BY <2>1, <2>2 DEF CountSelf
  <2>4. Gamers(g) \in SUBSET Players
    BY <1>1
  <2> QED
    BY <2>3, <2>4 DEF Counts
<1> HIDE DEF out
<1>4. /\ h \in Games /\ h.flags = (g.flags \ {"night", "morning"}) \cup {"day"}
      /\ h.role = g.role /\ h.mafs = g.mafs /\ h.main = g.main
      /\ h.marked = g.marked \cup out \cup g.left /\ h.left = g.left /\ h.chnick = g.chnick
      /\ h.voice = g.voice \ out /\ h.docSelf = CountSelf(g) /\ h.order = Nobody
      /\ h.kill = {} /\ h.doced = {} /\ h.valed = {} /\ h.votes1 = g.votes1
      /\ h.votes2 = g.votes2 /\ h.accused = g.accused
  <2> DEFINE d == [g EXCEPT
           !.flags   = (@ \ {"night", "morning"}) \cup {"day"},
           !.marked  = @ \cup out,
           !.voice   = @ \ out,
           !.docSelf = CountSelf(g),
           !.order = Nobody, !.kill = {}, !.doced = {}, !.valed = {},
           !.young   = TRUE]
  <2>1. h = RemoveLeft(d)
    BY DEF Dawn, out
  <2>2. out \subseteq Players
    BY <1>1, <1>2
  <2>3. /\ d \in Games /\ d.flags = (g.flags \ {"night", "morning"}) \cup {"day"}
        /\ d.role = g.role /\ d.mafs = g.mafs /\ d.main = g.main
        /\ d.marked = g.marked \cup out /\ d.left = g.left /\ d.chnick = g.chnick
        /\ d.voice = g.voice \ out /\ d.docSelf = CountSelf(g) /\ d.order = Nobody
        /\ d.kill = {} /\ d.doced = {} /\ d.valed = {} /\ d.votes1 = g.votes1
        /\ d.votes2 = g.votes2 /\ d.accused = g.accused
    BY <1>0, <1>3, <2>2, NobodyIs DEF Games, AllFlags
  <2> HIDE DEF d, h
  <2> QED
    BY <2>1, <2>3 DEF RemoveLeft, Games
<1> HIDE DEF h
<1>5. Gamers(h) = Gamers(g)
  BY <1>4 DEF Gamers
<1>6. Known(h)
  BY <1>0, <1>2, <1>3, <1>4, <1>5, NobodyIs DEF Known
<1>7. Heads(h)
  BY <1>0, <1>4, Fewer
<1> QED
  BY <1>4, <1>6, <1>7 DEF Base, h

(* A day begins, or the game ends.                                         *)
LEMMA DoDayGood ==
  ASSUME Good(game), Has(game, "night") \/ Has(game, "morning"), DoDay
  PROVE  Good(game')
<1> DEFINE d == Dawn(game)
           c == CheckMain(d)
<1>1. game' = IF Over(d) THEN NoGame ELSE DoVote1(c)
  BY DEF DoDay
<1>2. Base(d) /\ d.flags = (game.flags \ {"night", "morning"}) \cup {"day"} /\ d \in Games
  BY DawnBase DEF Base
<1> HIDE DEF d
<1>3. /\ Base(c) /\ (LivingAs(d, "MAF") # {} => c.main \cap Living(d) # {})
      /\ c.role = d.role /\ c.marked = d.marked /\ c.flags = d.flags
  BY <1>2, HeadChosen, CheckMainIs
<1> HIDE DEF c
<1>4. LivingAs(c, "MAF") # {} => c.main \cap Living(c) # {}
  BY <1>3, SameLives
<1>5. Phase((c.flags \ {"vote2", "vote_say"}) \cup {"vote1"})
  BY <1>2, <1>3 DEF Good, Phase, Has
<1>6. CASE ~Over(d)
  <2>1. ~Over(c)
    BY <1>3, <1>6, OverSame
  <2>2. Good(DoVote1(c))
    BY <1>3, <1>4, <1>5, <2>1, GoodVote1
  <2> QED
    BY <1>1, <1>6, <2>2
<1> QED
  BY <1>1, <1>6, NoGameGood

(* Other votes alone.                                                      *)
LEMMA BallotIs ==
  ASSUME NEW g, NEW h, Base(g), h \in Games, h.role = g.role, h.mafs = g.mafs,
         h.main = g.main, h.marked = g.marked, h.left = g.left, h.chnick = g.chnick,
         h.voice = g.voice, h.docSelf = g.docSelf, h.order = g.order, h.kill = g.kill,
         h.doced = g.doced, h.valed = g.valed,
         \A u \in DOMAIN h.votes1 : u \in Gamers(g) /\ h.votes1[u] \in Gamers(g),
         DOMAIN h.votes2 \subseteq Gamers(g), h.accused \in Gamers(g) \cup {None}
  PROVE  /\ Base(h) /\ Living(h) = Living(g) /\ Gamers(h) = Gamers(g)
         /\ LivingAs(h, "MAF") = LivingAs(g, "MAF") /\ (Over(h) <=> Over(g))
<1>1. Gamers(h) = Gamers(g) /\ Living(h) = Living(g) /\ LivingAs(h, "MAF") = LivingAs(g, "MAF")
  BY SameLives
<1>2. Over(h) <=> Over(g)
  BY OverSame
<1>3. Known(h)
  BY <1>1 DEF Known, Base
<1>4. Heads(h)
  BY <1>1 DEF Heads, Base
<1> QED
  BY <1>1, <1>2, <1>3, <1>4 DEF Base

(* The end of the first vote.  Who leads has votes, and so is alive.       *)
LEMMA EndVote1Good ==
  ASSUME NEW g, Good(g), Has(g, "day"), Has(g, "vote1")
  PROVE  Good(EndVote1(g)) /\ EndVote1(g).role = g.role
<1> DEFINE ended == [g EXCEPT !.flags = @ \ {"vote1"}]
<1>0. g \in Games /\ Known(g) /\ Base(g) /\ Daily(g) /\ Phase(g.flags)
  BY DEF Good, Base
<1>1. /\ Base(ended) /\ ended \in Games /\ ended.flags = g.flags \ {"vote1"}
      /\ ended.role = g.role
  <2>1. g.flags \ {"vote1"} \in SUBSET AllFlags
    BY <1>0 DEF Games
  <2> QED
    BY <1>0, <2>1, FlagsIs DEF Base
<1>2. CASE Cardinality(Leaders(g)) = 1
  <2> DEFINE a == CHOOSE z \in Leaders(g) : TRUE
             f == (g.flags \ {"vote1"}) \cup {"vote_say"}
             h == [ended EXCEPT !.flags = @ \cup {"vote_say"}, !.votes1 = Nobody, !.accused = a]
  <2>1. EndVote1(g) = h
    BY <1>2 DEF EndVote1
  <2>2. Leaders(g) # {}
    BY <1>2, FS_EmptySet
  <2>3. a \in Leaders(g)
    BY <2>2
  <2>4. a \in Living(g) /\ a \in Gamers(g)
    <3>1. Leaders(g) \subseteq {g.votes1[u] : u \in DOMAIN g.votes1}
      BY DEF Leaders
    <3> QED
      BY <1>0, <2>3, <3>1 DEF Daily, Known
  <2>5. a \in Players
    <3>1. g.role \in Casts \/ g.role = Nobody
      BY <1>0 DEF Games
    <3> QED
      BY <2>4, <3>1, NobodyIs DEF Gamers, Players
  <2> HIDE DEF a
  <2>6. /\ h \in Games /\ h.flags = f /\ h.role = g.role /\ h.mafs = g.mafs /\ h.main = g.main
        /\ h.marked = g.marked /\ h.left = g.left /\ h.chnick = g.chnick /\ h.voice = g.voice
        /\ h.docSelf = g.docSelf /\ h.order = g.order /\ h.kill = g.kill /\ h.doced = g.doced
        /\ h.valed = g.valed /\ h.votes1 = Nobody /\ h.votes2 = g.votes2 /\ h.accused = a
    BY <1>0, <2>5, NobodyIs DEF Games, AllFlags
  <2> HIDE DEF h
  <2>7. /\ Base(h) /\ Living(h) = Living(g) /\ LivingAs(h, "MAF") = LivingAs(g, "MAF")
        /\ (Over(h) <=> Over(g))
    <3>1. DOMAIN h.votes2 \subseteq Gamers(g)
      BY <1>0, <2>6 DEF Known
    <3>2. \A u \in DOMAIN h.votes1 : u \in Gamers(g) /\ h.votes1[u] \in Gamers(g)
      BY <2>6, NobodyIs
    <3>3. h.accused \in Gamers(g) \cup {None}
      BY <2>4, <2>6
    <3> QED
      BY <1>0, <2>6, <3>1, <3>2, <3>3, BallotIs
  <2>8. Daily(h)
    BY <1>0, <2>6, <2>7, NobodyIs DEF Daily
  <2>9. Phase(h.flags) /\ ~Has(h, "night") /\ ~Has(h, "morning") /\ Has(h, "day")
    BY <1>0, <2>6 DEF Phase, Has
  <2>10. h.accused \in Living(h)
    BY <2>4, <2>6, <2>7
  <2> QED
    BY <2>1, <2>6, <2>7, <2>8, <2>9, <2>10 DEF Good
<1>3. CASE Cardinality(Leaders(g)) # 1
  <2>1. EndVote1(g) = DoNight(ended)
    BY <1>3 DEF EndVote1
  <2>2. Phase((ended.flags \ {"day"}) \cup {"night"})
    BY <1>0, <1>1 DEF Phase, Has
  <2> HIDE DEF ended
  <2>3. DoNight(ended).role = g.role
    BY <1>1, DoNightIs
  <2> QED
    BY <1>1, <2>1, <2>2, <2>3, GoodNight
<1> QED
  BY <1>2, <1>3

(* A vote for somebody alive.                                              *)
LEMMA ProcessDayGood ==
  ASSUME NEW g, Good(g), Has(g, "day"), NEW u \in Gamers(g), NEW z \in Gamers(g)
  PROVE  Good(ProcessDay(g, u, z)) /\ ProcessDay(g, u, z).role = g.role
<1> DEFINE h == [g EXCEPT !.votes1 = Put(@, u, z)]
<1>0. g \in Games /\ Known(g) /\ Base(g) /\ Daily(g) /\ Phase(g.flags)
  BY DEF Good, Base
<1>1. CASE ~Has(g, "vote1") \/ {u, z} \cap g.marked # {}
  BY <1>1 DEF ProcessDay
<1>2. CASE ~(~Has(g, "vote1") \/ {u, z} \cap g.marked # {})
  <2>1. ProcessDay(g, u, z) = IF Vote1Decided(h) THEN EndVote1(h) ELSE h
    BY <1>2 DEF ProcessDay
  <2>2. u \in Players /\ z \in Players
    <3>1. g.role \in Casts \/ g.role = Nobody
      BY <1>0 DEF Games
    <3> QED
      BY <3>1, NobodyIs DEF Gamers, Players
  <2>3. Put(g.votes1, u, z) \in Plans
    <3>1. g.votes1 \in Plans
      BY <1>0 DEF Games
    <3> QED
      BY <2>2, <3>1, PutIs
  <2>4. /\ h \in Games /\ h.flags = g.flags /\ h.role = g.role /\ h.mafs = g.mafs
        /\ h.main = g.main /\ h.marked = g.marked /\ h.left = g.left /\ h.chnick = g.chnick
        /\ h.voice = g.voice /\ h.docSelf = g.docSelf /\ h.order = g.order /\ h.kill = g.kill
        /\ h.doced = g.doced /\ h.valed = g.valed /\ h.votes1 = Put(g.votes1, u, z)
        /\ h.votes2 = g.votes2 /\ h.accused = g.accused
    BY <1>0, <2>3 DEF Games
  <2> HIDE DEF h
  <2>5. \A v \in DOMAIN h.votes1 :
          /\ v \in Gamers(g) /\ h.votes1[v] \in Gamers(g) /\ h.votes1[v] \in Living(g)
    <3>1. z \in Living(g)
      BY <1>2 DEF Living
    <3>2. \A v \in DOMAIN g.votes1 :
            v \in Gamers(g) /\ g.votes1[v] \in Gamers(g) /\ g.votes1[v] \in Living(g)
      BY <1>0 DEF Known, Daily
    <3>3. /\ DOMAIN h.votes1 = DOMAIN g.votes1 \cup {u} /\ h.votes1[u] = z
          /\ \A v \in DOMAIN g.votes1 : v # u => h.votes1[v] = g.votes1[v]
      <4> DEFINE w == Put(g.votes1, u, z)
      <4>1. /\ DOMAIN w = DOMAIN g.votes1 \cup {u} /\ w[u] = z
            /\ \A v \in DOMAIN g.votes1 : v # u => w[v] = g.votes1[v]
        BY DEF Put
      <4>2. h.votes1 = w
        BY <2>4
      <4> HIDE DEF w
      <4> QED
        BY <4>1, <4>2
    <3>4. ASSUME NEW v \in DOMAIN h.votes1
          PROVE  v \in Gamers(g) /\ h.votes1[v] \in Gamers(g) /\ h.votes1[v] \in Living(g)
      <4>1. CASE v = u
        BY <3>1, <3>3, <4>1
      <4>2. CASE v # u
        <5>1. v \in DOMAIN g.votes1 /\ h.votes1[v] = g.votes1[v]
          BY <3>3, <3>4, <4>2
        <5> QED
          BY <3>2, <5>1
      <4> QED
        BY <4>1, <4>2
    <3> QED
      BY <3>4
  <2>6. /\ Base(h) /\ Living(h) = Living(g) /\ LivingAs(h, "MAF") = LivingAs(g, "MAF")
        /\ (Over(h) <=> Over(g))
    <3>1. DOMAIN h.votes2 \subseteq Gamers(g) /\ h.accused \in Gamers(g) \cup {None}
      BY <1>0, <2>4 DEF Known
    <3> QED
      BY <1>0, <2>4, <2>5, <3>1, BallotIs
  <2>7. Daily(h)
    BY <1>0, <2>4, <2>5, <2>6 DEF Daily
  <2>8. Phase(h.flags) /\ ~Has(h, "night") /\ ~Has(h, "morning") /\ Has(h, "day")
        /\ Has(h, "vote1") /\ ~Has(h, "vote_say") /\ ~Has(h, "vote2")
    BY <1>0, <1>2, <2>4 DEF Phase, Has
  <2>9. Good(h)
    BY <2>6, <2>7, <2>8 DEF Good
  <2> QED
    BY <2>1, <2>4, <2>8, <2>9, EndVote1Good
<1> QED
  BY <1>1, <1>2

(* The accused dies, and the night falls or the game ends.                 *)
LEMMA LynchGood ==
  ASSUME NEW g, Good(g), Has(g, "day"), Has(g, "vote2")
  PROVE  /\ Good(Lynch(g)) /\ ~Has(Lynch(g), "day")
         /\ Lynch(g) # NoGame =>
              /\ Lynch(g).marked = g.marked \cup {g.accused} \cup g.left
              /\ "night" \in Lynch(g).flags /\ Lynch(g).votes2 = Nobody
<1> DEFINE h == [g EXCEPT !.flags = @ \ {"day", "vote2"}, !.marked = @ \cup {g.accused},
                          !.voice = @ \ {g.accused}]
           c == CheckMain(h)
<1>0. g \in Games /\ Known(g) /\ Base(g) /\ Phase(g.flags) /\ g.accused \in Gamers(g)
  BY DEF Good, Base, Living
<1>1. Lynch(g) = IF Over(h) THEN NoGame ELSE DoNight(c)
  BY DEF Lynch
<1>2. g.accused \in Players
  <2>1. g.role \in Casts \/ g.role = Nobody
    BY <1>0 DEF Games
  <2> QED
    BY <1>0, <2>1, NobodyIs DEF Gamers, Players
<1>3. /\ h \in Games /\ h.flags = g.flags \ {"day", "vote2"} /\ h.role = g.role
      /\ h.mafs = g.mafs /\ h.main = g.main /\ h.marked = g.marked \cup {g.accused}
      /\ h.left = g.left /\ h.chnick = g.chnick /\ h.voice = g.voice \ {g.accused}
      /\ h.docSelf = g.docSelf /\ h.order = g.order /\ h.kill = g.kill
      /\ h.doced = g.doced /\ h.valed = g.valed /\ h.votes1 = g.votes1
      /\ h.votes2 = g.votes2 /\ h.accused = g.accused
  BY <1>0, <1>2 DEF Games
<1> HIDE DEF h
<1>4. Gamers(h) = Gamers(g)
  BY <1>3 DEF Gamers
<1>5. Known(h)
  BY <1>0, <1>3, <1>4 DEF Known
<1>6. Heads(h)
  BY <1>0, <1>3, Fewer
<1>7. Base(h)
  BY <1>3, <1>5, <1>6 DEF Base
<1>8. Base(c) /\ c.flags = h.flags /\ c.marked = h.marked /\ c.left = h.left
  BY <1>3, <1>7, HeadChosen, CheckMainIs
<1> HIDE DEF c
<1>9. Phase((c.flags \ {"day"}) \cup {"night"})
  BY <1>0, <1>3, <1>8 DEF Phase, Has
<1>10. Good(DoNight(c))
  BY <1>8, <1>9, GoodNight
<1>11. /\ ~Has(DoNight(c), "day") /\ "night" \in DoNight(c).flags
       /\ DoNight(c).marked = g.marked \cup {g.accused} \cup g.left
       /\ DoNight(c).votes2 = Nobody
  <2>1. c \in Games
    BY <1>8 DEF Base
  <2>2. /\ DoNight(c).flags = (c.flags \ {"day"}) \cup {"night"}
        /\ DoNight(c).marked = c.marked \cup c.left /\ DoNight(c).votes2 = Nobody
    BY <2>1, DoNightIs
  <2> QED
    BY <1>3, <1>8, <2>2 DEF Has
<1>12. ~Has(NoGame, "day")
  BY DEF Has, NoGame
<1> QED
  BY <1>1, <1>10, <1>11, <1>12, NoGameGood

(* The end of the second vote, after which no day has one.                 *)
LEMMA EndVote2Good ==
  ASSUME NEW g, Good(g), Has(g, "day"), Has(g, "vote2")
  PROVE  Good(EndVote2(g)) /\ ~(Has(EndVote2(g), "day") /\ Has(EndVote2(g), "vote2"))
<1>0. g \in Games /\ Base(g) /\ Phase(g.flags) /\ Daily(g)
  BY DEF Good, Base
<1>1. Good(DoVote1(g)) /\ ~Has(DoVote1(g), "vote2")
  <2>1. Phase((g.flags \ {"vote2", "vote_say"}) \cup {"vote1"})
    BY <1>0 DEF Phase, Has
  <2>2. Good(DoVote1(g))
    BY <1>0, <2>1, GoodVote1 DEF Daily
  <2> QED
    BY <1>0, <2>2, DoVote1Is DEF Has
<1>2. Good(DoNight(g)) /\ ~Has(DoNight(g), "day")
  <2>1. Phase((g.flags \ {"day"}) \cup {"night"})
    BY <1>0 DEF Phase, Has
  <2>2. Good(DoNight(g))
    BY <1>0, <2>1, GoodNight
  <2>3. DoNight(g).flags = (g.flags \ {"day"}) \cup {"night"}
    BY <1>0, DoNightIs
  <2> QED
    BY <2>2, <2>3 DEF Has
<1>3. Good(Lynch(g)) /\ ~Has(Lynch(g), "day")
  BY LynchGood
<1> QED
  BY <1>1, <1>2, <1>3 DEF EndVote2

(* An answer in the second vote.                                           *)
LEMMA AnswerGood ==
  ASSUME NEW g, Good(g), Has(g, "day"), Has(g, "vote2"), NEW u \in Gamers(g),
         NEW answer \in BOOLEAN
  PROVE  LET h == [g EXCEPT !.votes2 = Put(@, u, answer)]
         IN  Good(h) /\ Has(h, "day") /\ Has(h, "vote2")
<1> DEFINE h == [g EXCEPT !.votes2 = Put(@, u, answer)]
<1>0. g \in Games /\ Known(g) /\ Base(g) /\ Daily(g) /\ Phase(g.flags)
  BY DEF Good, Base
<1>1. Put(g.votes2, u, answer) \in Polls
  <2>1. g.role \in Casts \/ g.role = Nobody
    BY <1>0 DEF Games
  <2>2. u \in Players
    BY <2>1, NobodyIs DEF Gamers, Players
  <2>3. g.votes2 \in Polls
    BY <1>0 DEF Games
  <2> QED
    BY <2>2, <2>3, PutIs
<1>2. /\ h \in Games /\ h.flags = g.flags /\ h.role = g.role /\ h.mafs = g.mafs
      /\ h.main = g.main /\ h.marked = g.marked /\ h.left = g.left /\ h.chnick = g.chnick
      /\ h.voice = g.voice /\ h.docSelf = g.docSelf /\ h.order = g.order /\ h.kill = g.kill
      /\ h.doced = g.doced /\ h.valed = g.valed /\ h.votes1 = g.votes1
      /\ h.votes2 = Put(g.votes2, u, answer) /\ h.accused = g.accused
  BY <1>0, <1>1 DEF Games
<1> HIDE DEF h
<1>3. DOMAIN h.votes2 \subseteq Gamers(g)
  <2>1. DOMAIN Put(g.votes2, u, answer) = DOMAIN g.votes2 \cup {u}
    BY DEF Put
  <2> QED
    BY <1>0, <1>2, <2>1 DEF Known
<1>4. /\ Base(h) /\ Living(h) = Living(g) /\ LivingAs(h, "MAF") = LivingAs(g, "MAF")
      /\ (Over(h) <=> Over(g))
  <2>1. h.accused \in Gamers(g) \cup {None}
    BY <1>0, <1>2 DEF Known
  <2>2. \A v \in DOMAIN h.votes1 : v \in Gamers(g) /\ h.votes1[v] \in Gamers(g)
    BY <1>0, <1>2 DEF Known
  <2> QED
    BY <1>0, <1>2, <1>3, <2>1, <2>2, BallotIs
<1>5. Daily(h)
  BY <1>0, <1>2, <1>4 DEF Daily
<1>6. Phase(h.flags) /\ ~Has(h, "night") /\ ~Has(h, "morning") /\ Has(h, "day")
      /\ Has(h, "vote2")
  BY <1>0, <1>2 DEF Phase, Has
<1>7. h.accused \in Living(h)
  BY <1>2, <1>4 DEF Good
<1>8. Good(h)
  BY <1>4, <1>5, <1>6, <1>7 DEF Good
<1> QED
  BY <1>6, <1>8 DEF h

(* ... and the end of the vote when it was the last that counts.            *)
LEMMA DoVote2Good ==
  ASSUME NEW g, Good(g), Has(g, "day"), Has(g, "vote2"), NEW u \in Gamers(g),
         NEW answer \in BOOLEAN
  PROVE  Good(DoVote2(g, u, answer))
<1> DEFINE h == [g EXCEPT !.votes2 = Put(@, u, answer)]
<1>1. DoVote2(g, u, answer) = IF Vote2Decided(h) THEN EndVote2(h) ELSE h
  BY DEF DoVote2
<1>2. Good(h) /\ Has(h, "day") /\ Has(h, "vote2")
  BY AnswerGood
<1> HIDE DEF h
<1> QED
  BY <1>1, <1>2, EndVote2Good

(* Other flags alone: what remains to be shown.                            *)
LEMMA FlagsGood ==
  ASSUME NEW g, Good(g), NEW f \in SUBSET AllFlags, Phase(f),
         "night" \in f <=> Has(g, "night"), "morning" \in f <=> Has(g, "morning"),
         "day" \in f <=> Has(g, "day"),
         "day" \in f /\ ("vote_say" \in f \/ "vote2" \in f) => Has(g, "vote_say") \/ Has(g, "vote2")
  PROVE  Good([g EXCEPT !.flags = f])
<1> DEFINE h == [g EXCEPT !.flags = f]
<1>0. Base(g)
  BY DEF Good
<1>1. /\ Base(h) /\ h.flags = f /\ Living(h) = Living(g) /\ h.marked = g.marked
      /\ h.role = g.role /\ h.main = g.main /\ h.votes1 = g.votes1 /\ h.order = g.order
      /\ h.accused = g.accused /\ h.doced = g.doced /\ h.valed = g.valed
      /\ h.docSelf = g.docSelf /\ h.left = g.left /\ h.kill = g.kill
  BY <1>0, FlagsIs
<1> HIDE DEF h
<1>2. /\ Gamers(h) = Gamers(g) /\ Ordering(h) = Ordering(g)
      /\ \A r : LivingAs(h, r) = LivingAs(g, r)
      /\ (Over(h) <=> Over(g))
  BY <1>1, SameLives, OverSame
<1>3. Nightly(g) => Nightly(h)
  BY <1>1, <1>2 DEF Nightly, Ordered, Targets, Lone
<1>4. Daily(g) => Daily(h)
  BY <1>1, <1>2 DEF Daily
<1>5. Ordering(g) \subseteq Ordered(g) => Ordering(h) \subseteq Ordered(h)
  BY <1>1, <1>2 DEF Ordered
<1>6. Good(h)
  BY <1>1, <1>3, <1>4, <1>5 DEF Good, Has
<1> QED
  BY <1>6 DEF h

(* An order of the night, and the morning when it was the last.            *)
LEMMA ProcessNightGood ==
  ASSUME NEW g, Good(g), Has(g, "night"), NEW u \in Gamers(g), NEW z \in Gamers(g),
         NEW dbl \in BOOLEAN
  PROVE  Good(ProcessNight(g, u, z, dbl))
<1> DEFINE h == TakeOrder(g, u, z, dbl)
           K == IF g.role[u] \in {"MAF", "MAN"} \/ (g.role[u] = "KAT" /\ dbl)
                THEN g.kill \cup {u} ELSE g.kill \ {u}
           D == IF g.role[u] = "DOC" THEN (g.doced \ Earlier(g, u)) \cup {z} ELSE g.doced
           V == IF g.role[u] = "VAL" THEN (g.valed \ Earlier(g, u)) \cup {z} ELSE g.valed
<1>0. /\ g \in Games /\ Known(g) /\ Heads(g) /\ Base(g) /\ Nightly(g) /\ Phase(g.flags)
      /\ ~Has(g, "morning") /\ ~Has(g, "day")
  BY DEF Good, Base, Phase, Has
<1>1. CASE Refused(g, u, z)
  BY <1>1 DEF ProcessNight
<1>2. CASE ~Refused(g, u, z)
  <2>1. /\ u \in Living(g) /\ z \in Living(g) /\ u \in Ordering(g)
        /\ u = z => g.role[u] = "DOC" /\ g.docSelf[u] <= 2
    <3>1. g.docSelf[u] \in 0..3
      <4>1. g.docSelf \in Counts /\ DOMAIN g.docSelf = Gamers(g)
        BY <1>0 DEF Games, Known
      <4> QED
        BY <4>1 DEF Counts
    <3> QED
      BY <1>2, <3>1 DEF Refused, Living
  <2>2. Gamers(g) \subseteq Players
    <3>1. g.role \in Casts \/ g.role = Nobody
      BY <1>0 DEF Games
    <3> QED
      BY <3>1, NobodyIs DEF Gamers, Players
  <2>3. Put(g.order, u, z) \in Plans
    <3>1. g.order \in Plans
      BY <1>0 DEF Games
    <3>2. u \in Players /\ z \in Players
      BY <2>2
    <3> QED
      BY <3>1, <3>2, PutIs
  <2>4. K \subseteq Gamers(g) /\ D \subseteq Gamers(g) /\ V \subseteq Gamers(g)
    BY <1>0 DEF Known
  <2>5. /\ (g.role[u] = "DOC" => D = (g.doced \ Earlier(g, u)) \cup {z})
        /\ (g.role[u] # "DOC" => D = g.doced)
        /\ (g.role[u] = "VAL" => V = (g.valed \ Earlier(g, u)) \cup {z})
        /\ (g.role[u] # "VAL" => V = g.valed)
        /\ (g.role[u] \in {"MAF", "MAN"} => u \in K)
        /\ \A v \in g.kill : v # u => v \in K
    OBVIOUS
  <2>6. h = [g EXCEPT !.order = Put(@, u, z), !.kill = K, !.doced = D, !.valed = V]
    BY DEF TakeOrder
  <2> HIDE DEF K, D, V, h
  <2>7. /\ h \in Games /\ h.flags = g.flags /\ h.role = g.role /\ h.mafs = g.mafs
        /\ h.main = g.main /\ h.marked = g.marked /\ h.left = g.left /\ h.chnick = g.chnick
        /\ h.voice = g.voice /\ h.docSelf = g.docSelf /\ h.order = Put(g.order, u, z)
        /\ h.kill = K /\ h.doced = D /\ h.valed = V /\ h.votes1 = g.votes1
        /\ h.votes2 = g.votes2 /\ h.accused = g.accused
    <3>1. K \in SUBSET Players /\ D \in SUBSET Players /\ V \in SUBSET Players
      BY <2>2, <2>4
    <3> QED
      BY <1>0, <2>3, <2>6, <3>1 DEF Games
  <2>8. /\ Gamers(h) = Gamers(g) /\ Living(h) = Living(g) /\ Ordering(h) = Ordering(g)
        /\ \A r : LivingAs(h, r) = LivingAs(g, r)
    BY <2>7, SameLives
  <2>9. ASSUME NEW v \in DOMAIN h.order
        PROVE  \/ v = u /\ h.order[v] = z
               \/ v \in DOMAIN g.order /\ h.order[v] = g.order[v]
    BY <2>7 DEF Put
  <2>10. Known(h)
    <3>1. \A v \in DOMAIN h.order : v \in Gamers(g) /\ h.order[v] \in Gamers(g)
      BY <1>0, <2>9 DEF Known
    <3> QED
      BY <1>0, <2>4, <2>7, <2>8, <3>1 DEF Known
  <2>11. Base(h)
    <3>1. Heads(h)
      BY <1>0, <2>7, Fewer
    <3> QED
      BY <2>7, <2>10, <3>1 DEF Base
  <2>12. Nightly(h)
    <3>1. ASSUME NEW v \in Ordered(h)
          PROVE  /\ v \in Ordering(h) /\ h.order[v] \in Living(h)
                 /\ h.order[v] = v => h.role[v] = "DOC" /\ h.docSelf[v] <= 2
                 /\ h.role[v] \in {"MAF", "MAN"} => v \in h.kill
      <4>1. CASE v = u
        BY <1>0, <2>1, <2>5, <2>7, <2>8, <2>9, <4>1 DEF Nightly, Ordered
      <4>2. CASE v # u
        <5>1. v \in Ordered(g) /\ h.order[v] = g.order[v]
          BY <2>9, <3>1, <4>2 DEF Ordered
        <5>2. v \in g.kill => v \in h.kill
          BY <2>5, <2>7, <4>2
        <5> QED
          BY <1>0, <2>7, <2>8, <5>1, <5>2 DEF Nightly
      <4> QED
        BY <4>1, <4>2
    <3>2. Ordered(g) \subseteq Living(g)
      BY <1>0 DEF Nightly, Ordering
    <3>3. ASSUME NEW r
          PROVE  /\ g.role[u] # r => Targets(h, r) = Targets(g, r)
                 /\ g.role[u] = r /\ Lone(g, r) =>
                      Targets(g, r) = Earlier(g, u) /\ Targets(h, r) = {z}
      <4>1. /\ Ordered(h) = Ordered(g) \cup {u} /\ h.order[u] = z
            /\ \A v \in Ordered(g) : v # u => h.order[v] = g.order[v]
        <5> DEFINE w == Put(g.order, u, z)
        <5>1. /\ DOMAIN w = DOMAIN g.order \cup {u} /\ w[u] = z
              /\ \A v \in DOMAIN g.order : v # u => w[v] = g.order[v]
          BY DEF Put
        <5> HIDE DEF w
        <5>2. h.order = w
          BY <2>7 DEF w
        <5> QED
          BY <5>1, <5>2 DEF Ordered
      <4>2. u \in DOMAIN g.role /\ h.role = g.role
        BY <2>7 DEF Gamers
      <4>3. ASSUME g.role[u] # r PROVE Targets(h, r) = Targets(g, r)
        <5>1. u \notin Cast(g.role, r)
          BY <4>3 DEF Cast
        <5>2. Ordered(h) \cap Cast(h.role, r) = Ordered(g) \cap Cast(g.role, r)
          BY <4>1, <4>2, <5>1
        <5>3. \A v \in Ordered(g) \cap Cast(g.role, r) : h.order[v] = g.order[v]
          BY <4>1, <5>1
        <5> QED
          BY <5>2, <5>3 DEF Targets
      <4>4. ASSUME g.role[u] = r, Lone(g, r)
            PROVE  Targets(g, r) = Earlier(g, u) /\ Targets(h, r) = {z}
        <5>1. u \in Cast(g.role, r) /\ u \in LivingAs(g, r)
          BY <2>1, <4>2, <4>4 DEF Cast, LivingAs, Living
        <5>2. \A v \in Ordered(g) \cap Cast(g.role, r) : v = u
          <6>1. ASSUME NEW v \in Ordered(g) \cap Cast(g.role, r) PROVE v \in LivingAs(g, r)
            BY <3>2, <6>1 DEF LivingAs, Living
          <6> QED
            BY <4>4, <5>1, <6>1 DEF Lone
        <5>3. Ordered(h) \cap Cast(h.role, r) = {u}
          BY <4>1, <4>2, <5>1, <5>2
        <5>4. Targets(h, r) = {z}
          BY <4>1, <5>3 DEF Targets
        <5>5. Targets(g, r) = Earlier(g, u)
          <6>1. CASE u \in Ordered(g)
            <7>1. Ordered(g) \cap Cast(g.role, r) = {u}
              BY <5>1, <5>2, <6>1
            <7> QED
              BY <6>1, <7>1 DEF Targets, Earlier
          <6>2. CASE u \notin Ordered(g)
            <7>1. Ordered(g) \cap Cast(g.role, r) = {}
              BY <5>2, <6>2
            <7> QED
              BY <6>2, <7>1 DEF Targets, Earlier
          <6> QED
            BY <6>1, <6>2
        <5> QED
          BY <5>4, <5>5
      <4> QED
        BY <4>3, <4>4
    <3>4. ASSUME Lone(h, "DOC") PROVE h.doced = Targets(h, "DOC")
      <4>1. Lone(g, "DOC") /\ g.doced = Targets(g, "DOC")
        BY <1>0, <2>8, <3>4 DEF Lone, Nightly
      <4> QED
        BY <2>5, <2>7, <3>3, <4>1
    <3>5. ASSUME Lone(h, "VAL") PROVE h.valed = Targets(h, "VAL")
      <4>1. Lone(g, "VAL") /\ g.valed = Targets(g, "VAL")
        BY <1>0, <2>8, <3>5 DEF Lone, Nightly
      <4> QED
        BY <2>5, <2>7, <3>3, <4>1
    <3> QED
      BY <3>1, <3>4, <3>5 DEF Nightly
  <2>13. Good(h)
    BY <1>0, <2>7, <2>11, <2>12 DEF Good, Has
  <2>14. ASSUME Ordering(h) \subseteq Ordered(h)
         PROVE  Good([h EXCEPT !.flags = (@ \ {"night"}) \cup {"morning"}])
    <3> DEFINE f == (h.flags \ {"night"}) \cup {"morning"}
               m == [h EXCEPT !.flags = f]
    <3>1. f \in SUBSET AllFlags /\ Phase(f)
      <4>1. h.flags \in SUBSET AllFlags
        BY <2>7 DEF Games
      <4>2. "morning" \in AllFlags
        BY DEF AllFlags
      <4>3. Phase(f)
        BY <1>0, <2>7 DEF Phase, Has
      <4> QED
        BY <4>1, <4>2, <4>3
    <3>2. "night" \notin f /\ "day" \notin f /\ "morning" \in f
      BY <1>0, <2>7 DEF Has
    <3> HIDE DEF f
    <3>3. /\ Base(m) /\ m.flags = f /\ Living(m) = Living(h) /\ m.marked = h.marked
          /\ m.role = h.role /\ m.main = h.main /\ m.votes1 = h.votes1 /\ m.order = h.order
          /\ m.accused = h.accused /\ m.doced = h.doced /\ m.valed = h.valed
          /\ m.docSelf = h.docSelf /\ m.left = h.left /\ m.kill = h.kill
      BY <2>11, <3>1, FlagsIs
    <3> HIDE DEF m
    <3>4. /\ Gamers(m) = Gamers(h) /\ Ordering(m) = Ordering(h)
          /\ \A r : LivingAs(m, r) = LivingAs(h, r)
      BY <3>3, SameLives
    <3>5. Nightly(m)
      BY <2>12, <3>3, <3>4 DEF Nightly, Ordered, Targets, Lone
    <3>6. Ordering(m) \subseteq Ordered(m)
      BY <2>14, <3>3, <3>4 DEF Ordered
    <3>7. Good(m)
      BY <3>1, <3>2, <3>3, <3>5, <3>6 DEF Good, Has
    <3> QED
      BY <3>7 DEF m, f
  <2> QED
    BY <1>2, <2>13, <2>14 DEF ProcessNight, h
<1> QED
  BY <1>1, <1>2

(* One message may end the day and be an order of the night.               *)
LEMMA MessageGood ==
  ASSUME NEW g, Good(g), NEW u \in Gamers(g), NEW z \in Gamers(g), NEW dbl \in BOOLEAN
  PROVE  Good(ProcessDayOrNight(g, u, z, dbl))
<1> DEFINE h == IF Has(g, "day") THEN ProcessDay(g, u, z) ELSE g
<1>1. Good(h) /\ Gamers(h) = Gamers(g)
  BY ProcessDayGood DEF Gamers
<1>2. ProcessDayOrNight(g, u, z, dbl) = IF Has(h, "night") THEN ProcessNight(h, u, z, dbl) ELSE h
  BY DEF ProcessDayOrNight
<1> HIDE DEF h
<1> QED
  BY <1>1, <1>2, ProcessNightGood

(* Who is away, who may speak and how old the day is decide nothing.       *)
LEMMA AwayGood ==
  ASSUME NEW g, NEW h, Good(g), h \in Games, h.role = g.role, h.mafs = g.mafs,
         h.main = g.main, h.flags = g.flags, h.marked = g.marked, h.order = g.order,
         h.kill = g.kill, h.doced = g.doced, h.valed = g.valed, h.docSelf = g.docSelf,
         h.votes1 = g.votes1, h.votes2 = g.votes2, h.accused = g.accused,
         h.left \subseteq Gamers(g), h.chnick \subseteq Gamers(g), h.voice \subseteq Gamers(g)
  PROVE  Good(h)
<1>0. Known(g) /\ Heads(g)
  BY DEF Good, Base
<1>1. /\ Gamers(h) = Gamers(g) /\ Living(h) = Living(g) /\ Ordering(h) = Ordering(g)
      /\ \A r : LivingAs(h, r) = LivingAs(g, r)
      /\ (Over(h) <=> Over(g))
  BY SameLives, OverSame
<1>2. Known(h)
  BY <1>0, <1>1 DEF Known
<1>3. Heads(h)
  BY <1>0, <1>1 DEF Heads
<1>4. Nightly(g) => Nightly(h)
  BY <1>1 DEF Nightly, Ordered, Targets, Lone
<1>5. Daily(g) => Daily(h)
  BY <1>1 DEF Daily
<1> QED
  BY <1>1, <1>2, <1>3, <1>4, <1>5 DEF Good, Base, Has, Ordered

(* The first night.  Every mafioso has a number, since there are as many    *)
(* numbers as mafiosi and no two have the same.                            *)
LEMMA InitGood ==
  ASSUME Init
  PROVE  Good(game)
<1>1. PICK role \in Casts :
        \E mafs \in SetToSeqs(Cast(role, "MAF")), gone \in BOOLEAN :
          game = [NoGame EXCEPT
               !.role = role, !.mafs = mafs,
               !.main = IF gone \/ mafs = <<>> THEN {} ELSE {mafs[1]},
               !.flags = {"game_started", "night"},
               !.voice = DOMAIN role,
               !.docSelf = [p \in DOMAIN role |-> 0]]
  BY DEF Init
<1> DEFINE S == Cast(role, "MAF")
           n == Cardinality(S)
<1>2. PICK mafs \in SetToSeqs(S), gone \in BOOLEAN :
          game = [NoGame EXCEPT
               !.role = role, !.mafs = mafs,
               !.main = IF gone \/ mafs = <<>> THEN {} ELSE {mafs[1]},
               !.flags = {"game_started", "night"},
               !.voice = DOMAIN role,
               !.docSelf = [p \in DOMAIN role |-> 0]]
  BY <1>1
<1> DEFINE main == IF gone \/ mafs = <<>> THEN {} ELSE {mafs[1]}
<1>3. IsFiniteSet(S) /\ n \in Nat /\ S \subseteq DOMAIN role /\ DOMAIN role \subseteq Players
  <2>1. IsFiniteSet(DOMAIN role)
    BY CastsAssumption
  <2>2. S \in SUBSET DOMAIN role
    BY DEF Cast
  <2>3. IsFiniteSet(S)
    BY <2>1, <2>2, FS_Subset
  <2> QED
    BY <2>2, <2>3, FS_CardinalityType DEF Players
<1>4. /\ mafs \in [1..n -> S] /\ \A i, j \in 1..n : i # j => mafs[i] # mafs[j]
  BY DEF SetToSeqs
<1>5. \A p \in S : \E i \in 1..n : mafs[i] = p
  <2>1. mafs \in Injection(1..n, S)
    BY <1>4 DEF Injection, IsInjective
  <2>2. Cardinality(1..n) = n
    BY <1>3, FS_Interval
  <2>3. mafs \in Surjection(1..n, S)
    BY <1>3, <2>1, <2>2, FS_Injection
  <2> QED
    BY <2>3 DEF Surjection
<1>6. main \subseteq S
  <2>1. mafs # <<>> => 1 \in 1..n
    <3>1. ASSUME n = 0 PROVE mafs = <<>>
      <4>1. mafs \in [{} -> S]
        BY <1>4, <3>1
      <4>2. Nobody \in [{} -> S]
        BY NobodyIs DEF Nobody
      <4> QED
        BY <4>1, <4>2 DEF Nobody
    <3> QED
      BY <1>3, <3>1
  <2> QED
    BY <1>4, <2>1
<1>7. \A p, q \in main : p = q
  OBVIOUS
<1>8. S \subseteq Players /\ main \subseteq Players
  BY <1>3, <1>6
<1>9. mafs \in Orders
  <2>1. mafs \in [1..n -> Players]
    BY <1>4, <1>8
  <2> QED
    BY <1>3, <2>1 DEF Orders
<1> DEFINE c == [p \in DOMAIN role |-> 0]
<1>10. c \in Counts /\ DOMAIN c = DOMAIN role
  <2>1. c \in [DOMAIN role -> 0..3]
    OBVIOUS
  <2> QED
    BY <1>3, <2>1 DEF Counts
<1> DEFINE f == {"game_started", "night"}
<1>11. f \in SUBSET AllFlags /\ Phase(f) /\ "night" \in f /\ "morning" \notin f /\ "day" \notin f
  BY DEF AllFlags, Phase
<1>12. game = [NoGame EXCEPT !.role = role, !.mafs = mafs, !.main = main, !.flags = f,
                             !.voice = DOMAIN role, !.docSelf = c]
  BY <1>2
<1> HIDE DEF S, n, main, f, c
<1>13. /\ game \in Games /\ game.role = role /\ game.mafs = mafs /\ game.main = main
       /\ game.flags = f /\ game.marked = {} /\ game.left = {} /\ game.chnick = {}
       /\ game.voice = DOMAIN role /\ game.order = Nobody /\ game.kill = {}
       /\ game.doced = {} /\ game.valed = {} /\ game.docSelf = c /\ game.votes1 = Nobody
       /\ game.votes2 = Nobody /\ game.accused = None /\ game.young = FALSE
  BY <1>3, <1>8, <1>9, <1>10, <1>11, <1>12, NobodyIs DEF Games, NoGame
<1>14. Gamers(game) = DOMAIN role
  BY <1>13 DEF Gamers
<1>15. Known(game)
  BY <1>3, <1>6, <1>10, <1>13, <1>14, NobodyIs DEF Known
<1>16. Heads(game)
  <2>1. \A p \in S : p \in DOMAIN role /\ role[p] = "MAF"
    BY DEF S, Cast
  <2>2. DOMAIN mafs = 1..n /\ \A i \in 1..n : mafs[i] \in S
    BY <1>4
  <2>3. Cast(game.role, "MAF") = S
    BY <1>13 DEF S
  <2> QED
    BY <1>5, <1>6, <1>7, <1>13, <2>1, <2>2, <2>3 DEF Heads
<1>17. Nightly(game)
  <2>1. Ordered(game) = {}
    BY <1>13, NobodyIs DEF Ordered
  <2> QED
    BY <1>13, <2>1 DEF Nightly, Targets
<1> QED
  BY <1>11, <1>13, <1>15, <1>16, <1>17 DEF Good, Base, Has

(* Every timeout keeps a game good.                                        *)
LEMMA TimeoutGood ==
  ASSUME Good(game), Timeout
  PROVE  Good(game')
<1>0. Base(game) /\ game \in Games /\ Phase(game.flags)
  BY DEF Good, Base
<1>1. ASSUME NightTimeout \/ MorningTimeout PROVE Good(game')
  BY <1>1, DoDayGood DEF NightTimeout, MorningTimeout
<1>2. ASSUME Vote1Timeout PROVE Good(game')
  BY <1>2, EndVote1Good DEF Vote1Timeout
<1>3. ASSUME VoteSayTimeout PROVE Good(game')
  <2> DEFINE f == (game.flags \ {"vote_say"}) \cup {"vote2"}
  <2>1. f \in SUBSET AllFlags
    <3>1. game.flags \in SUBSET AllFlags
      BY <1>0 DEF Games
    <3> QED
      BY <3>1 DEF AllFlags
  <2>2. /\ Phase(f) /\ ("night" \in f <=> Has(game, "night"))
        /\ ("morning" \in f <=> Has(game, "morning")) /\ ("day" \in f <=> Has(game, "day"))
        /\ Has(game, "vote_say")
    BY <1>0, <1>3 DEF Phase, Has, VoteSayTimeout
  <2>3. game' = [game EXCEPT !.flags = f]
    BY <1>3 DEF VoteSayTimeout
  <2> HIDE DEF f
  <2>4. Good([game EXCEPT !.flags = f])
    BY <2>1, <2>2, FlagsGood
  <2> QED
    BY <2>3, <2>4
<1>4. ASSUME Vote2Timeout PROVE Good(game')
  <2> DEFINE e == EndVote2(game)
             f == e.flags \ {"vote2"}
  <2>1. Good(e) /\ ~(Has(e, "day") /\ Has(e, "vote2"))
    BY <1>4, EndVote2Good DEF Vote2Timeout
  <2>2. game' = [e EXCEPT !.flags = f]
    BY <1>4 DEF Vote2Timeout
  <2> HIDE DEF e
  <2>3. e.flags \in SUBSET AllFlags /\ Phase(e.flags)
    BY <2>1 DEF Good, Base, Games
  <2>4. f \in SUBSET AllFlags
    BY <2>3
  <2>5. /\ Phase(f) /\ ("night" \in f <=> Has(e, "night"))
        /\ ("morning" \in f <=> Has(e, "morning")) /\ ("day" \in f <=> Has(e, "day"))
        /\ ("vote_say" \in f => Has(e, "vote_say")) /\ "vote2" \notin f
    BY <2>1, <2>3 DEF Phase, Has
  <2> HIDE DEF f
  <2>6. Good([e EXCEPT !.flags = f])
    BY <2>1, <2>4, <2>5, FlagsGood
  <2> QED
    BY <2>2, <2>6
<1> QED
  BY <1>1, <1>2, <1>3, <1>4 DEF Timeout

(* Every message, departure and return keeps a game good.                  *)
LEMMA RoomGood ==
  ASSUME Good(game), Room
  PROVE  Good(game')
<1>0. Known(game) /\ game \in Games /\ NoGame \in Games /\ Gamers(game) \subseteq Players
  <2>1. game \in Games
    BY DEF Good, Base
  <2>2. game.role \in Casts \/ game.role = Nobody
    BY <2>1 DEF Games
  <2> QED
    BY <2>1, <2>2, NobodyIs, NoGameGood DEF Good, Base, Gamers, Players
<1>1. ASSUME NEW u \in Gamers(game), NEW z \in Gamers(game), NEW dbl \in BOOLEAN,
             Message(u, z, dbl)
      PROVE  Good(game')
  BY <1>1, MessageGood DEF Message
<1>2. ASSUME NEW u \in Gamers(game), NEW answer \in BOOLEAN, Vote(u, answer)
      PROVE  Good(game')
  BY <1>2, DoVote2Good DEF Vote
<1>3. ASSUME NEW L \in SUBSET Gamers(game), NEW C \in SUBSET Gamers(game),
             NEW V \in SUBSET Gamers(game)
      PROVE  Good([game EXCEPT !.left = L, !.chnick = C, !.voice = V])
  <2> DEFINE h == [game EXCEPT !.left = L, !.chnick = C, !.voice = V]
  <2>1. L \subseteq Players /\ C \subseteq Players /\ V \subseteq Players
    BY <1>0
  <2>2. /\ h \in Games /\ h.flags = game.flags /\ h.role = game.role /\ h.mafs = game.mafs
        /\ h.main = game.main /\ h.marked = game.marked /\ h.left = L /\ h.chnick = C
        /\ h.voice = V /\ h.docSelf = game.docSelf /\ h.order = game.order
        /\ h.kill = game.kill /\ h.doced = game.doced /\ h.valed = game.valed
        /\ h.votes1 = game.votes1 /\ h.votes2 = game.votes2 /\ h.accused = game.accused
    BY <1>0, <2>1 DEF Games
  <2> HIDE DEF h
  <2>3. Good(h)
    BY <1>0, <2>2, AwayGood
  <2> QED
    BY <2>3 DEF h
<1>4. ASSUME NEW p \in Gamers(game), Leave(p) \/ Return(p) \/ ChangeNick(p)
      PROVE  Good(game')
  <2>1. game.left \subseteq Gamers(game) /\ game.chnick \subseteq Gamers(game)
        /\ game.voice \subseteq Gamers(game)
    BY <1>0 DEF Known
  <2>2. CASE Leave(p)
    <3>1. game' = [game EXCEPT !.left = @ \cup {p}, !.chnick = game.chnick, !.voice = game.voice]
      BY <1>0, <2>2 DEF Leave, Games
    <3> QED
      BY <1>3, <2>1, <3>1
  <2>3. CASE Return(p)
    <3>1. game' = [game EXCEPT !.left = @ \ {p}, !.chnick = game.chnick, !.voice = @ \cup {p}]
      BY <1>0, <2>3 DEF Return, Games
    <3> QED
      BY <1>3, <2>1, <3>1
  <2>4. CASE ChangeNick(p)
    <3>1. game' = [game EXCEPT !.left = @ \cup {p}, !.chnick = @ \cup {p}, !.voice = @ \ {p}]
      BY <2>4 DEF ChangeNick
    <3> QED
      BY <1>3, <2>1, <3>1
  <2> QED
    BY <1>4, <2>2, <2>3, <2>4
<1>5. ASSUME Halt PROVE Good(game')
  BY <1>5, NoGameGood DEF Halt
<1> QED
  BY <1>1, <1>2, <1>4, <1>5 DEF Room

(* Every step keeps a game good.                                           *)
LEMMA GoodStep ==
  ASSUME Good(game), [Next]_game
  PROVE  Good(game')
<1>1. CASE Timeout
  BY <1>1, TimeoutGood
<1>2. CASE Room
  BY <1>2, RoomGood
<1>3. CASE DayGrowsOld
  <2> DEFINE h == [game EXCEPT !.young = FALSE]
  <2>0. Known(game) /\ game \in Games
    BY DEF Good, Base
  <2>1. /\ h \in Games /\ h.flags = game.flags /\ h.role = game.role /\ h.mafs = game.mafs
        /\ h.main = game.main /\ h.marked = game.marked /\ h.left = game.left
        /\ h.chnick = game.chnick /\ h.voice = game.voice /\ h.docSelf = game.docSelf
        /\ h.order = game.order /\ h.kill = game.kill /\ h.doced = game.doced
        /\ h.valed = game.valed /\ h.votes1 = game.votes1 /\ h.votes2 = game.votes2
        /\ h.accused = game.accused
    BY <2>0 DEF Games
  <2>2. game' = h
    BY <1>3 DEF DayGrowsOld
  <2> HIDE DEF h
  <2>3. Good(h)
    BY <2>0, <2>1, AwayGood DEF Known
  <2> QED
    BY <2>2, <2>3
<1>4. CASE UNCHANGED game
  BY <1>4
<1> QED
  BY <1>1, <1>2, <1>3, <1>4 DEF Next

(* The invariant itself.                                                   *)
LEMMA AlwaysGood == Spec => []Good(game)
<1>1. Init => Good(game)
  BY InitGood
<1>2. Good(game) /\ [Next]_game => Good(game')
  BY GoodStep
<1>3. Good(game) /\ [Next]_game => Good(game)'
  BY <1>2
<1> QED
  BY <1>1, <1>3, PTL DEF Spec

-----------------------------------------------------------------------------
(* The fields of a game say of players of the game what they should, and    *)
(* no DOC heals himself more than three times in a row (process_night).     *)
THEOREM TypeCorrect == Spec => []TypeOK
<1>1. ASSUME Good(game) PROVE TypeOK
  <2>0. game \in Games /\ Known(game) /\ Heads(game)
    BY <1>1 DEF Good, Base
  <2>1. /\ game.role \in Casts \cup {Nobody} /\ game.flags \subseteq AllFlags
        /\ game.order \in Plans /\ game.votes1 \in Plans /\ game.votes2 \in Polls
        /\ game.docSelf \in Counts /\ game.young \in BOOLEAN
    BY <2>0 DEF Games
  <2>2. Range(game.mafs) \subseteq Gamers(game)
    BY <2>0 DEF Heads, Range, Cast, Gamers
  <2>3. \A set \in {game.main, Range(game.mafs), game.marked, game.left, game.chnick,
                    game.voice, game.kill, game.doced, game.valed} :
          set \subseteq Gamers(game)
    BY <2>0, <2>2 DEF Known
  <2>4. /\ game.order \in [DOMAIN game.order -> Gamers(game)]
        /\ DOMAIN game.order \subseteq Gamers(game)
    <3>1. game.order \in [DOMAIN game.order -> Players]
      BY <2>1 DEF Plans
    <3> QED
      BY <2>0, <3>1 DEF Known
  <2>5. /\ game.votes1 \in [DOMAIN game.votes1 -> Gamers(game)]
        /\ DOMAIN game.votes1 \subseteq Gamers(game)
    <3>1. game.votes1 \in [DOMAIN game.votes1 -> Players]
      BY <2>1 DEF Plans
    <3> QED
      BY <2>0, <3>1 DEF Known
  <2>6. \A f \in {game.order, game.votes1} :
          f \in [DOMAIN f -> Gamers(game)] /\ DOMAIN f \subseteq Gamers(game)
    BY <2>4, <2>5
  <2>7. /\ game.votes2 \in [DOMAIN game.votes2 -> BOOLEAN]
        /\ DOMAIN game.votes2 \subseteq Gamers(game)
    BY <2>0, <2>1 DEF Polls, Known
  <2>8. game.docSelf \in [Gamers(game) -> 0..3] /\ game.accused \in Gamers(game) \cup {None}
    <3>1. DOMAIN game.docSelf = Gamers(game)
      BY <2>0 DEF Known
    <3> QED
      BY <2>0, <2>1, <3>1 DEF Counts, Known
  <2> QED
    BY <2>1, <2>3, <2>6, <2>7, <2>8 DEF TypeOK, AllFlags
<1>2. []Good(game) => []TypeOK
  BY <1>1, PTL
<1> QED
  BY <1>2, AlwaysGood

(* A game that runs always waits for exactly one timeout: it cannot stand   *)
(* still, and never two of the bot's clocks run (process_game).             *)
THEOREM TimerAlwaysPending == Spec => []TimerPending
<1>1. ASSUME Good(game) PROVE TimerPending
  <2>0. Phase(game.flags)
    BY <1>1 DEF Good
  <2>1. ASSUME Has(game, "game_started")
        PROVE  Cardinality(game.flags \cap {"night", "morning", "day"}) = 1
    <3>1. \/ game.flags \cap {"night", "morning", "day"} = {"night"}
          \/ game.flags \cap {"night", "morning", "day"} = {"morning"}
          \/ game.flags \cap {"night", "morning", "day"} = {"day"}
      BY <2>0, <2>1 DEF Phase, Has
    <3> QED
      BY <3>1, FS_Singleton
  <2>2. ASSUME Has(game, "day")
        PROVE  Cardinality(game.flags \cap {"vote1", "vote_say", "vote2"}) = 1
    <3>1. \/ game.flags \cap {"vote1", "vote_say", "vote2"} = {"vote1"}
          \/ game.flags \cap {"vote1", "vote_say", "vote2"} = {"vote_say"}
          \/ game.flags \cap {"vote1", "vote_say", "vote2"} = {"vote2"}
      BY <2>0, <2>2 DEF Phase, Has
    <3> QED
      BY <3>1, FS_Singleton
  <2> QED
    BY <2>1, <2>2 DEF TimerPending
<1>2. []Good(game) => []TimerPending
  BY <1>1, PTL
<1> QED
  BY <1>2, AlwaysGood

(* By day the game is not decided, the accused is alive, and the living     *)
(* mafiosi have exactly one living head (process_for_end_game,              *)
(* check_for_main_maf).                                                     *)
THEOREM DaysSound == Spec => []DaySound
<1>1. ASSUME Good(game), Has(game, "day") PROVE DaySound
  <2>0. Base(game) /\ Heads(game) /\ Known(game) /\ Daily(game)
    BY <1>1 DEF Good, Base
  <2>1. ASSUME LivingAs(game, "MAF") # {}
        PROVE  Cardinality(game.main \cap LivingAs(game, "MAF")) = 1
    <3>1. PICK p : p \in game.main \cap Living(game)
      BY <2>0, <2>1 DEF Daily
    <3>2. game.main \cap LivingAs(game, "MAF") = game.main \cap Living(game)
      BY <2>0 DEF Heads, Known, LivingAs, Living, Cast, Gamers
    <3>3. game.main \cap LivingAs(game, "MAF") = {p}
      BY <2>0, <3>1, <3>2 DEF Heads
    <3> QED
      BY <3>3, FS_Singleton
  <2> QED
    BY <1>1, <2>0, <2>1 DEF Good, Daily, DaySound
<1>2. Good(game) => DaySound
  BY <1>1 DEF DaySound
<1>3. []Good(game) => []DaySound
  BY <1>2, PTL
<1> QED
  BY <1>3, AlwaysGood

(* At most one is alone.                                                   *)
LEMMA CountLone ==
  ASSUME NEW g \in Games, NEW r, Count(g, r) <= 1
  PROVE  Lone(g, r)
<1> DEFINE T == LivingAs(g, r)
<1>1. IsFiniteSet(T)
  <2>1. g.role \in Casts \/ g.role = Nobody
    BY DEF Games
  <2>2. IsFiniteSet(DOMAIN g.role)
    BY <2>1, CastsAssumption, NobodyIs, FS_EmptySet
  <2>3. T \in SUBSET DOMAIN g.role
    BY DEF LivingAs, Cast
  <2> QED
    BY <2>2, <2>3, FS_Subset
<1>2. Cardinality(T) <= 1
  BY DEF Count
<1> HIDE DEF T
<1>3. ASSUME NEW p \in T, NEW q \in T, p # q PROVE FALSE
  <2>1. IsFiniteSet({p}) /\ Cardinality({p}) = 1
    BY FS_Singleton
  <2>2. Cardinality({p} \cup {q}) = 2
    BY <1>3, <2>1, FS_AddElement
  <2>3. {p} \cup {q} \in SUBSET T
    OBVIOUS
  <2>4. Cardinality({p} \cup {q}) <= Cardinality(T) /\ Cardinality(T) \in Nat
    BY <1>1, <2>3, FS_Subset, FS_CardinalityType
  <2> QED
    BY <1>2, <2>2, <2>4
<1>4. \A p, q \in T : p = q
  BY <1>3
<1> QED
  BY <1>4 DEF Lone, T

(* The orders of a night are of living players about living players, of no  *)
(* mafioso but the head, the marks on their targets are those of the        *)
(* present orders, and in the morning nobody's is missing (process_night).  *)
THEOREM OrdersAlwaysCurrent == Spec => []OrdersCurrent
<1>1. ASSUME Good(game), Has(game, "night") \/ Has(game, "morning") PROVE OrdersCurrent
  <2>0. game \in Games /\ Nightly(game)
    BY <1>1 DEF Good, Base
  <2>1. Ordered(game) \subseteq Ordering(game)
    BY <2>0 DEF Nightly
  <2>2. \A u \in Ordered(game) :
          game.order[u] \in Living(game) /\ (game.order[u] = u => game.role[u] = "DOC")
    BY <2>0 DEF Nightly
  <2>3. Count(game, "DOC") <= 1 =>
          game.doced = {game.order[u] : u \in Ordered(game) \cap Cast(game.role, "DOC")}
    BY <2>0, CountLone DEF Nightly, Targets
  <2>4. Count(game, "VAL") <= 1 =>
          game.valed = {game.order[u] : u \in Ordered(game) \cap Cast(game.role, "VAL")}
    BY <2>0, CountLone DEF Nightly, Targets
  <2>5. Has(game, "morning") => Ordering(game) = Ordered(game)
    BY <1>1, <2>1 DEF Good
  <2> QED
    BY <2>1, <2>2, <2>3, <2>4, <2>5 DEF OrdersCurrent
<1>2. Good(game) => OrdersCurrent
  BY <1>1 DEF OrdersCurrent
<1>3. []Good(game) => []OrdersCurrent
  BY <1>2, PTL
<1> QED
  BY <1>3, AlwaysGood

-----------------------------------------------------------------------------
(* Who dies                                                                 *)

(* Those who are away go when a day ends, and only they.                   *)
Dusk(g, h) ==
  h.marked = IF Has(g, "day") /\ ~Has(h, "day") THEN g.marked \cup g.left ELSE g.marked

LEMMA EndVote1Marks ==
  ASSUME NEW h \in Games, Has(h, "day")
  PROVE  Dusk(h, EndVote1(h))
<1> DEFINE ended == [h EXCEPT !.flags = @ \ {"vote1"}]
           a == CHOOSE z \in Leaders(h) : TRUE
           said == [ended EXCEPT !.flags = @ \cup {"vote_say"}, !.votes1 = Nobody, !.accused = a]
<1>1. EndVote1(h) = said \/ EndVote1(h) = DoNight(ended)
  BY DEF EndVote1
<1> HIDE DEF a
<1>2. ended \in Games /\ ended.marked = h.marked /\ ended.left = h.left
  BY DEF Games
<1>3. said.marked = h.marked /\ Has(said, "day")
  BY DEF Games, Has
<1> HIDE DEF ended, said
<1>4. DoNight(ended).marked = h.marked \cup h.left /\ ~Has(DoNight(ended), "day")
  <2>1. /\ DoNight(ended).marked = ended.marked \cup ended.left
        /\ DoNight(ended).flags = (ended.flags \ {"day"}) \cup {"night"}
    BY <1>2, DoNightIs
  <2> QED
    BY <1>2, <2>1 DEF Has
<1> QED
  BY <1>1, <1>3, <1>4 DEF Dusk

(* The same of a message, be it a vote or an order.                        *)
LEMMA VoteMarks ==
  ASSUME NEW g, Good(g), NEW u, NEW z, u \in Gamers(g), z \in Gamers(g), NEW dbl
  PROVE  /\ Has(g, "day") => Dusk(g, ProcessDay(g, u, z))
         /\ ProcessNight(g, u, z, dbl).marked = g.marked
         /\ Has(ProcessNight(g, u, z, dbl), "day") <=> Has(g, "day")
<1>0. g \in Games
  BY DEF Good, Base
<1>1. ASSUME Has(g, "day") PROVE Dusk(g, ProcessDay(g, u, z))
  <2> DEFINE h == [g EXCEPT !.votes1 = Put(@, u, z)]
  <2>1. ProcessDay(g, u, z) \in {g, h, EndVote1(h)}
    BY DEF ProcessDay
  <2>2. h \in Games /\ h.marked = g.marked /\ h.left = g.left /\ h.flags = g.flags
    <3>1. g.role \in Casts \/ g.role = Nobody
      BY <1>0 DEF Games
    <3>2. u \in Players /\ z \in Players
      BY <3>1, NobodyIs DEF Gamers, Players
    <3>3. Put(g.votes1, u, z) \in Plans
      BY <1>0, <3>2, PutIs DEF Games
    <3> QED
      BY <1>0, <3>3 DEF Games
  <2> HIDE DEF h
  <2>3. Has(h, "day") /\ Dusk(h, EndVote1(h))
    BY <1>1, <2>2, EndVote1Marks DEF Has
  <2> QED
    BY <1>1, <2>1, <2>2, <2>3 DEF Dusk, Has
<1>2. /\ ProcessNight(g, u, z, dbl).marked = g.marked
      /\ Has(ProcessNight(g, u, z, dbl), "day") <=> Has(g, "day")
  <2> DEFINE h == TakeOrder(g, u, z, dbl)
             m == [h EXCEPT !.flags = (@ \ {"night"}) \cup {"morning"}]
  <2>1. ProcessNight(g, u, z, dbl) \in {g, h, m}
    BY DEF ProcessNight
  <2>2. h.marked = g.marked /\ h.flags = g.flags
    BY <1>0 DEF Games, TakeOrder
  <2>3. m.marked = g.marked /\ m.flags = (g.flags \ {"night"}) \cup {"morning"}
    BY <1>0 DEF Games, TakeOrder
  <2> HIDE DEF h, m
  <2> QED
    BY <2>1, <2>2, <2>3 DEF Has
<1> QED
  BY <1>1, <1>2

(* The second vote: nobody has answered before it, and the accused never.  *)
Polled(g) ==
  /\ Has(g, "day") /\ Has(g, "vote2") => g.accused \notin DOMAIN g.votes2
  /\ ~(Has(g, "day") /\ Has(g, "vote2")) => DOMAIN g.votes2 = {}

(* The first vote and the orders of a night leave the answers alone.       *)
LEMMA EndVote1Answers ==
  ASSUME NEW h \in Games
  PROVE  EndVote1(h).votes2 \in {h.votes2, Nobody}
<1> DEFINE ended == [h EXCEPT !.flags = @ \ {"vote1"}]
           a == CHOOSE y \in Leaders(h) : TRUE
           said == [ended EXCEPT !.flags = @ \cup {"vote_say"}, !.votes1 = Nobody, !.accused = a]
<1>1. EndVote1(h) = said \/ EndVote1(h) = DoNight(ended)
  BY DEF EndVote1
<1> HIDE DEF a
<1>2. ended \in Games /\ said.votes2 = h.votes2
  BY DEF Games
<1> HIDE DEF ended, said
<1> QED
  BY <1>1, <1>2, DoNightIs

LEMMA AnswersStay ==
  ASSUME NEW g, Good(g), NEW u \in Gamers(g), NEW z \in Gamers(g), NEW dbl
  PROVE  /\ ProcessDay(g, u, z).votes2 \in {g.votes2, Nobody}
         /\ ProcessNight(g, u, z, dbl).votes2 = g.votes2
<1>0. g \in Games
  BY DEF Good, Base
<1>2. ProcessDay(g, u, z).votes2 \in {g.votes2, Nobody}
  <2> DEFINE h == [g EXCEPT !.votes1 = Put(@, u, z)]
  <2>1. ProcessDay(g, u, z) \in {g, h, EndVote1(h)}
    BY DEF ProcessDay
  <2>2. h \in Games /\ h.votes2 = g.votes2
    <3>1. g.role \in Casts \/ g.role = Nobody
      BY <1>0 DEF Games
    <3>2. u \in Players /\ z \in Players
      BY <3>1, NobodyIs DEF Gamers, Players
    <3>3. Put(g.votes1, u, z) \in Plans
      BY <1>0, <3>2, PutIs DEF Games
    <3> QED
      BY <1>0, <3>3 DEF Games
  <2> HIDE DEF h
  <2> QED
    BY <2>1, <2>2, EndVote1Answers
<1>3. ProcessNight(g, u, z, dbl).votes2 = g.votes2
  <2> DEFINE h == TakeOrder(g, u, z, dbl)
             m == [h EXCEPT !.flags = (@ \ {"night"}) \cup {"morning"}]
  <2>1. ProcessNight(g, u, z, dbl) \in {g, h, m}
    BY DEF ProcessNight
  <2>2. h.votes2 = g.votes2
    BY <1>0 DEF Games, TakeOrder
  <2>3. m.votes2 = g.votes2
    BY <1>0 DEF Games, TakeOrder
  <2> HIDE DEF h, m
  <2> QED
    BY <2>1, <2>2, <2>3
<1> QED
  BY <1>2, <1>3

(* The end of the second vote: the accused stays, in the day or for the     *)
(* night, or goes, by more than half of the others.                        *)
LEMMA EndVote2Is ==
  ASSUME NEW g, Good(g), Has(g, "day"), Has(g, "vote2")
  PROVE  /\ EndVote2(g).votes2 = Nobody
         /\ \/ /\ "vote1" \in EndVote2(g).flags
               /\ EndVote2(g).marked = g.marked
               /\ Has(EndVote2(g), "day")
               /\ Acquitted(g) \/ ~(Votes(g, TRUE) > Others(g) \div 2)
            \/ /\ "night" \in EndVote2(g).flags
               /\ EndVote2(g).marked = g.marked \cup g.left
               /\ ~Has(EndVote2(g), "day")
               /\ Acquitted(g) \/ ~(Votes(g, TRUE) > Others(g) \div 2)
            \/ /\ EndVote2(g) = NoGame
               /\ Votes(g, TRUE) > Others(g) \div 2
            \/ /\ "night" \in EndVote2(g).flags
               /\ EndVote2(g).marked = g.marked \cup {g.accused} \cup g.left
               /\ ~Has(EndVote2(g), "day")
               /\ Votes(g, TRUE) > Others(g) \div 2
<1> DEFINE e == EndVote2(g)
           tried == Acquitted(g) \/ ~(Votes(g, TRUE) > Others(g) \div 2)
<1>0. g \in Games
  BY DEF Good, Base
<1>1. \/ e = DoVote1(g) /\ tried
      \/ e = DoNight(g) /\ tried
      \/ e = Lynch(g) /\ Votes(g, TRUE) > Others(g) \div 2
  BY DEF EndVote2
<1> HIDE DEF tried
<1>2. /\ DoVote1(g).votes2 = Nobody /\ DoVote1(g).marked = g.marked
      /\ "vote1" \in DoVote1(g).flags /\ Has(DoVote1(g), "day")
  <2>1. DoVote1(g).flags = (g.flags \ {"vote2", "vote_say"}) \cup {"vote1"}
    BY <1>0, DoVote1Is
  <2> QED
    BY <1>0, <2>1, DoVote1Is DEF Has
<1>3. /\ DoNight(g).votes2 = Nobody /\ DoNight(g).marked = g.marked \cup g.left
      /\ "night" \in DoNight(g).flags /\ ~Has(DoNight(g), "day")
  <2>1. DoNight(g).flags = (g.flags \ {"day"}) \cup {"night"}
    BY <1>0, DoNightIs
  <2> QED
    BY <1>0, <2>1, DoNightIs DEF Has
<1>4. NoGame.votes2 = Nobody
  BY DEF NoGame
<1>5. \/ Lynch(g) = NoGame
      \/ /\ "night" \in Lynch(g).flags /\ ~Has(Lynch(g), "day") /\ Lynch(g).votes2 = Nobody
         /\ Lynch(g).marked = g.marked \cup {g.accused} \cup g.left
  BY LynchGood
<1>6. CASE e = DoVote1(g) /\ tried
  BY <1>2, <1>6 DEF tried
<1>7. CASE e = DoNight(g) /\ tried
  BY <1>3, <1>7 DEF tried
<1>8. CASE e = Lynch(g) /\ Votes(g, TRUE) > Others(g) \div 2
  BY <1>4, <1>5, <1>8
<1> QED
  BY <1>1, <1>6, <1>7, <1>8

(* A set of gamers is finite, and more than half of the others is twice     *)
(* more than all of them.                                                  *)
LEMMA GamersFinite ==
  ASSUME NEW g \in Games
  PROVE  /\ IsFiniteSet(Gamers(g)) /\ Others(g) \in Int
         /\ \A T \in SUBSET Gamers(g) : Cardinality(T) \in Nat
<1>1. g.role \in Casts \/ g.role = Nobody
  BY DEF Games
<1>2. IsFiniteSet(Gamers(g))
  BY <1>1, CastsAssumption, NobodyIs, FS_EmptySet DEF Gamers
<1>3. ASSUME NEW T \in SUBSET Gamers(g) PROVE Cardinality(T) \in Nat
  BY <1>2, FS_Subset, FS_CardinalityType
<1>4. Living(g) \in SUBSET Gamers(g)
  BY DEF Living
<1>5. Cardinality(Living(g)) \in Nat
  BY <1>3, <1>4
<1> QED
  BY <1>2, <1>3, <1>5 DEF Others

(* More than half of the others said yes: g's own votes.                   *)
Sentenced(g) == 2 * Cardinality({u \in DOMAIN g.votes2 : g.votes2[u]}) > Others(g)

(* Numbers of yes and no among at most m.                                  *)
LEMMA Majority ==
  ASSUME NEW y \in Nat, NEW n \in Nat, NEW m \in Nat
  PROVE  /\ 2 * y > m <=> y > m \div 2
         /\ 2 * y > m /\ y + n <= m => /\ ~(y + n < (m * 40) \div 100)
                                       /\ ~(n > m \div 2) /\ y # n
  OBVIOUS

(* The count of the second vote.  Nobody whom more than half of the others, *)
(* all of them alive, condemned is acquitted.                              *)
LEMMA Count2 ==
  ASSUME NEW g, Good(g), Has(g, "day"), Has(g, "vote2"), g.accused \notin DOMAIN g.votes2
  PROVE  /\ Votes(g, TRUE) > Others(g) \div 2 <=> Sentenced(g)
         /\ DOMAIN g.votes2 \subseteq Living(g) /\ Sentenced(g) => ~Acquitted(g)
<1> DEFINE D == DOMAIN g.votes2
           Y == {u \in D : g.votes2[u] = TRUE}
           N == {u \in D : g.votes2[u] = FALSE}
<1>0. g \in Games /\ Known(g) /\ g.accused \in Living(g)
  BY DEF Good, Base
<1>1. Y = {u \in D : g.votes2[u]} /\ D = Y \cup N /\ Y \cap N = {}
  <2>1. \A u \in D : g.votes2[u] \in BOOLEAN
    BY <1>0 DEF Games, Polls
  <2>2. Y = {u \in D : g.votes2[u]}
    BY <2>1
  <2>3. D = Y \cup N
    BY <2>1
  <2>4. Y \cap N = {}
    OBVIOUS
  <2> QED
    BY <2>2, <2>3, <2>4
<1>2. Y \in SUBSET Gamers(g) /\ N \in SUBSET Gamers(g) /\ D \in SUBSET Gamers(g)
  BY <1>0 DEF Known
<1>3. IsFiniteSet(Gamers(g)) /\ IsFiniteSet(Living(g)) /\ IsFiniteSet(Y) /\ IsFiniteSet(N)
  <2>1. IsFiniteSet(Gamers(g)) /\ Living(g) \in SUBSET Gamers(g)
    BY <1>0, GamersFinite DEF Living
  <2> QED
    BY <1>2, <2>1, FS_Subset
<1>4. Cardinality(Living(g) \ {g.accused}) = Others(g) /\ Others(g) \in Nat
  <2>1. /\ Cardinality(Living(g) \ {g.accused}) = Cardinality(Living(g)) - 1
        /\ IsFiniteSet(Living(g) \ {g.accused})
    BY <1>0, <1>3, FS_RemoveElement
  <2>2. Cardinality(Living(g) \ {g.accused}) \in Nat
    BY <2>1, FS_CardinalityType
  <2> QED
    BY <2>1, <2>2 DEF Others
<1> DEFINE y == Cardinality(Y)
           n == Cardinality(N)
<1>5. y \in Nat /\ n \in Nat
  BY <1>3, FS_CardinalityType
<1>6. Cardinality(D) = y + n
  <2>1. Cardinality(Y \cap N) = 0
    BY <1>1, FS_EmptySet
  <2>2. Cardinality(Y \cup N) = y + n - Cardinality(Y \cap N)
    BY <1>3, FS_Union
  <2> HIDE DEF Y, N, D, y, n
  <2> QED
    BY <1>1, <1>5, <2>1, <2>2
<1>7. ASSUME D \subseteq Living(g) PROVE Cardinality(D) <= Others(g)
  <2>1. D \subseteq Living(g) \ {g.accused}
    BY <1>7
  <2>2. IsFiniteSet(Living(g) \ {g.accused})
    BY <1>3, FS_RemoveElement
  <2>3. Cardinality(D) <= Cardinality(Living(g) \ {g.accused})
    BY <2>1, <2>2, FS_Subset
  <2> QED
    BY <1>4, <2>3
<1>8. Votes(g, TRUE) = y /\ Votes(g, FALSE) = n
  BY DEF Votes
<1>9. Sentenced(g) <=> 2 * y > Others(g)
  BY <1>1 DEF Sentenced
<1>10. Acquitted(g) <=> \/ y + n < (Others(g) * 40) \div 100
                        \/ n > Others(g) \div 2 \/ y = n
  BY <1>6, <1>8 DEF Acquitted
<1> HIDE DEF D, Y, N, y, n
<1>11. Votes(g, TRUE) > Others(g) \div 2 <=> Sentenced(g)
  BY <1>4, <1>5, <1>8, <1>9, Majority
<1>12. ASSUME D \subseteq Living(g), Sentenced(g) PROVE ~Acquitted(g)
  BY <1>4, <1>5, <1>6, <1>7, <1>9, <1>10, <1>12, Majority
<1> QED
  BY <1>11, <1>12 DEF D

(* What the second vote comes to: exactly, when only the living voted.      *)
LEMMA Verdict2 ==
  ASSUME NEW g, Good(g), Has(g, "day"), Has(g, "vote2"), g.accused \notin DOMAIN g.votes2
  PROVE  LET out  == EndVote2(g).marked \ g.marked
             gone == IF Has(EndVote2(g), "day") THEN {} ELSE g.left \ g.marked
         IN  /\ EndVote2(g) # NoGame => out \in {gone, gone \cup {g.accused}}
             /\ DOMAIN g.votes2 \subseteq Living(g) =>
                  IF EndVote2(g) = NoGame THEN Sentenced(g)
                  ELSE out = gone \cup {p \in {g.accused} : Sentenced(g)}
<1> DEFINE out  == EndVote2(g).marked \ g.marked
           gone == IF Has(EndVote2(g), "day") THEN {} ELSE g.left \ g.marked
           fair == DOMAIN g.votes2 \subseteq Living(g)
<1>1. g.accused \notin g.marked
  BY DEF Good, Living
<1>2. EndVote2(g) = NoGame => EndVote2(g).flags = {}
  BY DEF NoGame
<1>3. \/ out = gone /\ EndVote2(g) # NoGame /\ (fair => ~Sentenced(g))
      \/ EndVote2(g) = NoGame /\ Sentenced(g)
      \/ out = gone \cup {g.accused} /\ EndVote2(g) # NoGame /\ Sentenced(g)
  <2>1. ASSUME Acquitted(g) \/ ~(Votes(g, TRUE) > Others(g) \div 2)
        PROVE  fair => ~Sentenced(g)
    BY <2>1, Count2
  <2>2. ASSUME Votes(g, TRUE) > Others(g) \div 2 PROVE Sentenced(g)
    BY <2>2, Count2
  <2>3. CASE /\ "vote1" \in EndVote2(g).flags
             /\ EndVote2(g).marked = g.marked
             /\ Has(EndVote2(g), "day")
             /\ Acquitted(g) \/ ~(Votes(g, TRUE) > Others(g) \div 2)
    BY <1>2, <2>1, <2>3
  <2>4. CASE /\ "night" \in EndVote2(g).flags
             /\ EndVote2(g).marked = g.marked \cup g.left
             /\ ~Has(EndVote2(g), "day")
             /\ Acquitted(g) \/ ~(Votes(g, TRUE) > Others(g) \div 2)
    BY <1>2, <2>1, <2>4
  <2>5. CASE EndVote2(g) = NoGame /\ Votes(g, TRUE) > Others(g) \div 2
    BY <2>2, <2>5
  <2>6. CASE /\ "night" \in EndVote2(g).flags
             /\ EndVote2(g).marked = g.marked \cup {g.accused} \cup g.left
             /\ ~Has(EndVote2(g), "day")
             /\ Votes(g, TRUE) > Others(g) \div 2
    <3>1. out = gone \cup {g.accused}
      BY <1>1, <2>6
    <3> QED
      BY <1>2, <2>2, <2>6, <3>1
  <2> HIDE DEF out, gone, fair
  <2> QED
    BY <2>3, <2>4, <2>5, <2>6, EndVote2Is
<1>4. EndVote2(g) # NoGame => out \in {gone, gone \cup {g.accused}}
  BY <1>3
<1>5. fair => IF EndVote2(g) = NoGame THEN Sentenced(g)
              ELSE out = gone \cup {p \in {g.accused} : Sentenced(g)}
  <2> HIDE DEF out, gone, fair
  <2>1. Sentenced(g) => {p \in {g.accused} : Sentenced(g)} = {g.accused}
    OBVIOUS
  <2>2. ~Sentenced(g) => {p \in {g.accused} : Sentenced(g)} = {}
    OBVIOUS
  <2> QED
    BY <1>3, <2>1, <2>2
<1> QED
  BY <1>4, <1>5

(* The answers in each step.                                               *)
LEMMA PolledStep ==
  ASSUME Good(game), Polled(game), [Next]_game
  PROVE  Polled(game')
<1>0. game \in Games /\ Phase(game.flags)
  BY DEF Good, Base
<1>1. ASSUME DOMAIN game'.votes2 = {} PROVE Polled(game')
  BY <1>1 DEF Polled
<1>2. ASSUME game'.votes2 = Nobody PROVE Polled(game')
  BY <1>1, <1>2, NobodyIs
<1>3. ASSUME ~Has(game, "vote2") \/ ~Has(game, "day"), game'.votes2 \in {game.votes2, Nobody}
      PROVE  Polled(game')
  BY <1>1, <1>2, <1>3 DEF Polled
<1>4. ASSUME game'.votes2 = game.votes2, game'.accused = game.accused, game'.flags = game.flags
      PROVE  Polled(game')
  BY <1>4 DEF Polled, Has
<1>5. NoGame.votes2 = Nobody
  BY DEF NoGame
<1>6. ASSUME NightTimeout \/ MorningTimeout PROVE Polled(game')
  <2>1. Has(game, "night") \/ Has(game, "morning")
    BY <1>6 DEF NightTimeout, MorningTimeout
  <2> DEFINE c == CheckMain(Dawn(game))
  <2>2. game' = NoGame \/ game' = DoVote1(c)
    BY <1>6 DEF NightTimeout, MorningTimeout, DoDay
  <2>3. Base(Dawn(game))
    BY <2>1, DawnBase
  <2>4. c \in Games
    BY <2>3, HeadChosen DEF Base
  <2> HIDE DEF c
  <2> QED
    BY <1>2, <1>5, <2>2, <2>4, DoVote1Is
<1>7. ASSUME Vote1Timeout PROVE Polled(game')
  <2>1. EndVote1(game).votes2 \in {game.votes2, Nobody}
    BY EndVote1Answers, <1>0
  <2>2. ~Has(game, "vote2")
    BY <1>0, <1>7 DEF Vote1Timeout, Phase, Has
  <2> QED
    BY <1>3, <1>7, <2>1, <2>2 DEF Vote1Timeout
<1>8. ASSUME VoteSayTimeout PROVE Polled(game')
  <2>1. game'.votes2 = game.votes2
    BY <1>0, <1>8 DEF VoteSayTimeout, Games
  <2>2. ~Has(game, "vote2")
    BY <1>0, <1>8 DEF VoteSayTimeout, Phase, Has
  <2> QED
    BY <1>3, <2>1, <2>2
<1>9. ASSUME Vote2Timeout PROVE Polled(game')
  <2> DEFINE e == EndVote2(game)
             f == e.flags \ {"vote2"}
  <2>1. e \in Games /\ e.votes2 = Nobody
    BY <1>9, EndVote2Good, EndVote2Is DEF Vote2Timeout, Good, Base
  <2>2. game' = [e EXCEPT !.flags = f]
    BY <1>9 DEF Vote2Timeout
  <2> HIDE DEF e, f
  <2>3. game'.votes2 = Nobody
    BY <2>1, <2>2 DEF Games
  <2> QED
    BY <1>2, <2>3
<1>10. ASSUME DayGrowsOld PROVE Polled(game')
  BY <1>0, <1>4, <1>10 DEF DayGrowsOld, Games
<1>11. ASSUME NEW u \in Gamers(game), NEW answer \in BOOLEAN, Vote(u, answer)
       PROVE  Polled(game')
  <2> DEFINE h == [game EXCEPT !.votes2 = Put(@, u, answer)]
  <2>1. Has(game, "day") /\ Has(game, "vote2") /\ game' \in {h, EndVote2(h)} /\ u # game.accused
    BY <1>11 DEF Vote, DoVote2
  <2>2. Good(h) /\ Has(h, "day") /\ Has(h, "vote2")
    BY <2>1, AnswerGood
  <2>3. h.accused = game.accused /\ h.votes2 = Put(game.votes2, u, answer) /\ h.flags = game.flags
    BY <1>0 DEF Games
  <2> HIDE DEF h
  <2>4. CASE game' = h
    <3>1. DOMAIN Put(game.votes2, u, answer) = DOMAIN game.votes2 \cup {u}
      BY PutIs
    <3>2. game.accused \notin DOMAIN game.votes2
      BY <2>1 DEF Polled
    <3> QED
      BY <2>1, <2>2, <2>3, <2>4, <3>1, <3>2 DEF Polled
  <2>5. CASE game' = EndVote2(h)
    BY <1>2, <2>2, <2>5, EndVote2Is
  <2> QED
    BY <2>1, <2>4, <2>5
<1>12. ASSUME NEW u \in Gamers(game), NEW z \in Gamers(game), NEW dbl \in BOOLEAN,
              Message(u, z, dbl)
       PROVE  Polled(game')
  <2> DEFINE h == IF Has(game, "day") THEN ProcessDay(game, u, z) ELSE game
  <2>1. Good(h) /\ h.role = game.role
    BY ProcessDayGood
  <2>2. h.votes2 \in {game.votes2, Nobody}
    BY AnswersStay
  <2>3. game' = IF Has(h, "night") THEN ProcessNight(h, u, z, dbl) ELSE h
    BY <1>12 DEF Message, ProcessDayOrNight
  <2> HIDE DEF h
  <2>4. ProcessNight(h, u, z, dbl).votes2 = h.votes2
    <3>1. u \in Gamers(h) /\ z \in Gamers(h)
      BY <2>1 DEF Gamers
    <3> QED
      BY <2>1, <3>1, AnswersStay
  <2>5. ~Has(game, "vote2") \/ ~Has(game, "day")
    BY <1>0, <1>12 DEF Message, Phase, Has
  <2> QED
    BY <1>3, <2>2, <2>3, <2>4, <2>5
<1>13. ASSUME NEW p \in Gamers(game), Leave(p) \/ Return(p) \/ ChangeNick(p)
       PROVE  Polled(game')
  BY <1>0, <1>4, <1>13 DEF Leave, Return, ChangeNick, Games
<1>14. ASSUME Halt PROVE Polled(game')
  BY <1>2, <1>5, <1>14 DEF Halt
<1>15. ASSUME UNCHANGED game PROVE Polled(game')
  BY <1>4, <1>15
<1> QED
  BY <1>6, <1>7, <1>8, <1>9, <1>10, <1>11, <1>12, <1>13, <1>14, <1>15
     DEF Next, Timeout, Room

LEMMA AlwaysPolled == Spec => [](Good(game) /\ Polled(game))
<1>1. Init => Polled(game)
  BY NobodyIs DEF Init, NoGame, Polled, Has
<1>2. Good(game) /\ Polled(game) /\ [Next]_game => Polled(game)'
  BY PolledStep
<1> QED
  BY <1>1, <1>2, AlwaysGood, PTL DEF Spec

(* At dawn: whom an order killed, who gave none, and who was away.         *)
LEMMA DawnMarks ==
  ASSUME NEW g, Good(g), Has(g, "night") \/ Has(g, "morning"), Lone(g, "DOC"), Lone(g, "VAL")
  PROVE  /\ Dawn(g).marked = g.marked \cup Killed(g) \cup Failed(g) \cup g.left
         /\ Killed(g) =
              {p \in Living(g) :
                 LET To(r, z) == {u \in Ordered(g) : g.role[u] = r /\ g.order[u] = z}
                 IN  /\ To("DOC", p) = {}
                     /\ \E u \in To("MAF", p) \cup To("MAN", p) \cup (To("KAT", p) \cap g.kill) :
                          To("VAL", u) = {}}
<1>0. g \in Games /\ Nightly(g)
  BY DEF Good, Base
<1>1. Dawn(g).marked = g.marked \cup Killed(g) \cup Failed(g) \cup g.left
  <2> DEFINE out == Killed(g) \cup Failed(g)
             d == [g EXCEPT
           !.flags   = (@ \ {"night", "morning"}) \cup {"day"},
           !.marked  = @ \cup out,
           !.voice   = @ \ out,
           !.docSelf = CountSelf(g),
           !.order = Nobody, !.kill = {}, !.doced = {}, !.valed = {},
           !.young   = TRUE]
  <2>1. Dawn(g) = RemoveLeft(d)
    BY DEF Dawn
  <2> HIDE DEF out
  <2>2. RemoveLeft(d).marked = g.marked \cup out \cup g.left
    BY <1>0 DEF RemoveLeft, Games
  <2> QED
    BY <2>1, <2>2 DEF out
<1> DEFINE To(r, z) == {u \in Ordered(g) : g.role[u] = r /\ g.order[u] = z}
           Dead(p) == /\ To("DOC", p) = {}
                      /\ \E u \in To("MAF", p) \cup To("MAN", p) \cup (To("KAT", p) \cap g.kill) :
                           To("VAL", u) = {}
<1>2. /\ g.doced = Targets(g, "DOC") /\ g.valed = Targets(g, "VAL")
      /\ \A u \in Ordered(g) : u \in Living(g) /\ u \in Gamers(g) /\ g.order[u] \in Living(g)
      /\ \A u \in Ordered(g) : g.role[u] \in {"MAF", "MAN"} => u \in g.kill
  BY <1>0 DEF Nightly, Ordering, Living
<1>3. ASSUME NEW p PROVE /\ To("DOC", p) = {} <=> p \notin g.doced
                         /\ To("VAL", p) = {} <=> p \notin g.valed
  BY <1>2 DEF Targets, Cast, Gamers
<1>4. ASSUME NEW p PROVE p \in {g.order[q] : q \in Killers(g)} <=>
        \E u \in To("MAF", p) \cup To("MAN", p) \cup (To("KAT", p) \cap g.kill) :
          u \notin g.valed
  <2>1. ASSUME NEW q \in Killers(g), p = g.order[q]
        PROVE  \E u \in To("MAF", p) \cup To("MAN", p) \cup (To("KAT", p) \cap g.kill) :
                 u \notin g.valed
    BY <2>1 DEF Killers
  <2>2. ASSUME NEW u \in To("MAF", p) \cup To("MAN", p) \cup (To("KAT", p) \cap g.kill),
               u \notin g.valed
        PROVE  u \in Killers(g) /\ p = g.order[u]
    BY <1>2, <2>2 DEF Killers
  <2> QED
    BY <2>1, <2>2
<1>5. ASSUME NEW p \in Killed(g) PROVE p \in Living(g)
  BY <1>2 DEF Killed, Killers
<1>6. ASSUME NEW p PROVE p \in Killed(g) <=> p \in Living(g) /\ Dead(p)
  BY <1>3, <1>4, <1>5 DEF Killed
<1>7. Killed(g) = {p \in Living(g) : Dead(p)}
  BY <1>6
<1> QED
  BY <1>1, <1>7

Dead == {p \in Living(game) : OrderedDead(p)}
Lawful == Out = IF Dawned THEN Dead \cup Idle \cup Away ELSE Gone

(* A dawn of a game with at most one DOC and one VAL.                      *)
LEMMA DawnExplained ==
  ASSUME Good(game), NightTimeout \/ MorningTimeout, Lone(game, "DOC"), Lone(game, "VAL"),
         game' # NoGame
  PROVE  Lawful
<1> DEFINE d == Dawn(game)
           c == CheckMain(d)
<1>0. /\ game \in Games /\ Known(game) /\ Phase(game.flags)
      /\ Away = game.left \ game.marked
  BY DEF Good, Base, Known, Living, Away
<1>1. Has(game, "night") \/ Has(game, "morning")
  BY DEF NightTimeout, MorningTimeout
<1>2. Base(d) /\ d \in Games /\ d.flags = (game.flags \ {"night", "morning"}) \cup {"day"}
  BY <1>1, DawnBase DEF Base
<1>3. d.marked = game.marked \cup Killed(game) \cup Failed(game) \cup game.left
  BY <1>1, DawnMarks
<1>4. Killed(game) = Dead
  <2>1. Killed(game) =
          {p \in Living(game) :
             LET To(r, z) == {u \in Ordered(game) : game.role[u] = r /\ game.order[u] = z}
             IN  /\ To("DOC", p) = {}
                 /\ \E u \in To("MAF", p) \cup To("MAN", p) \cup (To("KAT", p) \cap game.kill) :
                      To("VAL", u) = {}}
    BY <1>1, DawnMarks
  <2> QED
    BY <2>1 DEF OrderedDead, Dead
<1>5. game' = DoVote1(c)
  BY DEF NightTimeout, MorningTimeout, DoDay
<1> HIDE DEF d
<1>6. c \in Games /\ c.marked = d.marked /\ c.flags = d.flags
  BY <1>2, HeadChosen, CheckMainIs DEF Base
<1> HIDE DEF c
<1>7. game'.marked = d.marked /\ "day" \in game'.flags
  <2>1. DoVote1(c).marked = c.marked /\ DoVote1(c).flags = (c.flags \ {"vote2", "vote_say"}) \cup {"vote1"}
    BY <1>6, DoVote1Is
  <2> QED
    BY <1>2, <1>5, <1>6, <2>1
<1>8. Dawned
  BY <1>0, <1>1, <1>7 DEF Phase, Has, Dawned
<1>9. Failed(game) = Idle
  BY DEF Failed, Ordering, Idle
<1>10. Dead \subseteq Living(game) /\ Idle \subseteq Living(game)
  BY DEF Dead, Idle
<1>11. Out = Dead \cup Idle \cup Away
  BY <1>0, <1>3, <1>4, <1>7, <1>9, <1>10 DEF Living, Out
<1> QED
  BY <1>8, <1>11 DEF Lawful

(* Any other step but the second vote.                                     *)
LEMMA DuskExplained ==
  ASSUME Good(game), Dusk(game, game'), Has(game, "day") \/ ~Has(game', "day")
  PROVE  Lawful
<1>1. Away = game.left \ game.marked
  BY DEF Good, Base, Known, Living, Away
<1>2. ~Dawned /\ (Ended <=> Has(game, "day") /\ ~Has(game', "day"))
  BY DEF Dawned, Ended, Has
<1>3. Out = Gone
  BY <1>1, <1>2 DEF Dusk, Out, Gone
<1> QED
  BY <1>2, <1>3 DEF Lawful

LEMMA StepLawful ==
  ASSUME Good(game), Next, Lone(game, "DOC"), Lone(game, "VAL"),
         game' # NoGame, ~Voted, ~Vote2Timeout
  PROVE  Lawful
<1>0. game \in Games /\ Phase(game.flags)
  BY DEF Good, Base
<1>1. ASSUME NightTimeout \/ MorningTimeout PROVE Lawful
  BY <1>1, DawnExplained
<1>2. ASSUME Vote1Timeout PROVE Lawful
  <2>1. Has(game, "day") /\ Dusk(game, game')
    BY <1>0, <1>2, EndVote1Marks DEF Vote1Timeout
  <2> QED
    BY <2>1, DuskExplained
<1>3. ASSUME game'.marked = game.marked,
             Has(game', "day") <=> Has(game, "day")
      PROVE  Lawful
  BY <1>3, DuskExplained DEF Dusk
<1>4. ASSUME VoteSayTimeout \/ DayGrowsOld PROVE Lawful
  <2>1. game'.marked = game.marked /\ Has(game, "day") /\ Has(game', "day")
    BY <1>0, <1>4 DEF VoteSayTimeout, DayGrowsOld, Games, Has
  <2> QED
    BY <1>3, <2>1
<1>5. ASSUME NEW u \in Gamers(game), NEW z \in Gamers(game), NEW dbl \in BOOLEAN,
             Message(u, z, dbl)
      PROVE  Lawful
  <2> DEFINE h == IF Has(game, "day") THEN ProcessDay(game, u, z) ELSE game
  <2>1. Good(h) /\ h.role = game.role
    BY ProcessDayGood
  <2>2. Dusk(game, h) /\ (Has(game, "day") \/ ~Has(h, "day"))
    BY VoteMarks DEF Dusk
  <2>3. game' = IF Has(h, "night") THEN ProcessNight(h, u, z, dbl) ELSE h
    BY <1>5 DEF Message, ProcessDayOrNight
  <2> HIDE DEF h
  <2>4. /\ ProcessNight(h, u, z, dbl).marked = h.marked
        /\ Has(ProcessNight(h, u, z, dbl), "day") <=> Has(h, "day")
    <3>1. u \in Gamers(h) /\ z \in Gamers(h)
      BY <2>1 DEF Gamers
    <3> QED
      BY <2>1, <3>1, VoteMarks
  <2>5. game'.marked = h.marked /\ (Has(game', "day") <=> Has(h, "day"))
    BY <2>3, <2>4
  <2> QED
    BY <2>2, <2>5, DuskExplained DEF Dusk
<1>6. ASSUME NEW p \in Gamers(game), Leave(p) \/ Return(p) \/ ChangeNick(p)
      PROVE  Lawful
  <2>1. game'.marked = game.marked /\ game'.flags = game.flags
    BY <1>0, <1>6 DEF Leave, Return, ChangeNick, Games
  <2> QED
    BY <1>3, <2>1 DEF Has
<1>7. ~Halt
  BY DEF Halt
<1>8. ASSUME NEW u \in Gamers(game), NEW answer \in BOOLEAN, Vote(u, answer) PROVE FALSE
  BY <1>8 DEF Voted
<1> QED
  BY <1>1, <1>2, <1>4, <1>5, <1>6, <1>7, <1>8 DEF Next, Timeout, Room

(* The end of the second vote, by an answer or the clock.                  *)
LEMMA VerdictKept ==
  ASSUME NEW h, Good(h), Has(h, "day"), Has(h, "vote2"), h.accused \notin DOMAIN h.votes2,
         Good(game), Has(game, "day"),
         h.role = game.role, h.marked = game.marked, h.left = game.left,
         h.accused = game.accused,
         game' = NoGame <=> EndVote2(h) = NoGame,
         game'.marked = EndVote2(h).marked,
         Has(game', "day") <=> Has(EndVote2(h), "day")
  PROVE  Verdict(h.votes2)
<1>1. Living(h) = Living(game) /\ Others(h) = Others(game)
  BY DEF Living, Gamers, Others
<1>2. Sentenced(h) <=> Condemned(h.votes2)
  BY <1>1 DEF Sentenced, Condemned
<1>3. Away = game.left \ game.marked
  BY DEF Good, Base, Known, Living, Away
<1>4. Gone = IF Has(EndVote2(h), "day") THEN {} ELSE h.left \ h.marked
  BY <1>3 DEF Gone, Ended, Has
<1>5. Out = EndVote2(h).marked \ h.marked
  BY DEF Out
<1>6. /\ EndVote2(h) # NoGame => Out \in {Gone, Gone \cup {h.accused}}
      /\ DOMAIN h.votes2 \subseteq Living(h) =>
           IF EndVote2(h) = NoGame THEN Sentenced(h)
           ELSE Out = Gone \cup {p \in {h.accused} : Sentenced(h)}
  BY <1>4, <1>5, Verdict2
<1>7. {p \in {h.accused} : Sentenced(h)} = {p \in {game.accused} : Condemned(h.votes2)}
  BY <1>2
<1> QED
  BY <1>1, <1>2, <1>6, <1>7 DEF Verdict

LEMMA AnswerExplained ==
  ASSUME Good(game), Polled(game), NEW u \in Gamers(game), NEW answer \in BOOLEAN,
         Vote(u, answer)
  PROVE  Verdict(Put(game.votes2, u, answer))
<1> DEFINE h == [game EXCEPT !.votes2 = Put(@, u, answer)]
<1>0. game \in Games
  BY DEF Good, Base
<1>1. /\ Has(game, "day") /\ Has(game, "vote2") /\ u # game.accused
      /\ game' = IF Vote2Decided(h) THEN EndVote2(h) ELSE h
  BY DEF Vote, DoVote2
<1>2. Good(h) /\ Has(h, "day") /\ Has(h, "vote2")
  BY <1>1, AnswerGood
<1>3. /\ h.role = game.role /\ h.marked = game.marked /\ h.left = game.left
      /\ h.accused = game.accused /\ h.votes2 = Put(game.votes2, u, answer)
  BY <1>0 DEF Games
<1>4. DOMAIN Put(game.votes2, u, answer) = DOMAIN game.votes2 \cup {u}
  BY PutIs
<1> HIDE DEF h
<1>5. h.accused \notin DOMAIN h.votes2
  BY <1>1, <1>3, <1>4 DEF Polled
<1>6. CASE Vote2Decided(h)
  <2>1. game' = EndVote2(h)
    BY <1>1, <1>6
  <2>2. Verdict(h.votes2)
    BY <1>1, <1>2, <1>3, <1>5, <2>1, VerdictKept
  <2> QED
    BY <1>3, <2>2
<1>7. CASE ~Vote2Decided(h)
  <2>1. game' = h
    BY <1>1, <1>7
  <2>2. Out = {} /\ Gone = {} /\ game' # NoGame
    <3>1. NoGame.flags = {}
      BY DEF NoGame
    <3> QED
      BY <1>2, <1>3, <2>1, <3>1 DEF Out, Gone, Ended, Has
  <2>3. ~(Votes(h, TRUE) > Others(h) \div 2)
    BY <1>7 DEF Vote2Decided
  <2>4. ~Sentenced(h)
    BY <1>2, <1>5, <2>3, Count2
  <2>5. Others(h) = Others(game)
    BY <1>3 DEF Others, Living, Gamers
  <2>6. ~Condemned(h.votes2)
    BY <2>4, <2>5 DEF Sentenced, Condemned
  <2>7. {p \in {game.accused} : Condemned(h.votes2)} = {}
    BY <2>6
  <2>8. Verdict(h.votes2)
    BY <2>2, <2>7 DEF Verdict
  <2> QED
    BY <1>3, <2>8
<1> QED
  BY <1>6, <1>7

LEMMA TimeoutExplained ==
  ASSUME Good(game), Polled(game), Vote2Timeout
  PROVE  Verdict(game.votes2)
<1> DEFINE e == EndVote2(game)
           f == e.flags \ {"vote2"}
<1>1. Has(game, "day") /\ Has(game, "vote2")
  BY DEF Vote2Timeout
<1>2. e \in Games
  BY <1>1, EndVote2Good DEF Good, Base
<1>3. e = NoGame \/ "vote1" \in e.flags \/ "night" \in e.flags
  BY <1>1, EndVote2Is
<1>4. game' = [e EXCEPT !.flags = f]
  BY DEF Vote2Timeout
<1> HIDE DEF e, f
<1>5. game'.marked = e.marked /\ game'.flags = e.flags \ {"vote2"}
  BY <1>2, <1>4 DEF Games, f
<1>6. Has(game', "day") <=> Has(e, "day")
  BY <1>5 DEF Has
<1>7. NoGame.flags = {} /\ NoGame = [NoGame EXCEPT !.flags = {}]
  <2>1. NoGame.flags = {}
    BY DEF NoGame
  <2>2. NoGame \in Games
    BY NoGameGood DEF Good, Base
  <2>3. \A g \in Games : g.flags = {} => g = [g EXCEPT !.flags = {}]
    BY DEF Games
  <2> QED
    BY <2>1, <2>2, <2>3
<1>8. game' = NoGame <=> e = NoGame
  <2>1. e = NoGame => f = {}
    BY <1>7 DEF f
  <2>2. e = NoGame => game' = NoGame
    BY <1>4, <1>7, <2>1
  <2>3. game' = NoGame => e = NoGame
    BY <1>3, <1>5, <1>7
  <2> QED
    BY <2>2, <2>3
<1>9. game.accused \notin DOMAIN game.votes2
  BY <1>1 DEF Polled
<1> QED
  BY <1>1, <1>5, <1>6, <1>8, <1>9, VerdictKept DEF e

(* Nobody dies, and nobody survives, but for a reason.  At dawn exactly     *)
(* those go who were killed by an order, gave none or were away; those who  *)
(* are away also go when a day ends; and with the second vote, as long as   *)
(* only living players vote, the accused goes exactly when more than half   *)
(* of the others said yes (do_day, end_vote2).  It takes that the deal      *)
(* holds at most one DOC and one VAL, as it does for fewer than thirty.     *)
THEOREM DeathsAlwaysExplained ==
  ASSUME \A role \in Casts :
           Cardinality(Cast(role, "DOC")) <= 1 /\ Cardinality(Cast(role, "VAL")) <= 1
  PROVE  Spec => DeathsExplained
<1>1. ASSUME NEW g \in Games, NEW r \in {"DOC", "VAL"} PROVE Lone(g, r)
  <2>1. CASE g.role = Nobody
    BY <2>1, NobodyIs DEF Lone, LivingAs, Cast
  <2>2. CASE g.role \in Casts
    <3>1. IsFiniteSet(Cast(g.role, r))
      <4>1. Cast(g.role, r) \in SUBSET DOMAIN g.role
        BY DEF Cast
      <4> QED
        BY <2>2, <4>1, CastsAssumption, FS_Subset
    <3>2. LivingAs(g, r) \in SUBSET Cast(g.role, r)
      BY DEF LivingAs
    <3>3. /\ Cardinality(LivingAs(g, r)) <= Cardinality(Cast(g.role, r))
          /\ Cardinality(LivingAs(g, r)) \in Nat /\ Cardinality(Cast(g.role, r)) \in Nat
      BY <3>1, <3>2, FS_Subset, FS_CardinalityType
    <3>4. Cardinality(Cast(g.role, r)) <= 1
      BY <2>2
    <3>5. Count(g, r) <= 1
      BY <3>3, <3>4 DEF Count
    <3> QED
      BY <3>5, CountLone
  <2> QED
    BY <2>1, <2>2 DEF Games
<1>2. ASSUME Good(game), Polled(game), Next, Has(game, "game_started")
      PROVE  /\ \A u \in Gamers(game), answer \in BOOLEAN :
                  Vote(u, answer) => Verdict(Put(game.votes2, u, answer))
             /\ Vote2Timeout => Verdict(game.votes2)
             /\ game' # NoGame /\ ~Voted /\ ~Vote2Timeout =>
                  Out = IF Dawned THEN {p \in Living(game) : OrderedDead(p)} \cup Idle \cup Away
                        ELSE Gone
  <2>1. game \in Games
    BY <1>2 DEF Good, Base
  <2>2. game' # NoGame /\ ~Voted /\ ~Vote2Timeout => Lawful
    BY <1>1, <1>2, <2>1, StepLawful
  <2> QED
    BY <1>2, <2>2, AnswerExplained, TimeoutExplained DEF Lawful, Dead
<1>3. Good(game) /\ Polled(game) /\ [Next]_game =>
      [Has(game, "game_started") =>
         /\ \A u \in Gamers(game), answer \in BOOLEAN :
              Vote(u, answer) => Verdict(Put(game.votes2, u, answer))
         /\ Vote2Timeout => Verdict(game.votes2)
         /\ game' # NoGame /\ ~Voted /\ ~Vote2Timeout =>
              Out = IF Dawned THEN {p \in Living(game) : OrderedDead(p)} \cup Idle \cup Away
                    ELSE Gone]_game
  BY <1>2
<1> QED
  BY <1>3, AlwaysPolled, PTL DEF Spec, DeathsExplained
===============================================================================
