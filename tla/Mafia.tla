-------------------------------- MODULE Mafia --------------------------------
(***************************************************************************)
(* The game of Mafia that a bot leads in a room                            *)
(* (bot/bot-mafia-new: game.cpp, day.cpp, night.cpp, command.cpp).         *)
(*                                                                         *)
(* One thread reads the room and, while there is nothing to read, looks at *)
(* the clock (process_game).  What the game does next hangs on a handful   *)
(* of flags that players' messages and timeouts set and clear.  At night   *)
(* players with a role send their orders; in the morning they take effect; *)
(* by day the room votes whom to accuse, hears him, and votes again.       *)
(* Players leave, return and change their nicks meanwhile.                 *)
(*                                                                         *)
(* The model starts with the first night of a game and ends with the game. *)
(* An operator on games stands for a function of the bot; scores, phrases  *)
(* and announcements are left out.                                         *)
(***************************************************************************)
EXTENDS Integers, SequencesExt

CONSTANTS
  Table,     \* how many registered for the game
  Casts,     \* the roles of those who are still there at the first night
  None,      \* nobody is accused
  MaxAway    \* bound: living players who are away at a time

Roles == {"MIR", "MAF", "MAN", "DOC", "KAT", "BOM", "VAL"}

----------------------------------------------------------------------------
(* The deal *)

Give(deal, role, enough) ==
  IF deal.left > 0 /\ ~enough
  THEN [deal EXCEPT ![role] = @ + 1, !.left = @ - 1]
  ELSE deal

(* One round of assign_roles(): a role is held back while there are enough  *)
(* of it for that many players.                                             *)
DealRound(deal, n) ==
  LET doc == Give(deal, "DOC", deal.DOC > 0 /\ n < 30 * deal.DOC)
      man == Give(doc, "MAN", doc.MAN > 0 /\ n < 10 * doc.MAN)
      bom == Give(man, "BOM", man.BOM > 0 /\ n < 15 * man.MAN)
      kat == Give(bom, "KAT", bom.VAL = 0 \/ n < 20 * bom.KAT)
      val == Give(kat, "VAL", kat.VAL > 0 /\ n < 30 * kat.VAL)
  IN  Give(val, "MIR", FALSE)

AtLeastOne(n) == IF n < 1 THEN 1 ELSE n

Dealt(n) ==
  LET mir == AtLeastOne(IF n > 20 THEN (n * 45) \div 100 ELSE (n * 40) \div 100)
      maf == AtLeastOne((n * 25) \div 100)
      first == [MIR |-> mir, MAF |-> maf, KAT |-> 1, DOC |-> 0, MAN |-> 0,
                BOM |-> 0, VAL |-> 0, left |-> n - maf - mir - 1]
  IN  FoldLeft(LAMBDA deal, i : DealRound(deal, n), first, [i \in 1..n |-> i])

Cast(role, r) == {p \in DOMAIN role : role[p] = r}

(* A role that nobody accepts turns into MIR, so only the others are scarce. *)
ASSUME CastsAssumption ==
  /\ Table \in Nat /\ Table >= 3 /\ MaxAway \in Nat
  /\ \A role \in Casts :
       /\ role \in [DOMAIN role -> Roles]
       /\ IsFiniteSet(DOMAIN role) /\ None \notin DOMAIN role
       /\ Cardinality(DOMAIN role) \in 1..Table
       /\ \A r \in Roles \ {"MIR"} : Cardinality(Cast(role, r)) <= Dealt(Table)[r]

----------------------------------------------------------------------------
(* A game is a record of                                                    *)
(*   role      what each gamer is                                           *)
(*   mafs      the mafiosi by their number, maf_n                           *)
(*   main      those with main_maf                                          *)
(*   flags     game_started, night, morning, day, vote1, vote_say, vote2    *)
(*   marked    marked_for_delete: out of the game                           *)
(*   left      away, as far as the bot knows;  chnick: for a change of nick *)
(*   voice     those who may write to the room while it is moderated        *)
(*   order     order, for those with order_done                             *)
(*   kill      those with order_type                                        *)
(*   doced, valed                                                           *)
(*   docSelf   how often in a row a DOC healed himself                      *)
(*   votes1    vote_info1: voter -> whom he accuses                         *)
(*   votes2    vote_info2: voter -> yes or no;  accused: vote2_person       *)
(*   young     the day has lasted less than DAY_TIME                        *)
VARIABLE game

Nobody == <<>>   \* the function of no player

(* What a player does, in place of what he did before. *)
Put(f, u, z) == [p \in DOMAIN f \cup {u} |-> IF p = u THEN z ELSE f[p]]

Gamers(g)    == DOMAIN g.role
Living(g)    == Gamers(g) \ g.marked
LivingAs(g, r) == Cast(g.role, r) \ g.marked
Has(g, flag) == flag \in g.flags
Count(g, r)  == Cardinality(LivingAs(g, r))

NoGame ==
  [role |-> Nobody, mafs |-> <<>>, main |-> {}, flags |-> {}, marked |-> {},
   left |-> {}, chnick |-> {}, voice |-> {}, order |-> Nobody, kill |-> {},
   doced |-> {}, valed |-> {}, docSelf |-> Nobody, votes1 |-> Nobody,
   votes2 |-> Nobody, accused |-> None, young |-> FALSE]

(* A running game in its first night.  The mafiosi are numbered at random;  *)
(* the one with the first number may have left before the night fell.       *)
Init ==
  \E role \in Casts :
    LET mafiosi == Cast(role, "MAF")
    IN  \E mafs \in SetToSeqs(mafiosi), gone \in BOOLEAN :
          /\ gone => Cardinality(mafiosi) < Dealt(Table).MAF
          /\ game = [NoGame EXCEPT
               !.role = role, !.mafs = mafs,
               !.main = IF gone \/ mafs = <<>> THEN {} ELSE {mafs[1]},
               !.flags = {"game_started", "night"},
               !.voice = DOMAIN role,
               !.docSelf = [p \in DOMAIN role |-> 0]]

----------------------------------------------------------------------------
(* The end of a game *)

(* The conditions of process_for_end_game(). *)
Over(g) ==
  \E n \in {[r \in Roles |-> Count(g, r)]} :
    LET mir == n.MIR + n.KAT + n.DOC + n.BOM
        bad == n.MAF + n.MAN
    IN  \/ bad = 0
        \/ n.MAF >= mir /\ mir < 3 /\ n.KAT = 0
        \/ mir < 2 /\ n.MAN > 0 /\ n.MAF = 0 /\ n.KAT = 0
        \/ n.MAF = 1 /\ n.KAT = 1 /\ mir = 1
        \/ n.MAF = 1 /\ n.MAN = 1 /\ mir < 2
        \/ n.MAN = 1 /\ n.KAT = 1 /\ mir = 1 /\ bad = 1

----------------------------------------------------------------------------
(* Night *)

RemoveLeft(g) == [g EXCEPT !.marked = @ \cup g.left]

(* do_night(), behind day = false where its caller has that.  The votes are *)
(* not read again before do_vote1() clears them: the model clears them here. *)
DoNight(g) ==
  [RemoveLeft(g) EXCEPT
     !.flags = (@ \ {"day"}) \cup {"night"},
     !.order = Nobody, !.kill = {}, !.doced = {}, !.valed = {},
     !.votes1 = Nobody, !.votes2 = Nobody, !.accused = None, !.young = FALSE]

(* The numbers of the living mafiosi. *)
Heirs(g) == {i \in DOMAIN g.mafs : g.mafs[i] \in Living(g)}

(* Faulty: the flag of a head who is out counts as well. *)
CheckMainAny(g) ==
  IF g.main # {} \/ Heirs(g) = {}
  THEN g
  ELSE [g EXCEPT !.main = @ \cup {g.mafs[Min(Heirs(g))]}]

(* check_for_main_maf() and make_main_maf(false): the first living number.  *)
CheckMain(g) ==
  IF g.main \cap Living(g) # {} \/ Heirs(g) = {}
  THEN g
  ELSE [g EXCEPT !.main = @ \cup {g.mafs[Min(Heirs(g))]}]

(* Those who have an order to give: check_all_orders(), do_day().           *)
Ordering(g) ==
  {p \in Living(g) : g.role[p] # "MIR" /\ (g.role[p] = "MAF" => p \in g.main)}

Ordered(g) == DOMAIN g.order

(* Faulty: a DOC never tires of himself. *)
RefusedNever(g, u, z) ==
  {u, z} \cap g.marked # {} \/ u \notin Ordering(g) \/ (u = z /\ g.role[u] # "DOC")

(* process_night(): an order of u about z; dbl is an order with "!!".       *)
Refused(g, u, z) ==
  \/ {u, z} \cap g.marked # {}
  \/ u \notin Ordering(g)
  \/ u = z /\ (g.role[u] # "DOC" \/ g.docSelf[u] > 2)

Earlier(g, u) == IF u \in Ordered(g) THEN {g.order[u]} ELSE {}

(* Faulty: the target of an earlier order stays doced or valed. *)
TakeOrderKept(g, u, z, dbl) ==
  [g EXCEPT
     !.order = Put(@, u, z),
     !.kill  = IF g.role[u] \in {"MAF", "MAN"} \/ (g.role[u] = "KAT" /\ dbl)
               THEN @ \cup {u} ELSE @ \ {u},
     !.doced = IF g.role[u] = "DOC" THEN @ \cup {z} ELSE @,
     !.valed = IF g.role[u] = "VAL" THEN @ \cup {z} ELSE @]

TakeOrder(g, u, z, dbl) ==
  [g EXCEPT
     !.order = Put(@, u, z),
     !.kill  = IF g.role[u] \in {"MAF", "MAN"} \/ (g.role[u] = "KAT" /\ dbl)
               THEN @ \cup {u} ELSE @ \ {u},
     !.doced = IF g.role[u] = "DOC" THEN (@ \ Earlier(g, u)) \cup {z} ELSE @,
     !.valed = IF g.role[u] = "VAL" THEN (@ \ Earlier(g, u)) \cup {z} ELSE @]

ProcessNight(g, u, z, dbl) ==
  IF Refused(g, u, z)
  THEN g
  ELSE LET h == TakeOrder(g, u, z, dbl)
       IN  IF Ordering(h) \subseteq Ordered(h)
           THEN [h EXCEPT !.flags = (@ \ {"night"}) \cup {"morning"}]
           ELSE h

----------------------------------------------------------------------------
(* Day *)

DoVote1(g) ==
  [g EXCEPT !.flags = (@ \ {"vote2", "vote_say"}) \cup {"vote1"},
            !.votes1 = Nobody, !.votes2 = Nobody, !.accused = None]

(* The orders that kill in do_day(): a VAL keeps whom he visits at home.    *)
Killers(g) ==
  {p \in Living(g) \cap Ordered(g) \cap g.kill :
     g.role[p] \in {"MAF", "MAN", "KAT"} /\ p \notin g.valed}

Killed(g) == {g.order[p] : p \in Killers(g)} \ g.doced

Failed(g) == Ordering(g) \ Ordered(g)

CountSelf(g) ==
  [p \in Gamers(g) |->
     IF g.role[p] = "DOC" /\ p \in Living(g) \cap Ordered(g)
     THEN IF g.order[p] = p THEN g.docSelf[p] + 1 ELSE 0
     ELSE g.docSelf[p]]

(* do_day(): the orders take effect, those who gave none die, and the ones  *)
(* who left are removed.  The orders are not read again before do_night()   *)
(* resets them: the model resets them here.                                 *)
Dawn(g) ==
  LET out == Killed(g) \cup Failed(g)
  IN  RemoveLeft(
        [g EXCEPT
           !.flags   = (@ \ {"night", "morning"}) \cup {"day"},
           !.marked  = @ \cup out,
           !.voice   = @ \ out,
           !.docSelf = CountSelf(g),
           !.order = Nobody, !.kill = {}, !.doced = {}, !.valed = {},
           !.young   = TRUE])

DoDay ==
  \E dawn \in {Dawn(game)} :
    game' = IF Over(dawn) THEN NoGame ELSE DoVote1(CheckMain(dawn))

VotesFor(g, z) == Cardinality({u \in DOMAIN g.votes1 : g.votes1[u] = z})

(* Those with the most votes; nobody as long as nobody has voted. *)
Leaders(g) ==
  LET named == {g.votes1[u] : u \in DOMAIN g.votes1}
      tally == [z \in named |-> VotesFor(g, z)]
  IN  {z \in named : \A y \in named : tally[y] <= tally[z]}

(* check_for_vote1_end() *)
Vote1Decided(g) ==
  LET all == Cardinality(Living(g))
      leaders == Leaders(g)
  IN  \/ Cardinality(leaders) = 1 /\ \E z \in leaders : VotesFor(g, z) > all \div 2
      \/ Cardinality(DOMAIN g.votes1) >= all

(* Faulty: a draw ends the day and nothing begins the night. *)
EndVote1Draw(g) ==
  LET ended == [g EXCEPT !.flags = @ \ {"vote1"}]
      leaders == Leaders(g)
  IN  IF Cardinality(leaders) = 1
      THEN [ended EXCEPT !.flags = @ \cup {"vote_say"}, !.votes1 = Nobody,
                         !.accused = CHOOSE z \in leaders : TRUE]
      ELSE [ended EXCEPT !.flags = @ \ {"day"}]

(* end_vote1() *)
EndVote1(g) ==
  LET ended == [g EXCEPT !.flags = @ \ {"vote1"}]
      leaders == Leaders(g)
  IN  IF Cardinality(leaders) = 1
      THEN [ended EXCEPT !.flags = @ \cup {"vote_say"}, !.votes1 = Nobody,
                         !.accused = CHOOSE z \in leaders : TRUE]
      ELSE DoNight(ended)

(* process_day(): u accuses z. *)
ProcessDay(g, u, z) ==
  IF ~Has(g, "vote1") \/ {u, z} \cap g.marked # {}
  THEN g
  ELSE LET h == [g EXCEPT !.votes1 = Put(@, u, z)]
       IN  IF Vote1Decided(h) THEN EndVote1(h) ELSE h

Votes(g, answer) == Cardinality({u \in DOMAIN g.votes2 : g.votes2[u] = answer})
Others(g)        == Cardinality(Living(g)) - 1

(* check_for_vote2_end() *)
Vote2Decided(g) ==
  \/ Cardinality(DOMAIN g.votes2) >= Others(g)
  \/ \E answer \in BOOLEAN : Votes(g, answer) > Others(g) \div 2

Acquitted(g) ==
  \/ Cardinality(DOMAIN g.votes2) < (Others(g) * 40) \div 100
  \/ Votes(g, FALSE) > Others(g) \div 2
  \/ Votes(g, TRUE) = Votes(g, FALSE)

Lynch(g) ==
  LET dusk == [g EXCEPT !.flags = @ \ {"day", "vote2"},
                        !.marked = @ \cup {g.accused}, !.voice = @ \ {g.accused}]
  IN  IF Over(dusk) THEN NoGame ELSE DoNight(CheckMain(dusk))

(* Faulty: more yes than no is enough. *)
EndVote2Plurality(g) ==
  IF Acquitted(g)
  THEN IF g.young THEN DoVote1(g) ELSE DoNight(g)
  ELSE IF Votes(g, TRUE) > Votes(g, FALSE) THEN Lynch(g) ELSE DoNight(g)

(* Faulty: an acquittal begins the votes anew however old the day is. *)
EndVote2Again(g) ==
  IF Acquitted(g)
  THEN DoVote1(g)
  ELSE IF Votes(g, TRUE) > Others(g) \div 2 THEN Lynch(g) ELSE DoNight(g)

(* end_vote2() *)
EndVote2(g) ==
  IF Acquitted(g)
  THEN IF g.young THEN DoVote1(g) ELSE DoNight(g)
  ELSE IF Votes(g, TRUE) > Others(g) \div 2 THEN Lynch(g) ELSE DoNight(g)

(* do_vote_yes(), do_vote_no() *)
DoVote2(g, u, answer) ==
  LET h == [g EXCEPT !.votes2 = Put(@, u, answer)]
  IN  IF Vote2Decided(h) THEN EndVote2(h) ELSE h

(* process_day_or_night(): the night that process_day() may have begun sees *)
(* the same message.                                                        *)
ProcessDayOrNight(g, u, z, dbl) ==
  LET h == IF Has(g, "day") THEN ProcessDay(g, u, z) ELSE g
  IN  IF Has(h, "night") THEN ProcessNight(h, u, z, dbl) ELSE h

----------------------------------------------------------------------------
(* What comes from the room *)

(* "!name" or "!!name", to the room or to the bot.  Nobody checks that a    *)
(* sender is still in the room: one who was kicked can write to the bot.    *)
(* Only for a KAT the second "!" makes a difference.                        *)
Message(u, z, dbl) ==
  /\ {u, z} \subseteq Living(game)
  /\ \/ Has(game, "night") /\ ~Refused(game, u, z)
     \/ Has(game, "day") /\ Has(game, "vote1")
  /\ dbl => game.role[u] = "KAT"
  /\ game' = ProcessDayOrNight(game, u, z, dbl)

(* "!yes", "!no" to the room.  It is moderated, so one needs a voice.  A    *)
(* player who was removed because he was away keeps his, and the bot does   *)
(* not note that he returns.                                                *)
Vote(u, answer) ==
  /\ Has(game, "day") /\ Has(game, "vote2") /\ ~Has(game, "vote_say")
  /\ u \in game.voice /\ (u \in game.left => u \in game.marked)
  /\ u # game.accused
  /\ game' = DoVote2(game, u, answer)

Present(p) == p \in Living(game) \ game.left

MoreMayLeave == Cardinality(game.left \ game.marked) < MaxAway

(* QUIT, KICK *)
Leave(p) ==
  /\ Present(p) /\ MoreMayLeave
  /\ game' = [game EXCEPT !.left = @ \cup {p}]

(* JOIN *)
Return(p) ==
  /\ p \in (game.left \cap Living(game)) \ game.chnick
  /\ game' = [game EXCEPT !.left = @ \ {p}, !.voice = @ \cup {p}]

(* NICK *)
ChangeNick(p) ==
  /\ Present(p) /\ MoreMayLeave
  /\ game' = [game EXCEPT !.left = @ \cup {p}, !.chnick = @ \cup {p},
                          !.voice = @ \ {p}]

(* "!halt" of somebody with access. *)
Halt == Has(game, "game_started") /\ game' = NoGame

----------------------------------------------------------------------------
(* The clock: process_game() *)

NightTimeout   == Has(game, "night") /\ DoDay
MorningTimeout == Has(game, "morning") /\ DoDay

Vote1Timeout ==
  Has(game, "day") /\ Has(game, "vote1") /\ game' = EndVote1(game)

(* Also after "!all": the accused has said enough. *)
VoteSayTimeout ==
  /\ Has(game, "day") /\ Has(game, "vote_say")
  /\ game' = [game EXCEPT !.flags = (@ \ {"vote_say"}) \cup {"vote2"}]

Vote2Timeout ==
  /\ Has(game, "day") /\ Has(game, "vote2")
  /\ LET ended == EndVote2(game)
     IN  game' = [ended EXCEPT !.flags = @ \ {"vote2"}]

DayGrowsOld ==
  /\ Has(game, "day") /\ game.young
  /\ game' = [game EXCEPT !.young = FALSE]

Timeout ==
  \/ NightTimeout \/ MorningTimeout
  \/ Vote1Timeout \/ VoteSayTimeout \/ Vote2Timeout

Room ==
  \/ \E u, z \in Gamers(game), dbl \in BOOLEAN : Message(u, z, dbl)
  \/ \E u \in Gamers(game), answer \in BOOLEAN : Vote(u, answer)
  \/ \E p \in Gamers(game) : Leave(p) \/ Return(p) \/ ChangeNick(p)
  \/ Halt

Next == Timeout \/ DayGrowsOld \/ Room

(* The bot looks at the clock whenever there is nothing to read, and time   *)
(* passes: while the game waits for a timeout, one comes in the end.        *)
Spec == Init /\ [][Next]_game /\ WF_game(Timeout) /\ WF_game(DayGrowsOld)

----------------------------------------------------------------------------
(* Properties *)

(* A game has the fields it should; what a player does is known of players  *)
(* of this game only, and no DOC heals himself more than three times in a   *)
(* row (night.cpp, process_night).                                          *)
TypeOK ==
  /\ game.role \in Casts \cup {Nobody}
  /\ game.flags \subseteq
       {"game_started", "night", "morning", "day", "vote1", "vote_say", "vote2"}
  /\ \A set \in {game.main, Range(game.mafs), game.marked, game.left, game.chnick,
                 game.voice, game.kill, game.doced, game.valed} :
       set \subseteq Gamers(game)
  /\ \A f \in {game.order, game.votes1} :
       f \in [DOMAIN f -> Gamers(game)] /\ DOMAIN f \subseteq Gamers(game)
  /\ game.votes2 \in [DOMAIN game.votes2 -> BOOLEAN]
  /\ DOMAIN game.votes2 \subseteq Gamers(game)
  /\ game.docSelf \in [Gamers(game) -> 0..3]
  /\ game.accused \in Gamers(game) \cup {None}
  /\ game.young \in BOOLEAN

(* A game that runs always waits for exactly one timeout of process_game(): *)
(* of the night, the morning or one vote of the day.  With none it would    *)
(* stand still until somebody halts it; with two it would do both.          *)
TimerPending ==
  Has(game, "game_started") =>
    /\ Cardinality(game.flags \cap {"night", "morning", "day"}) = 1
    /\ Has(game, "day") =>
         Cardinality(game.flags \cap {"vote1", "vote_say", "vote2"}) = 1

(* By day the game is not decided, the accused is alive, and the living     *)
(* mafiosi have exactly one living head (process_for_end_game,              *)
(* check_for_main_maf; whoever leaves stays in the game until it is night). *)
DaySound ==
  Has(game, "day") =>
    /\ ~Over(game)
    /\ Has(game, "vote_say") \/ Has(game, "vote2") => game.accused \in Living(game)
    /\ LivingAs(game, "MAF") # {} =>
         Cardinality(game.main \cap LivingAs(game, "MAF")) = 1

(* The orders of a night are of living players about living players, of no  *)
(* mafioso but the head, and the marks that orders put on their targets     *)
(* (doced, valed) are those of the present orders: a DOC or VAL who changed *)
(* his mind has taken back the first.  Two of them would take back each     *)
(* other's.  In the morning nobody's order is missing.                      *)
OrdersCurrent ==
  Has(game, "night") \/ Has(game, "morning") =>
    /\ Ordered(game) \subseteq Ordering(game)
    /\ \A u \in Ordered(game) :
         /\ game.order[u] \in Living(game)
         /\ game.order[u] = u => game.role[u] = "DOC"
    /\ Count(game, "DOC") <= 1 =>
         game.doced = {game.order[u] : u \in Ordered(game) \cap Cast(game.role, "DOC")}
    /\ Count(game, "VAL") <= 1 =>
         game.valed = {game.order[u] : u \in Ordered(game) \cap Cast(game.role, "VAL")}
    /\ Has(game, "morning") => Ordering(game) = Ordered(game)

(* What the orders themselves say of p: somebody who kills was sent to him, *)
(* met no VAL at home, and no DOC was with p.                               *)
OrderedDead(p) ==
  LET To(r, z) == {u \in Ordered(game) : game.role[u] = r /\ game.order[u] = z}
  IN  /\ To("DOC", p) = {}
      /\ \E u \in To("MAF", p) \cup To("MAN", p) \cup (To("KAT", p) \cap game.kill) :
           To("VAL", u) = {}

(* More than half of the others want the accused dead, by these votes. *)
Condemned(votes) == 2 * Cardinality({u \in DOMAIN votes : votes[u]}) > Others(game)

Dawned == ~Has(game, "day") /\ game'.flags \cap {"day"} # {}
Ended  == Has(game, "day") /\ game'.flags \cap {"day"} = {}
Out    == game'.marked \ game.marked
Away   == game.left \cap Living(game)
Idle   == {p \in Living(game) : /\ game.role[p] # "MIR" /\ p \notin Ordered(game)
                                /\ game.role[p] = "MAF" => p \in game.main}
Gone   == IF Ended THEN Away ELSE {}

Verdict(votes) ==
  /\ game' # NoGame => Out \in {Gone, Gone \cup {game.accused}}
  /\ DOMAIN votes \subseteq Living(game) =>
       IF game' = NoGame THEN Condemned(votes)
       ELSE Out = Gone \cup {p \in {game.accused} : Condemned(votes)}

Voted == \E u \in Gamers(game), answer \in BOOLEAN : Vote(u, answer)

(* Nobody dies, and nobody survives, but for a reason.  At dawn exactly     *)
(* those go who were killed by an order, gave none, or were away.  At any   *)
(* other time those who were away go, exactly when a day ends, and with the *)
(* second vote the accused, exactly when more than half of the other living *)
(* players said yes; no other verdict ends the game.  Where a player who is *)
(* out has voted too, which the code counts (do_vote_yes) although by the   *)
(* rules he only watches (php/c2/help/mafia.php.php:74, 152), this says     *)
(* only that nobody else goes.  A step that ends the game forgets who died. *)
DeathsExplained ==
  [][Has(game, "game_started") =>
       /\ \A u \in Gamers(game), answer \in BOOLEAN :
            Vote(u, answer) => Verdict(Put(game.votes2, u, answer))
       /\ Vote2Timeout => Verdict(game.votes2)
       /\ game' # NoGame /\ ~Voted /\ ~Vote2Timeout =>
            Out = IF Dawned THEN {p \in Living(game) : OrderedDead(p)} \cup Idle \cup Away
                  ELSE Gone]_game

(* Every day ends: the room cannot vote for ever, since an acquittal begins *)
(* the votes anew only while the day is young (day.cpp, end_vote2).         *)
DaysEnd ==
  Has(game, "day") ~> Has(game, "night") \/ game = NoGame
==============================================================================
