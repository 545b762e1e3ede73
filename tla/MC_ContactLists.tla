---------------------------- MODULE MC_ContactLists ----------------------------
(* ContactLists for a browser and an IRC client, with two nicks each; the    *)
(* IRC client may hide from the browser, whose mode hides the IRC client.    *)
(* Two events from the empty room; from the room when both have just joined, *)
(* the browser first, with the replays and the page still to come; and from  *)
(* the room with both in it, when everything has settled.                    *)
EXTENDS ContactLists

CONSTANTS web, irc

IrcAboveWeb == {<<irc, web>>}
WebHidesIrc == {<<web, irc>>}

InRoom(u) == [user |-> u, where |-> "here", inv |-> FALSE, nick |-> 1, hides |-> FALSE]
IdOf      == [u \in Users |-> IF u = web THEN 1 ELSE 2]

Joined(u) == [user |-> u, event |-> [room |-> "here", nick |-> 1, inv |-> FALSE]]
Named(u) == [nick |-> 1, object |-> IdOf[u]]

BothThere ==
  /\ objects = <<InRoom(web), InRoom(irc)>>
  /\ loaded = IdOf /\ conn = IdOf
  /\ listens = Users
  /\ echoes = [u \in Users |-> [e \in Echoes |-> 0]]
  /\ owes = {} /\ unsure = {} /\ unheard = {} /\ outdated = {}
  /\ profile = [u \in Users |-> FALSE]
  /\ inputs = 0

Arriving ==
  /\ BothThere
  /\ list = [i \in Users |-> [u \in Users |->
              IF <<i, u>> = <<web, irc>> THEN None ELSE Named(u)]]
  /\ told = [i \in Users |-> IF i = web THEN None ELSE Users \X {1}]
  /\ pending = IdOf
  /\ replays = <<Joined(web), Joined(irc)>>
  /\ asks = {web}

Settled ==
  /\ BothThere
  /\ list = [i \in Users |-> [u \in Users |-> Named(u)]]
  /\ told = [i \in Users |-> Users \X {1}]
  /\ pending = [u \in Users |-> 0]
  /\ replays = <<>>
  /\ asks = {}

StartedSpec == (Init \/ Arriving \/ Settled) /\ [][Next]_vars
==============================================================================
