-------------------------- MODULE ChannelDirectory --------------------------
(***************************************************************************)
(* What the callers of __global_state (chatserver/global_state.h) rely on:  *)
(* a directory that says, for each user, which channels the user is in with *)
(* each client type, and answers a query with the state of that moment.     *)
(* It has no cache; GlobalState implements it with one.                     *)
(***************************************************************************)
EXTENDS UserState

VARIABLES
  where,    \* where[u]: the channels of user u
  answer    \* the last query and what it returned

vars == <<where, answer>>

NoQuery == [user |-> "none", ct |-> "none", channels |-> {}]

Init ==
  /\ where = [u \in Users |-> {}]
  /\ answer = NoQuery

(* A whole new state, a partial leave, or a removed user. *)
Update(u) ==
  /\ \E us \in ChannelUs : where' = [where EXCEPT ![u] = us]
  /\ UNCHANGED answer

Query(u, ct) ==
  /\ answer' = [user |-> u, ct |-> ct, channels |-> GetChannel(where[u], ct)]
  /\ UNCHANGED where

Next ==
  \E u \in Users :
    \/ Update(u)
    \/ \E ct \in CT : Query(u, ct)

Spec == Init /\ [][Next]_vars
==============================================================================
