------------------------------ MODULE BytePipes ------------------------------
(* What the rest of the server relies on when it calls write_sender_data:   *)
(* each connection is a pipe.  What is written to a socket goes to that     *)
(* connection, once and in the order of the calls, until the connection     *)
(* closes; what is left then is dropped.  Nothing is said of when.          *)
EXTENDS Naturals, Sequences

CONSTANT Sockets

VARIABLES
  up,        \* the sockets whose connection is open
  pending,   \* per socket, what was written and has not been handed over
  received   \* per socket, what went to the peer

vars == <<up, pending, received>>

Init ==
  /\ up = {}
  /\ pending = [s \in Sockets |-> <<>>]
  /\ received = [s \in Sockets |-> <<>>]

Open(s) ==
  /\ up' = up \cup {s}
  /\ UNCHANGED <<pending, received>>

Close(s) ==
  /\ up' = up \ {s}
  /\ UNCHANGED <<pending, received>>

Write(s, data) ==
  /\ pending' = [pending EXCEPT ![s] = Append(@, data)]
  /\ UNCHANGED <<up, received>>

(* The first k pieces of data move to the peer. *)
Transfer(s, k) ==
  /\ s \in up
  /\ received' = [received EXCEPT ![s] = @ \o SubSeq(pending[s], 1, k)]
  /\ pending' = [pending EXCEPT ![s] = SubSeq(@, k + 1, Len(@))]
  /\ UNCHANGED up

(* The pieces are numbered by their writers' order: no two are alike. *)
Fresh(s) == <<s, Len(received[s]) + Len(pending[s]) + 1>>

Next ==
  \E s \in Sockets :
    \/ Open(s)
    \/ Close(s)
    \/ Write(s, Fresh(s))
    \/ \E k \in 0..Len(pending[s]) : Transfer(s, k)

Spec == Init /\ [][Next]_vars
==============================================================================
