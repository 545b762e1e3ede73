--------------------------- MODULE MC_DialogServer ---------------------------
(* DialogServer on two sockets that take turns on one descriptor and two    *)
(* handlers.  The client of s1 sends two characters: two ends of line, or a *)
(* line in one or two pieces; that of s2 only closes.                       *)
EXTENDS DialogServer, TLC

CONSTANTS s1, s2, f1, h1, h2

TwoFromFirst == [s \in Socks |-> IF s = s1 THEN 2 ELSE 0]

Perms == Permutations(Handlers)
==============================================================================
