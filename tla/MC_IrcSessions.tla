----------------------------- MODULE MC_IrcSessions -----------------------------
(* IrcSessions: one user and two connections. *)
EXTENDS IrcSessions, TLC

CONSTANTS c1, c2, u1, h1, h2

TwoAndOne == [c \in Conns |-> IF c = c1 THEN 2 ELSE 1]
OneEach == [c \in Conns |-> 1]

OneAccount == [c \in Conns |-> u1]

Perms == Permutations(Handlers)
==============================================================================
