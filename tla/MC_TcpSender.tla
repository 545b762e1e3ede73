----------------------------- MODULE MC_TcpSender -----------------------------
(* TcpSender on small instances. *)
EXTENDS TcpSender

CONSTANTS s1, s2, f1, f2, w1, w2
==============================================================================
