----------------------------- MODULE MC_TcpServer -----------------------------
(* TcpServer on a small instance. *)
EXTENDS TcpServer

CONSTANTS c1, c2, c3, l1, l2, h1, h2, h3
==============================================================================
