--------------------------- MODULE MC_GlobalState ---------------------------
(* GlobalState on two users and two channels.                               *)
EXTENDS GlobalState
==============================================================================
