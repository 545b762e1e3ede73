---------------------------- MODULE MC_ChatThread ----------------------------
(* ChatThread on one user, two rooms and two network threads.  The rooms    *)
(* may not be exchanged, normalize_user_channels goes through them in the   *)
(* order of their ids.                                                      *)
EXTENDS ChatThread
==============================================================================
