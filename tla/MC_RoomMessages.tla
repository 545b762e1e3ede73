--------------------------- MODULE MC_RoomMessages ---------------------------
(* RoomMessages for two users, two rooms and two pages, with three inputs   *)
(* of any kind.  Users and rooms are interchangeable.                       *)
EXTENDS RoomMessages, TLC

CONSTANTS u1, u2, r1, r2

Perms == Permutations(Users) \cup Permutations(Rooms)
==============================================================================
