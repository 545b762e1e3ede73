----------------------------- MODULE MC_IgnoreLists -----------------------------
(* IgnoreLists: one user, two handlers. *)
EXTENDS IgnoreLists, TLC

CONSTANTS u1, z1, h1, h2

Perms == Permutations(Handlers)
==============================================================================
