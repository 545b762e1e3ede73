------------------------------- MODULE MC_Mafia -------------------------------
(* Mafia for the three or four that are left of a game of twelve, in which  *)
(* every role is dealt: a head who has an heir, three who kill and a VAL,   *)
(* and a DOC.                                                               *)
EXTENDS Mafia

CONSTANTS a, b, c, d

Of(ra, rb, rc, rd) == (a :> ra) @@ (b :> rb) @@ (c :> rc) @@ (d :> rd)

FewLeft ==
  { Of("MAF", "MAF", "KAT", "MIR"),
    Of("MAF", "MAN", "KAT", "VAL"),
    (a :> "MAF") @@ (b :> "DOC") @@ (c :> "MIR"),
    (a :> "MAF") @@ (b :> "DOC") @@ (c :> "BOM") }
==============================================================================
