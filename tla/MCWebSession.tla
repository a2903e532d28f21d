--------------------------- MODULE MCWebSession ---------------------------
(* Two tabs and two accounts, with tokens enough for a second session of    *)
(* one of them.                                                             *)
EXTENDS WebSession, TLC
CONSTANTS ann, bob, a1, a2, b1
OwnerOf == a1 :> ann @@ a2 :> ann @@ b1 :> bob
=============================================================================
