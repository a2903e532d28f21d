---------------------------- MODULE MCFrontUsers ----------------------------
(* Two users and a free id.                                                 *)
EXTENDS FrontUsers, TLC

u1 == 1
u2 == 2
MCTexts == {"", " ", "amy", "ben", " ben", "cy", "111", "222", "a@x"}
MCTrim == [t \in MCTexts |-> CASE t = " " -> "" [] t = " ben" -> "ben" [] OTHER -> t]

F(n, m, e, s) == [username |-> n, mobile |-> m, email |-> e, status |-> s]

MCSeedUsers == u1 :> F("amy", "111", "", 1) @@ u2 :> F("ben", "", "a@x", 1)

MCCreateBodies == {
    F("cy", "222", Null, 1),
    F(" ben", Null, Null, 2),
    F(" ", "222", Null, Null)}

MCUpdateBodies == {
    F(Null, "222", Null, Null),
    F("cy", "", Null, Null),
    F(Null, Null, Null, 0),
    F(Null, Null, "a@x", 2),
    F(Null, " ", "a@x", 1),
    F(Null, Null, Null, Null)}
Twins == Permutations(Requests)
=============================================================================
