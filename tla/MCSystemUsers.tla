--------------------------- MODULE MCSystemUsers ---------------------------
(* A small office: two accounts, two free ids, two requests in flight.      *)
EXTENDS SystemUsers, TLC

CONSTANTS ann, bob, id3, id4, viewer, editor, ghost

MCUserIds == {ann, bob, id3, id4}
MCNames == {"", "ann", "bob", " bob", "cat"}
MCTrim == [n \in MCNames |-> IF n = " bob" THEN "bob" ELSE n]
MCRoleIds == {viewer, editor, ghost}
MCRoles == {viewer, editor}
MCSeedUsers == ann :> "ann" @@ bob :> "bob"
MCSeedRoles == {viewer}

B(n, p, s, roles) ==
    [username |-> n, password |-> p, status |-> s, roles |-> roles]

MCCreateBodies == {
    B("cat", "good", Null, {viewer, editor}),
    B("cat", "good", 2, {editor}),
    B(" bob", "good", 1, {ghost, viewer}),
    B("cat", "good", 1, {})}

MCUpdateBodies == {
    B("cat", "none", Null, Null),
    B(" bob", "good", 1, {viewer}),
    B("", "none", 0, Null),
    B(Null, "weak", 1, {editor}),
    B(Null, "none", 2, {editor}),
    B(Null, "none", 0, {viewer, editor}),
    B(Null, "none", Null, {editor}),
    B(Null, "good", Null, {}),
    B(Null, "none", Null, Null)}
=============================================================================
