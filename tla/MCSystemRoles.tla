--------------------------- MODULE MCSystemRoles ---------------------------
(* One role, two free ids and one account.                               *)
EXTENDS SystemRoles, TLC

CONSTANTS i1, i2, i3, ann

MCTexts == {"", " ", "root", "clerk", " clerk", "read", " read", "write", "fly"}
MCTrim == [t \in MCTexts |-> CASE t = " " -> "" [] t = " clerk" -> "clerk"
                               [] t = " read" -> "read" [] OTHER -> t]
MCSeedRoles == i1 :> "root"
MCSeedPerms == i1 :> {"read"}
MCSeedUserRoles == ann :> {i1}

Create(c, ps) == [op |-> "create", code |-> c, named |-> TRUE, perms |-> ps]
Update(i, ps) == [op |-> "update", id |-> i, perms |-> ps]

MCCalls == {
    Create("clerk", {"read"}),
    Create(" clerk", {"read", "write"}),
    Create(" ", {"read"}),
    Update(i1, {" read", "read", "write"}),
    Update(i1, {}),
    Update(i1, {"write", "", "fly"}),
    Update(i2, {"write"}),
    [op |-> "get", id |-> i1],
    [op |-> "list"],
    [op |-> "check", user |-> ann, perm |-> "read"]}

Twins == Permutations(Requests)
=============================================================================
