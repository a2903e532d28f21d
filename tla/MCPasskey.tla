----------------------------- MODULE MCPasskey -----------------------------
(* Two accounts.  The cfg files choose which requests are made.             *)
EXTENDS Passkey, TLC

CONSTANTS ann, bob, c1, c2, c3, k1, k2, b1, b2, f1, f2, d1

OneEach ==
    c1 :> [user |-> ann, count |-> 0, row |-> 1]
      @@ c2 :> [user |-> bob, count |-> 0, row |-> 2]
AnnOnly == c1 :> [user |-> ann, count |-> 0, row |-> 1]

\* Two logins, each response sent once or twice, and a removal.
LoginOps == b1 :> "beginLogin" @@ b2 :> "beginLogin" @@
            f1 :> "finishLogin" @@ f2 :> "finishLogin" @@ d1 :> "delete"

\* The same for registrations.
RegisterOps == b1 :> "beginRegister" @@ b2 :> "beginRegister" @@
               f1 :> "finishRegister" @@ f2 :> "finishRegister" @@ d1 :> "delete"

\* One login, its response sent twice, and a removal.
RetryOps == b1 :> "beginLogin" @@
            f1 :> "finishLogin" @@ f2 :> "finishLogin" @@ d1 :> "delete"

\* One login with its response sent once, and a removal.
ShortOps == b1 :> "beginLogin" @@ f1 :> "finishLogin" @@ d1 :> "delete"

\* Requests of one kind and session keys are interchangeable.
Twins == Permutations({b1, b2}) \cup Permutations({f1, f2}) \cup Permutations({k1, k2})
=============================================================================
