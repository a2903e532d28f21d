----------------------------- MODULE MCAdminApi -----------------------------
(* One route of every kind the middlewares tell apart.                      *)
EXTENDS AdminApi, TLC

MCOffered == {"login", "me", "passkeyDelete", "dashboard", "userCreate",
              "userUpdate", "userList"}
=============================================================================
