----------------------------- MODULE MCConsole -----------------------------
(* A key and one to come, a webhook, the account, no subscription: tables with *)
(* each kind of operation, the health page and the logs.                       *)
EXTENDS Console

CONSTANTS k1, k2, w, u

MCItems   == [p \in Tables |-> CASE p = "/keys" -> {k1, k2} [] p = "/webhooks" -> {w}
                                 [] p = "/admin/users" -> {u} [] OTHER -> {}]
MCAtFirst == [p \in Tables |-> IF p = "/keys" THEN {k1} ELSE MCItems[p]]
=============================================================================
