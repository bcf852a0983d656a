-------------------------- MODULE MCBrowserSession --------------------------
(* One tab: a user's key, an administrator's, a key still to be generated.   *)
EXTENDS BrowserSession

CONSTANTS u, n, adm, f1
=============================================================================
