------------------------------ MODULE KeyRing ------------------------------
(***************************************************************************)
(* What the holder of an account is promised of its keys, whatever several *)
(* devices and a server that dies halfway do: a key that was revoked or    *)
(* has expired never works again, and what the holder does never takes the *)
(* last one that works.  Dates and the administrator may.                  *)
(***************************************************************************)
CONSTANT Keys

VARIABLES
  open,     \* whether the account may be used
  live,     \* keys that work
  revoked,
  expired

vars == <<open, live, revoked, expired>>

Ended == revoked \cup expired

Init ==
  /\ open = TRUE
  /\ live \in (SUBSET Keys) \ {{}}
  /\ revoked = {} /\ expired = {}

Fresh == Keys \ (live \cup Ended)

New(k) ==
  /\ open /\ k \in Fresh
  /\ live' = live \cup {k}
  /\ UNCHANGED <<open, revoked, expired>>

\* Not the last one that works.
Revoke(k) ==
  /\ open /\ k \in live \cup expired /\ live # {k}
  /\ live' = live \ {k}
  /\ revoked' = revoked \cup {k}
  /\ UNCHANGED <<open, expired>>

\* The new one comes with the end of the old one.
Replace(k, new) ==
  /\ open /\ k \in live \cup Ended /\ new \in Fresh
  /\ live' = (live \ {k}) \cup {new}
  /\ revoked' = revoked \cup {k}
  /\ UNCHANGED <<open, expired>>

Expire(k) ==
  /\ k \in live
  /\ live' = live \ {k}
  /\ expired' = expired \cup {k}
  /\ UNCHANGED <<open, revoked>>

\* The account is blocked, or deleted with all it might have had.
Close ==
  /\ open' = FALSE
  /\ live' = {}
  /\ revoked' \in {revoked \cup live \cup expired, Keys}
  /\ UNCHANGED expired

\* It is unblocked, and the keys stay as they are.
Reopen ==
  /\ ~open /\ open' = TRUE
  /\ UNCHANGED <<live, revoked, expired>>

Next ==
  \/ \E k \in Keys : New(k) \/ Revoke(k) \/ Expire(k)
  \/ \E k, new \in Keys : Replace(k, new)
  \/ Close \/ Reopen

Spec == Init /\ [][Next]_vars

\* No key works that has ended, none that has ended is forgotten, and while the account
\* is open the last one that works goes only by its date.
NeverAgain ==
  /\ [](live \cap Ended = {})
  /\ [][Ended \subseteq Ended']_vars
  /\ [][live # {} /\ live' = {} => expired' # expired \/ ~open']_vars
=============================================================================
