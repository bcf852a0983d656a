---------------------------- MODULE EventIntake ----------------------------
(***************************************************************************)
(* What an endpoint for events promises a sender that repeats them: each   *)
(* event is taken at most once, and one that is taken was handled to the   *)
(* end, or is lost and stays so; nothing else is ever written off.         *)
(***************************************************************************)
VARIABLES
  told,   \* events the sender knows of
  taken,  \* events that will not be handled any more
  done,   \* events that were handled
  lost,   \* events that were taken and not handled
  twice   \* events that were handled again

vars == <<told, taken, done, lost, twice>>

Init == told = {} /\ taken = {} /\ done = {} /\ lost = {} /\ twice = {}

\* The sender never takes back what it told.
Tell ==
  /\ told \subseteq told'
  /\ UNCHANGED <<taken, done, lost, twice>>

Take(e) ==
  /\ e \in told \ taken
  /\ taken' = taken \cup {e}
  /\ \/ done' = done \cup {e} /\ UNCHANGED lost
     \/ lost' = lost \cup {e} /\ UNCHANGED done
  /\ UNCHANGED <<told, twice>>

Next ==
  \/ Tell
  \/ \E e \in told : Take(e)

Spec == Init /\ [][Next]_vars

\* Handled or lost, never both, and never twice.
Settled == taken = done \cup lost /\ done \cap lost = {} /\ twice = {}
=============================================================================
