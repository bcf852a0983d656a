---------------------------- MODULE PaidReports ----------------------------
(***************************************************************************)
(* What somebody who orders a report is promised, however often he clicks, *)
(* answers are lost and handlers are repeated: an order takes one slot and *)
(* makes one report, unless it was opened again, which is an order of its  *)
(* own; a slot without a report is known to be wasted.                     *)
(***************************************************************************)
EXTENDS Naturals

CONSTANTS Orders, None

VARIABLES
  report,   \* order -> its report: None, "queued", "success" or "failure"
  slots,    \* order -> slots taken for it
  wasted,   \* order -> those of them for which no report was made
  reopened  \* orders that may make a report again

vars == <<report, slots, wasted, reopened>>

Init ==
  /\ report = [o \in Orders |-> None]
  /\ slots = [o \in Orders |-> 0]
  /\ wasted = [o \in Orders |-> 0]
  /\ reopened = {}

Takes(o) == slots' = [slots EXCEPT ![o] = @ + 1]

\* A slot is taken and the report made; the order may stay open for another one.
Make(o) ==
  /\ report[o] = None \/ o \in reopened
  /\ Takes(o)
  /\ report' = [report EXCEPT ![o] = "queued"]
  /\ reopened' = reopened \/ reopened' = reopened \cup {o}
  /\ UNCHANGED wasted

Waste(o) ==
  /\ report[o] = None \/ o \in reopened
  /\ Takes(o)
  /\ wasted' = [wasted EXCEPT ![o] = @ + 1]
  /\ UNCHANGED <<report, reopened>>

Finish(o) ==
  /\ report[o] = "queued"
  /\ \E end \in {"success", "failure"} : report' = [report EXCEPT ![o] = end]
  /\ UNCHANGED <<slots, wasted, reopened>>

\* Only an order a slot was taken for.
Reopen(o) ==
  /\ slots[o] > 0
  /\ reopened' = reopened \cup {o}
  /\ UNCHANGED <<report, slots, wasted>>

Next == \E o \in Orders : Make(o) \/ Waste(o) \/ Finish(o) \/ Reopen(o)

Spec == Init /\ [][Next]_vars

\* One slot for a report, none without: unless the order was opened again.
PaidOnce ==
  \A o \in Orders :
    IF report[o] = None THEN slots[o] = wasted[o]
    ELSE /\ slots[o] > wasted[o]
         /\ o \notin reopened => slots[o] = wasted[o] + 1
=============================================================================
