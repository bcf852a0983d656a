------------------------ MODULE StripeBillingProofs ------------------------
(***************************************************************************)
(* Proofs about StripeBilling, for any users, contracts and bounds.        *)
(*                                                                         *)
(* An event is about a contract that exists (Known); it is claimed before  *)
(* it is settled, so that it is settled once.  That the charges follow     *)
(* Stripe rests on the latest charge of a contract: its event is still to  *)
(* be handled or was the last to be handled, unless the user was disturbed *)
(* (Latest, Reflected).                                                    *)
(***************************************************************************)
EXTENDS StripeBilling, SubscriptionsProofs, TLAPS

USE DEF payVars

---------------------------------------------------------------------------
(* Type correctness. *)

RowsOK ==
  /\ subs \in [Users -> Row]
  /\ stripeId \in [Users -> Contracts \cup {None}]
CountersOK == now \in 0..MaxTime /\ batch \in 0..MaxBatches /\ faults \in 0..MaxFaults
PaymentsOK ==
  /\ payment \in [Bills -> {None, "succeeded", "failed", "refunded"}]
  /\ receipts \subseteq Contracts
CacheOK    == cache \in [Contracts -> Snapshots]
ContractOK == contract \in [Contracts -> Snapshots]
HistoryOK ==
  /\ disturbed \subseteq Users
  /\ again \subseteq settled /\ settled \cup dropped \subseteq claimed
WellFormed(e) ==
  e.n \in 1..batch /\ e.about \in Contracts /\ e.kind \in Kinds /\ e.snap \in Snapshots
EventsOK == \A e \in outbox \cup claimed : WellFormed(e)

\* TypeOK is its parts.
LEMMA TypeParts ==
  TypeOK <=> /\ RowsOK /\ CountersOK /\ PaymentsOK /\ CacheOK /\ ContractOK /\ HistoryOK
             /\ EventsOK
  BY DEF TypeOK, RowsOK, CountersOK, PaymentsOK, CacheOK, ContractOK, HistoryOK, EventsOK,
         WellFormed

\* Contracts that are told of, or remembered, exist; those that renew have an end.
Known ==
  /\ \A s \in Contracts \ OneTime : contract[s].status # None => contract[s].end \in Nat
  /\ \A e \in outbox \cup claimed : e.snap.status # None /\ contract[e.about].status # None
  /\ \A s \in Contracts : cache[s] = NoContract \/ cache[s].status # None

\* The bounds are numbers, the tables are functions.
LEMMA Facts ==
  /\ MaxTime \in Nat /\ MaxBatches \in Nat /\ MaxFaults \in Nat
  /\ \A s \in Contracts : Owner[s] \in Users /\ PlanOf[s] \in Paid /\ Duration[PlanOf[s]] \in Nat
  /\ NoContract \in Snapshots /\ NoContract.status = None
  /\ StripeLive = {"active", "past_due"} /\ None \notin StripeLive
  BY StripeAssumption, SubscriptionsAssumption
  DEF NoContract, Snapshots, StripeLive, None, Never

\* A bill is of a contract of a user.
LEMMA BillOwner == \A b \in Bills : b[1] \in Contracts /\ Owner[b[1]] \in Users
  BY Facts DEF Bills

\* The initial state is well typed.
LEMMA TypeInit == Init => TypeOK /\ Known
  <1> SUFFICES ASSUME Init PROVE TypeOK /\ Known
    OBVIOUS
  <1>1. RowsOK /\ PaymentsOK
    BY NoRowType DEF Init, RowsOK, PaymentsOK
  <1>2. CacheOK /\ ContractOK
    BY Facts DEF Init, CacheOK, ContractOK
  <1>3. CountersOK /\ HistoryOK /\ EventsOK
    BY Facts DEF Init, CountersOK, HistoryOK, EventsOK
  <1>4. Known
    BY Facts DEF Init, Known
  <1> QED  BY <1>1, <1>2, <1>3, <1>4, TypeParts

\* What may become of a contract.
LEMMA ReportType ==
  ASSUME TypeOK, Known, NEW s \in Contracts, NEW c \in Snapshots, c.status # None,
         s \notin OneTime => c.end \in Nat,
         NEW kinds \in SUBSET Kinds, Report(s, c, kinds), UNCHANGED <<claimed, faults, now>>
  PROVE  /\ ContractOK' /\ CountersOK' /\ EventsOK'
         /\ \A x \in Contracts \ OneTime : contract'[x].status # None => contract'[x].end \in Nat
         /\ \A e \in (outbox \cup claimed)' :
              e.snap.status # None /\ contract'[e.about].status # None
         /\ contract'[s] = c
  <1>0. CountersOK /\ ContractOK /\ EventsOK
    BY TypeParts
  <1>1. contract' = [contract EXCEPT ![s] = c] /\ batch' = batch + 1 /\ batch < MaxBatches
    BY DEF Report
  <1>2. contract' \in [Contracts -> Snapshots] /\ contract'[s] = c
        /\ \A x \in Contracts \ {s} : contract'[x] = contract[x]
    BY <1>0, <1>1 DEF ContractOK
  <1>3. CountersOK'
    BY <1>0, <1>1, Facts DEF CountersOK
  <1>4. ASSUME NEW e \in (outbox \cup claimed)'
        PROVE  WellFormed(e)' /\ e.snap.status # None /\ contract'[e.about].status # None
    <2>1. CASE e \in outbox \cup claimed
      <3>1. WellFormed(e) /\ e.snap.status # None /\ contract[e.about].status # None
        BY <1>0, <2>1 DEF EventsOK, Known
      <3> QED  BY <1>0, <1>1, <1>2, <3>1, Facts DEF WellFormed, CountersOK
    <2>2. CASE e \notin outbox \cup claimed
      <3>1. PICK k \in kinds : e = [n |-> batch + 1, about |-> s, kind |-> k, snap |-> c]
        BY <2>2 DEF Report
      <3>2. e.n = batch + 1 /\ e.about = s /\ e.kind = k /\ e.snap = c
        BY <3>1
      <3> QED  BY <1>0, <1>1, <1>2, <3>2, Facts DEF WellFormed, CountersOK
    <2> QED  BY <2>1, <2>2
  <1>5. \A x \in Contracts \ OneTime : contract'[x].status # None => contract'[x].end \in Nat
    BY <1>2 DEF Known
  <1> QED  BY <1>2, <1>3, <1>4, <1>5 DEF ContractOK, EventsOK

\* activate_stripe_subscription keeps the rows well typed.
LEMMA SyncType ==
  ASSUME RowsOK, NEW s \in Contracts, NEW c \in Snapshots, c.status # None, Sync(s, c)
  PROVE  RowsOK'
  <1>1. /\ c.status \in Statuses /\ c.start \in Nat /\ c.end \in Nat \cup {Never}
    BY Facts DEF Snapshots, Statuses
  <1>2. Owner[s] \in Users /\ PlanOf[s] \in Paid /\ subs[Owner[s]] \in Row
    BY Facts DEF RowsOK
  <1>3. Synced(subs[Owner[s]], PlanOf[s], c.status, c.start, c.end) \in Row
    BY <1>1, <1>2, SyncedType
  <1> QED  BY <1>2, <1>3 DEF Sync, RowsOK

\* So do the cancellations.
LEMMA CancelType ==
  ASSUME RowsOK, now \in Nat, NEW u \in Users, CancelRow(u)
  PROVE  RowsOK'
  <1>1. Canceled(subs[u], now) \in Row
    BY CanceledType DEF RowsOK
  <1> QED  BY <1>1 DEF CancelRow, RowsOK

LEMMA EndRowType ==
  ASSUME RowsOK, NEW u \in Users, NEW c \in Snapshots, EndRow(u, c.end), UNCHANGED stripeId
  PROVE  RowsOK'
  <1>1. Ended(subs[u], c.end) \in Row
    BY EndedType DEF RowsOK, Snapshots
  <1> QED  BY <1>1 DEF EndRow, RowsOK

\* What a handler writes.
LEMMA HandleType ==
  ASSUME TypeOK, Known, NEW e \in outbox \ claimed, NEW c \in Snapshots, c.status # None,
         Handle(e, c), outbox' \subseteq outbox, faults' \in 0..MaxFaults
  PROVE  TypeOK' /\ Known'
  <1>0. /\ RowsOK /\ CountersOK /\ PaymentsOK /\ CacheOK /\ ContractOK /\ HistoryOK /\ EventsOK
        /\ now \in Nat
    BY TypeParts, Facts DEF CountersOK
  <1>1. WellFormed(e) /\ e.snap.status # None
    BY <1>0 DEF EventsOK, Known
  <1>2. RowsOK'
    <2>1. CASE Sync(e.about, c)
      BY <1>0, <1>1, <2>1, SyncType DEF WellFormed
    <2>2. CASE Sync(e.about, e.snap)
      BY <1>0, <1>1, <2>2, SyncType DEF WellFormed
    <2>3. CASE CancelRow(Owner[e.about])
      BY <1>0, <1>1, <2>3, CancelType, Facts DEF WellFormed
    <2>4. CASE UNCHANGED rowVars
      BY <1>0, <2>4 DEF rowVars, RowsOK
    <2> QED  BY <2>1, <2>2, <2>3, <2>4 DEF Handle, Apply
  <1>3. PaymentsOK'
    <2>1. \/ payment' = payment
          \/ \E o \in {"succeeded", "failed"} : payment' = [payment EXCEPT ![Bill(e)] = o]
      BY DEF Handle, Pay
    <2>2. receipts' = receipts \/ receipts' = receipts \cup {e.about}
      BY DEF Handle, Pay, Receive
    <2> QED  BY <1>0, <1>1, <2>1, <2>2 DEF PaymentsOK, WellFormed
  <1>4. cache' = cache \/ cache' = [cache EXCEPT ![e.about] = c]
    BY DEF Handle, Remember
  <1>5. CacheOK' /\ \A s \in Contracts : cache'[s] = NoContract \/ cache'[s].status # None
    BY <1>0, <1>4 DEF CacheOK, Known
  <1>6. UNCHANGED <<contract, batch, now, dropped>> /\ claimed' = claimed \cup {e}
    BY DEF Handle, remoteVars
  <1>7. HistoryOK'
    BY <1>0, <1>1, <1>6, Facts DEF Handle, Disturb, HistoryOK, WellFormed
  <1>8. EventsOK' /\ ContractOK' /\ CountersOK'
    BY <1>0, <1>6 DEF EventsOK, WellFormed, ContractOK, CountersOK
  <1>9. Known'
    BY <1>5, <1>6 DEF Known
  <1> QED
    BY <1>2, <1>3, <1>5, <1>7, <1>8, <1>9
    DEF TypeOK, RowsOK, CountersOK, PaymentsOK, CacheOK, ContractOK, HistoryOK, EventsOK,
        WellFormed

\* What a handler that breaks off has written.
LEMMA PartlyType ==
  ASSUME TypeOK, Known, NEW e \in outbox \ claimed, ApplyPartly(e)
  PROVE  /\ RowsOK' /\ CacheOK'
         /\ \A s \in Contracts : cache'[s] = NoContract \/ cache'[s].status # None
  <1>0. /\ RowsOK /\ CacheOK /\ ContractOK /\ EventsOK
        /\ contract[e.about].status # None /\ e.about \in Contracts
    BY TypeParts DEF EventsOK, WellFormed, Known
  <1>1. CASE UNCHANGED <<rowVars, cache>>
    BY <1>0, <1>1 DEF rowVars, RowsOK, CacheOK, Known
  <1>2. CASE Sync(e.about, contract[e.about]) /\ Remember(e, contract[e.about])
    <2>1. contract[e.about] \in Snapshots
      BY <1>0 DEF ContractOK
    <2>2. RowsOK'
      BY <1>0, <1>2, <2>1, SyncType
    <2>3. cache' = cache \/ cache' = [cache EXCEPT ![e.about] = contract[e.about]]
      BY <1>2 DEF Remember
    <2> QED  BY <1>0, <2>1, <2>2, <2>3 DEF CacheOK, Known
  <1> QED  BY <1>1, <1>2 DEF ApplyPartly

\* A contract with one field changed.
LEMMA ChangedContract ==
  ASSUME NEW c \in Snapshots, NEW st \in StripeLive \cup {None, "canceled"}
  PROVE  /\ [c EXCEPT !.status = st] \in Snapshots
         /\ [c EXCEPT !.status = st].status = st
         /\ [c EXCEPT !.status = st].end = c.end
         /\ [c EXCEPT !.status = st].start = c.start
         /\ [c EXCEPT !.atEnd = TRUE] \in Snapshots
         /\ [c EXCEPT !.atEnd = TRUE].status = c.status
         /\ [c EXCEPT !.atEnd = TRUE].end = c.end
         /\ [c EXCEPT !.atEnd = TRUE].start = c.start
  BY DEF Snapshots

\* Every change Stripe makes is well typed and told in events of these kinds.
LEMMA RemoteType ==
  ASSUME TypeOK, Known, NEW s \in Contracts,
         RemoteCheckout(s) \/ RemoteRenew(s) \/ RemoteRecover(s) \/ RemoteEnd(s)
  PROVE  \E c \in Snapshots, kinds \in SUBSET Kinds :
           /\ c.status # None /\ (s \notin OneTime => c.end \in Nat)
           /\ Report(s, c, kinds)
  <1>0. /\ contract[s] \in Snapshots /\ now \in Nat /\ now \in 0..MaxTime
        /\ s \notin OneTime /\ contract[s].status # None => contract[s].end \in Nat
    BY TypeParts, Facts DEF ContractOK, CountersOK, Known
  <1>k. /\ {"checkout"} \in SUBSET Kinds /\ {"checkout", "updated", "paid"} \in SUBSET Kinds
        /\ {"updated", "paid"} \in SUBSET Kinds /\ {"updated", "failed"} \in SUBSET Kinds
        /\ {"deleted"} \in SUBSET Kinds /\ {"updated"} \in SUBSET Kinds
    BY DEF Kinds
  <1>1. CASE RemoteCheckout(s)
    <2> DEFINE c == [status |-> "active", start |-> now, atEnd |-> FALSE,
                     end |-> IF s \in OneTime THEN Never ELSE now + Duration[PlanOf[s]]]
               kinds == IF s \in OneTime THEN {"checkout"} ELSE {"checkout", "updated", "paid"}
    <2>1. c \in Snapshots /\ c.status = "active" /\ (s \notin OneTime => c.end \in Nat)
      BY <1>0, Facts DEF Snapshots
    <2>2. kinds \in SUBSET Kinds /\ Report(s, c, kinds)
      BY <1>1, <1>k DEF RemoteCheckout
    <2>3. c.status # None
      BY <2>1 DEF None
    <2> HIDE DEF c, kinds
    <2> QED  BY <2>1, <2>2, <2>3
  <1>2. CASE RemoteRenew(s)
    <2> DEFINE next(st) == [status |-> st, start |-> contract[s].end, atEnd |-> FALSE,
                            end |-> contract[s].end + Duration[PlanOf[s]]]
    <2>1. s \notin OneTime /\ contract[s].status = "active"
      BY <1>2 DEF RemoteRenew, RemoteStep
    <2>2. contract[s].end \in 0..MaxTime
      <3>1. contract[s].end \in Nat /\ contract[s].end <= now
        BY <1>0, <1>2, <2>1 DEF None, RemoteRenew
      <3> QED  BY <1>0, <3>1, Facts
    <2>3. ASSUME NEW st \in StripeLive
          PROVE  next(st) \in Snapshots /\ next(st).status = st /\ next(st).end \in Nat
      BY <2>2, Facts DEF Snapshots
    <2>4. \/ Report(s, next("active"), {"updated", "paid"})
          \/ Report(s, next("past_due"), {"updated", "failed"})
      BY <1>2 DEF RemoteRenew, RemoteStep
    <2>5. /\ next("active") \in Snapshots /\ next("active").status = "active"
          /\ next("active").end \in Nat
          /\ next("past_due") \in Snapshots /\ next("past_due").status = "past_due"
          /\ next("past_due").end \in Nat
      BY <2>3, Facts
    <2> HIDE DEF next
    <2> QED  BY <1>k, <2>4, <2>5 DEF None
  <1>3. CASE RemoteRecover(s) \/ RemoteEnd(s)
    <2>1. s \notin OneTime /\ contract[s].status \in StripeLive
      BY <1>3 DEF RemoteRecover, RemoteEnd, RemoteStep, Live
    <2>2. PICK st \in {"active", "canceled"}, kinds \in SUBSET Kinds :
            Report(s, [contract[s] EXCEPT !.status = st], kinds)
      BY <1>3, <1>k DEF RemoteRecover, RemoteEnd, RemoteStep
    <2> DEFINE c == [contract[s] EXCEPT !.status = st]
    <2>3. c \in Snapshots /\ c.status = st /\ c.end = contract[s].end
      <3>1. st \in StripeLive \cup {None, "canceled"} /\ contract[s] \in Snapshots
        BY <1>0, Facts
      <3> QED  BY <3>1, ChangedContract
    <2>4. st # None /\ contract[s].status # None
      BY <2>1, Facts DEF None
    <2>5. Report(s, c, kinds)
      BY <2>2
    <2> HIDE DEF c
    <2> QED  BY <1>0, <2>1, <2>3, <2>4, <2>5
  <1> QED  BY <1>1, <1>2, <1>3

\* Every step keeps the types: one case per action.
LEMMA TypeNext == TypeOK /\ Known /\ [Next]_vars => TypeOK' /\ Known'
  <1> SUFFICES ASSUME TypeOK, Known, [Next]_vars PROVE TypeOK' /\ Known'
    OBVIOUS
  <1>0. /\ RowsOK /\ CountersOK /\ PaymentsOK /\ CacheOK /\ ContractOK /\ HistoryOK /\ EventsOK
        /\ now \in Nat
    BY TypeParts, Facts DEF CountersOK
  <1>d. ASSUME RowsOK', CountersOK', PaymentsOK', CacheOK', ContractOK', HistoryOK', EventsOK'
        PROVE  TypeOK'
    BY <1>d DEF TypeOK, RowsOK, CountersOK, PaymentsOK, CacheOK, ContractOK, HistoryOK,
                EventsOK, WellFormed
  \* Stripe, and what is told of it, stays.
  <1>r. ASSUME UNCHANGED <<remoteVars, claimed>>, outbox' \subseteq outbox,
               RowsOK', CountersOK', PaymentsOK', CacheOK', HistoryOK',
               \A s \in Contracts : cache'[s] = NoContract \/ cache'[s].status # None
        PROVE  TypeOK' /\ Known'
    <2>1. UNCHANGED <<contract, batch>>
      BY <1>r DEF remoteVars
    <2>2. ContractOK' /\ EventsOK' /\ Known'
      BY <1>0, <1>r, <2>1 DEF ContractOK, EventsOK, WellFormed, Known
    <2> QED  BY <1>d, <1>r, <2>2
  <1>c. \A s \in Contracts : cache[s] = NoContract \/ cache[s].status # None
    BY DEF Known
  <1>1. ASSUME NEW s \in Contracts,
               RemoteCheckout(s) \/ RemoteRenew(s) \/ RemoteRecover(s) \/ RemoteEnd(s)
        PROVE  TypeOK' /\ Known'
    <2>1. PICK c \in Snapshots, kinds \in SUBSET Kinds :
            /\ c.status # None /\ (s \notin OneTime => c.end \in Nat)
            /\ Report(s, c, kinds)
      BY <1>1, RemoteType
    <2>2. UNCHANGED <<now, rowVars, payVars, claimed, cache, faults, historyVars>>
      BY <1>1 DEF RemoteCheckout, RemoteRenew, RemoteRecover, RemoteEnd, RemoteStep
    <2>3. disturbed' \subseteq Users
      BY <1>0, <1>1, Facts
      DEF RemoteCheckout, RemoteRenew, RemoteRecover, RemoteEnd, RemoteStep, Disturb, HistoryOK
    <2>4. /\ ContractOK' /\ CountersOK' /\ EventsOK'
          /\ \A x \in Contracts \ OneTime : contract'[x].status # None => contract'[x].end \in Nat
          /\ \A e \in (outbox \cup claimed)' :
               e.snap.status # None /\ contract'[e.about].status # None
      BY <2>1, <2>2, ReportType
    <2>5. RowsOK' /\ PaymentsOK' /\ CacheOK' /\ HistoryOK'
      BY <1>0, <2>2, <2>3
      DEF rowVars, historyVars, RowsOK, PaymentsOK, CacheOK, HistoryOK
    <2> QED  BY <1>c, <1>d, <2>2, <2>4, <2>5 DEF Known
  <1>f. ASSUME Fault PROVE faults' \in 0..MaxFaults
    BY <1>0, <1>f, Facts DEF Fault, CountersOK
  <1>2. ASSUME NEW b \in Bills, Refund(b) \/ RefundHalf(b) PROVE TypeOK' /\ Known'
    <2>1. RowsOK'
      BY <1>0, <1>2, CancelType, BillOwner DEF Refund, RefundHalf, Refundable
    <2>2. PaymentsOK'
      BY <1>0, <1>2 DEF Refund, RefundHalf, PaymentsOK
    <2>3. UNCHANGED <<now, claimed, cache, remoteVars, outbox, historyVars>>
            /\ disturbed' \subseteq Users
      BY <1>0, <1>2, BillOwner DEF Refund, RefundHalf, Refundable, Disturb, HistoryOK
    <2>4. faults' \in 0..MaxFaults
      BY <1>0, <1>2, <1>f DEF Refund, RefundHalf, CountersOK
    <2> QED  BY <1>0, <1>c, <1>r, <2>1, <2>2, <2>3, <2>4
             DEF CountersOK, remoteVars, historyVars, CacheOK, HistoryOK
  <1>3. ASSUME NEW e \in outbox, Webhook(e) \/ WebhookStale(e) \/ WebhookAnswerLost(e)
        PROVE  TypeOK' /\ Known'
    <2>1. e \in outbox \ claimed /\ outbox' \subseteq outbox
      BY <1>3 DEF Webhook, WebhookStale, WebhookAnswerLost
    <2>2. faults' \in 0..MaxFaults
      BY <1>0, <1>3, <1>f DEF Webhook, WebhookStale, WebhookAnswerLost, CountersOK
    <2>3. e.about \in Contracts /\ contract[e.about].status # None
      BY <1>0 DEF EventsOK, WellFormed, Known
    <2>4. PICK c \in {contract[e.about], cache[e.about]} : c.status # None /\ Handle(e, c)
      BY <1>3, <1>c, <2>3 DEF Webhook, WebhookStale, WebhookAnswerLost
    <2>5. c \in Snapshots
      BY <1>0, <2>3, <2>4 DEF ContractOK, CacheOK
    <2> QED  BY <2>1, <2>2, <2>4, <2>5, HandleType
  <1>4. ASSUME NEW e \in outbox, WebhookDuplicate(e) PROVE TypeOK' /\ Known'
    BY <1>0, <1>4, <1>c, <1>r
    DEF WebhookDuplicate, rowVars, remoteVars, historyVars, RowsOK, CountersOK, PaymentsOK,
        CacheOK, HistoryOK
  <1>5. ASSUME NEW e \in outbox, WebhookRaises(e) \/ WebhookDies(e) PROVE TypeOK' /\ Known'
    <2>1. e \in outbox \ claimed /\ ApplyPartly(e) /\ faults' \in 0..MaxFaults
      BY <1>5, <1>f DEF WebhookRaises, WebhookDies
    <2>2. /\ RowsOK' /\ CacheOK'
          /\ \A s \in Contracts : cache'[s] = NoContract \/ cache'[s].status # None
      BY <2>1, PartlyType
    <2>3. UNCHANGED <<now, payVars, contract, batch, outbox, settled, again>>
      BY <1>5 DEF WebhookRaises, WebhookDies, remoteVars, historyVars
    <2>4. \/ UNCHANGED <<claimed, dropped>>
          \/ claimed' = claimed \cup {e} /\ dropped' = dropped \cup {e}
      BY <1>5 DEF WebhookRaises, WebhookDies, historyVars
    <2>5. disturbed' \subseteq Users
      BY <1>0, <1>5, Facts DEF WebhookRaises, WebhookDies, Disturb, HistoryOK, EventsOK, WellFormed
    <2>6. HistoryOK'
      BY <1>0, <2>3, <2>4, <2>5 DEF HistoryOK
    <2>7. (outbox \cup claimed)' = outbox \cup claimed
      BY <2>1, <2>3, <2>4
    <2>8. EventsOK' /\ Known' /\ ContractOK' /\ CountersOK' /\ PaymentsOK'
      BY <1>0, <2>1, <2>2, <2>3, <2>7
      DEF EventsOK, WellFormed, Known, ContractOK, CountersOK, PaymentsOK
    <2> QED  BY <1>d, <2>2, <2>6, <2>8
  <1>6. ASSUME NEW u \in Users, CreateCheckout(u) \/ Consume(u) PROVE TypeOK' /\ Known'
    <2>1. subs[u] \in Row
      BY <1>0 DEF RowsOK
    <2>2. FreshFree(now) \in Row /\ Consumed(subs[u], now) \in Row
      BY <1>0, <2>1, FreshFreeType, ConsumedType
    <2>3. RowsOK'
      BY <1>0, <1>6, <2>2 DEF CreateCheckout, Consume, RowsOK
    <2>4. UNCHANGED <<now, payVars, claimed, cache, remoteVars, outbox, faults, historyVars,
                      disturbed>>
      BY <1>6 DEF CreateCheckout, Consume
    <2> QED  BY <1>0, <1>c, <1>r, <2>3, <2>4
             DEF remoteVars, historyVars, CountersOK, PaymentsOK, CacheOK, HistoryOK
  <1>7. ASSUME NEW u \in Users, CancelEndpoint(u) \/ CancelHalf(u) PROVE TypeOK' /\ Known'
    <2> DEFINE s == stripeId[u]
               c == [contract[s] EXCEPT !.atEnd = TRUE]
    <2>1. s \in Contracts /\ contract[s].status \in StripeLive /\ Report(s, c, {"updated"})
      BY <1>0, <1>7 DEF CancelEndpoint, CancelHalf, CancelAtStripe, Live, RowsOK
    <2>2. contract[s] \in Snapshots /\ contract[s].status # None
      BY <1>0, <2>1, Facts DEF ContractOK
    <2>3. c \in Snapshots /\ c.status = contract[s].status /\ c.end = contract[s].end
      BY <2>2, ChangedContract
    <2>4. s \notin OneTime => c.end \in Nat
      BY <2>1, <2>2, <2>3 DEF Known
    <2>5. {"updated"} \in SUBSET Kinds
      BY DEF Kinds
    <2>6. UNCHANGED <<now, stripeId, payVars, claimed, historyVars, disturbed>>
      BY <1>7 DEF CancelEndpoint, CancelHalf
    <2>7. faults' \in 0..MaxFaults
      BY <1>0, <1>7, <1>f DEF CancelEndpoint, CancelHalf, CountersOK
    <2>8. /\ ContractOK' /\ batch' \in 0..MaxBatches /\ EventsOK' /\ contract'[s] = c
          /\ \A x \in Contracts \ OneTime : contract'[x].status # None => contract'[x].end \in Nat
          /\ \A e \in (outbox \cup claimed)' :
               e.snap.status # None /\ contract'[e.about].status # None
      <3>1. batch' = batch + 1 /\ batch < MaxBatches
              /\ contract' = [contract EXCEPT ![s] = c]
              /\ outbox' = outbox \cup {[n |-> batch + 1, about |-> s, kind |-> k, snap |-> c] :
                                        k \in {"updated"}}
        BY <2>1 DEF Report
      <3> HIDE DEF c, s
      <3>2. contract' \in [Contracts -> Snapshots] /\ contract'[s] = c
              /\ \A x \in Contracts \ {s} : contract'[x] = contract[x]
        BY <1>0, <2>1, <2>3, <3>1 DEF ContractOK
      <3>3. batch' \in 0..MaxBatches
        BY <1>0, <3>1, Facts DEF CountersOK
      <3>4. ASSUME NEW e \in (outbox \cup claimed)'
            PROVE  WellFormed(e)' /\ e.snap.status # None /\ contract'[e.about].status # None
        <4>1. CASE e \in outbox \cup claimed
          <5>1. WellFormed(e) /\ e.snap.status # None /\ contract[e.about].status # None
            BY <1>0, <4>1 DEF EventsOK, Known
          <5> QED  BY <1>0, <2>2, <2>3, <3>1, <3>2, <5>1, Facts DEF WellFormed, CountersOK
        <4>2. CASE e \notin outbox \cup claimed
          <5>1. e = [n |-> batch + 1, about |-> s, kind |-> "updated", snap |-> c]
            BY <2>6, <3>1, <4>2
          <5>2. e.n = batch + 1 /\ e.about = s /\ e.kind = "updated" /\ e.snap = c
            BY <5>1
          <5> QED  BY <1>0, <2>1, <2>2, <2>3, <2>5, <3>1, <3>2, <5>2, Facts
                   DEF WellFormed, CountersOK
        <4> QED  BY <4>1, <4>2
      <3>5. \A x \in Contracts \ OneTime : contract'[x].status # None => contract'[x].end \in Nat
        BY <2>4, <3>2 DEF Known
      <3> QED  BY <3>2, <3>3, <3>4, <3>5 DEF ContractOK, EventsOK
    <2>9. RowsOK'
      <3>1. CASE UNCHANGED subs
        BY <1>0, <2>6, <3>1 DEF RowsOK
      <3>2. CASE \E r \in {contract[s], cache[s]} : EndRow(u, r.end)
        BY <1>0, <2>1, <2>6, <3>2, EndRowType DEF ContractOK, CacheOK
      <3> QED  BY <1>7, <3>1, <3>2 DEF CancelEndpoint, CancelHalf
    <2>10. CacheOK' /\ \A x \in Contracts : cache'[x] = NoContract \/ cache'[x].status # None
      <3>1. cache' = cache \/ cache' = [cache EXCEPT ![s] = contract'[s]]
        BY <1>7 DEF CancelEndpoint, CancelHalf
      <3> HIDE DEF c, s
      <3> QED  BY <1>0, <1>c, <2>1, <2>2, <2>3, <2>8, <3>1 DEF CacheOK
    <2> HIDE DEF c, s
    <2>11. CountersOK' /\ PaymentsOK' /\ HistoryOK'
      BY <1>0, <2>6, <2>7, <2>8 DEF CountersOK, PaymentsOK, HistoryOK, historyVars
    <2> QED  BY <1>d, <2>8, <2>9, <2>10, <2>11 DEF Known
  <1>8. ASSUME Forget \/ Tick PROVE TypeOK' /\ Known'
    <2>1. CacheOK' /\ \A s \in Contracts : cache'[s] = NoContract \/ cache'[s].status # None
      BY <1>8, Facts DEF Forget, Tick, NoSnapshots, CacheOK
    <2>2. CountersOK'
      BY <1>0, <1>8, Facts DEF Forget, Tick, remoteVars, CountersOK
    <2>3. UNCHANGED <<rowVars, payVars, claimed, remoteVars, outbox, historyVars, disturbed>>
      BY <1>8 DEF Forget, Tick
    <2> QED  BY <1>0, <1>r, <2>1, <2>2, <2>3
             DEF rowVars, remoteVars, historyVars, RowsOK, PaymentsOK, HistoryOK
  <1>9. CASE UNCHANGED vars
    BY <1>0, <1>9, <1>c, <1>r
    DEF vars, rowVars, remoteVars, historyVars, RowsOK, CountersOK, PaymentsOK, CacheOK, HistoryOK
  <1> QED  BY <1>1, <1>2, <1>3, <1>4, <1>5, <1>6, <1>7, <1>8, <1>9
           DEF Next, Delivery, Failure

\* Every reachable state of StripeBilling is well typed (routers/payments,
\* webhooks/stripe_webhook, stripe_client), for every value of the constants.
THEOREM TypeCorrect == Spec => []TypeOK
  <1> QED  BY TypeInit, TypeNext, PTL DEF Spec

---------------------------------------------------------------------------
(* Events. *)

USE DEF Intake!vars, historyVars

\* A handler that runs to its end takes its event; it is told of as before.
LEMMA HandleTakes ==
  ASSUME TypeOK, NEW e \in outbox \ claimed, NEW c, Handle(e, c),
         outbox' = outbox \/ outbox' = outbox \ {e}
  PROVE  Intake!Take(e)
  <1>1. settled \subseteq claimed
    BY DEF TypeOK
  <1>2. /\ claimed' = claimed \cup {e} /\ settled' = settled \cup {e}
        /\ again' = again \cup ({e} \cap settled) /\ dropped' = dropped
    BY DEF Handle
  <1>3. again' = again
    BY <1>1, <1>2
  <1>4. outbox' \cup claimed' = outbox \cup claimed
    BY <1>2
  <1> QED  BY <1>2, <1>3, <1>4 DEF Intake!Take

\* A step that leaves the claims alone, and takes nothing out of the outbox but
\* what is claimed, may tell of new events only.
LEMMA Telling ==
  ASSUME UNCHANGED <<claimed, settled, again, dropped>>, outbox \subseteq outbox' \cup claimed
  PROVE  [Intake!Next]_Intake!vars
  BY DEF Intake!Next, Intake!Tell

\* Every step of the payments is one of the promise.
LEMMA IntakeNext == TypeOK /\ [Next]_vars => [Intake!Next]_Intake!vars
  <1> SUFFICES ASSUME TypeOK, [Next]_vars PROVE [Intake!Next]_Intake!vars
    OBVIOUS
  <1>1. ASSUME NEW e \in outbox, Delivery(e) PROVE [Intake!Next]_Intake!vars
    <2>1. CASE Webhook(e)
      BY <2>1, HandleTakes DEF Webhook, Intake!Next
    <2>2. CASE WebhookDuplicate(e)
      BY <2>2, Telling DEF WebhookDuplicate
    <2> QED  BY <1>1, <2>1, <2>2 DEF Delivery
  <1>2. ASSUME NEW e \in outbox, Failure(e) PROVE [Intake!Next]_Intake!vars
    <2>1. CASE WebhookStale(e) \/ WebhookAnswerLost(e)
      BY <2>1, HandleTakes DEF WebhookStale, WebhookAnswerLost, Intake!Next
    <2>2. CASE WebhookRaises(e)
      BY <2>2, Telling DEF WebhookRaises
    <2>3. CASE WebhookDies(e)
      <3>1. /\ e \notin claimed /\ claimed' = claimed \cup {e} /\ dropped' = dropped \cup {e}
            /\ UNCHANGED <<outbox, settled, again>>
        BY <2>3 DEF WebhookDies
      <3>2. outbox' \cup claimed' = outbox \cup claimed
        BY <3>1
      <3> QED  BY <3>1, <3>2 DEF Intake!Next, Intake!Take
    <2> QED  BY <1>2, <2>1, <2>2, <2>3 DEF Failure
  <1>3. ASSUME NEW s, NEW c, NEW kinds, Report(s, c, kinds) PROVE outbox \subseteq outbox'
    BY <1>3 DEF Report
  <1>4. ASSUME NEW s \in Contracts,
               RemoteCheckout(s) \/ RemoteRenew(s) \/ RemoteRecover(s) \/ RemoteEnd(s)
        PROVE  [Intake!Next]_Intake!vars
    BY <1>3, <1>4, Telling
    DEF RemoteCheckout, RemoteRenew, RemoteRecover, RemoteEnd, RemoteStep
  <1>7. ASSUME NEW b \in Bills, Refund(b) \/ RefundHalf(b) PROVE [Intake!Next]_Intake!vars
    BY <1>7, Telling DEF Refund, RefundHalf
  <1>5. ASSUME NEW u \in Users,
               CreateCheckout(u) \/ CancelEndpoint(u) \/ CancelHalf(u) \/ Consume(u)
        PROVE  [Intake!Next]_Intake!vars
    BY <1>3, <1>5, Telling
    DEF CreateCheckout, CancelEndpoint, CancelHalf, CancelAtStripe, Consume
  <1>6. CASE Forget \/ Tick \/ UNCHANGED vars
    BY <1>6, Telling DEF Forget, Tick, vars
  <1> QED  BY <1>1, <1>2, <1>4, <1>5, <1>6, <1>7 DEF Next

\* The webhook keeps its promise: however often Stripe repeats an event, and
\* wherever an attempt at it broke off, it is taken once, and handled or lost
\* (stripe_webhook.py).
THEOREM EventsTakenOnceAlways == Spec => EventsTakenOnce
  <1>1. Init => Intake!Init
    BY DEF Init, Intake!Init
  <1> QED  BY <1>1, TypeCorrect, IntakeNext, PTL DEF Spec, EventsTakenOnce, Intake!Spec

\* What the promise amounts to, for whoever keeps it.
THEOREM IntakeSettles == Intake!Spec => []Intake!Settled
  <1> USE DEF Intake!Settled
  <1>1. Intake!Init => Intake!Settled
    BY DEF Intake!Init
  <1>2. Intake!Settled /\ [Intake!Next]_Intake!vars => Intake!Settled'
    BY DEF Intake!Next, Intake!Tell, Intake!Take
  <1> QED  BY <1>1, <1>2, PTL DEF Intake!Spec

\* So no event's handler runs to its end twice.
THEOREM OncePerEventAlways == Spec => []OncePerEvent
  <1>1. Intake!Settled => OncePerEvent
    BY DEF Intake!Settled, OncePerEvent
  <1> QED  BY <1>1, EventsTakenOnceAlways, IntakeSettles, PTL DEF EventsTakenOnce

---------------------------------------------------------------------------
(* Charges. *)

\* The kinds of event that write a contract's charge, what they write, and what a
\* contract's status says should be written.
ChargeKinds(s) == {"paid", "failed"} \cup (IF s \in OneTime THEN {"checkout"} ELSE {})
Charges(e, s) == e.about = s /\ e.kind \in ChargeKinds(s)
Result(k)  == IF k = "failed" THEN "failed" ELSE "succeeded"
Outcome(c) == IF c.status = "active" THEN "succeeded" ELSE "failed"

Current(s) == <<s, contract[s].start>>

\* The latest charge event of a live contract is of its running period, and has its
\* outcome.
Latest ==
  \A s \in Contracts : Live(s) =>
    \E f \in outbox \cup claimed :
      /\ Charges(f, s) /\ Bill(f) = Current(s) /\ Result(f.kind) = Outcome(contract[s])
      /\ \A g \in outbox \cup claimed : Charges(g, s) => g.n < f.n \/ g = f
\* A claimed event was handled, or its user disturbed.
Resolved == \A e \in claimed : e \in settled \/ Owner[e.about] \in disturbed
\* The charge of an undisturbed user is that outcome, or is still to be written.
Reflected ==
  \A s \in Contracts :
    Owner[s] \notin disturbed /\ Live(s) =>
      \/ \E f \in outbox \ claimed : Charges(f, s)
      \/ payment[Current(s)] = Outcome(contract[s])
\* So is the row of his checkout.
Starts(e, s) == e.about = s /\ e.kind = "checkout"
Received ==
  \A s \in Contracts \ OneTime :
    Owner[s] \notin disturbed /\ contract[s].status # None =>
      s \in receipts \/ \E f \in outbox \ claimed : Starts(f, s)
Booked == Latest /\ Resolved /\ Reflected /\ Received

\* A change Stripe reports: the contract is not live afterwards, or one charge event
\* tells of its outcome, or the outcome stays; a first one is told as a checkout.
LEMMA ReportEffect ==
  ASSUME TypeOK, Known, NEW s \in Contracts,
         RemoteCheckout(s) \/ RemoteRenew(s) \/ RemoteRecover(s) \/ RemoteEnd(s)
           \/ \E u \in Users : s = stripeId[u] /\ (CancelEndpoint(u) \/ CancelHalf(u))
  PROVE  \E c, kinds :
           /\ Report(s, c, kinds)
           /\ \/ c.status \notin StripeLive
              \/ \E k \in kinds : kinds \cap ChargeKinds(s) = {k} /\ Result(k) = Outcome(c)
              \/ /\ Live(s) /\ c.status = contract[s].status /\ c.start = contract[s].start
                 /\ kinds \cap ChargeKinds(s) = {}
           /\ contract[s].status # None \/ "checkout" \in kinds
  <1>0. contract[s] \in Snapshots
    BY TypeParts DEF ContractOK
  <1>l. Live(s) => contract[s].status # None
    BY Facts DEF Live
  <1> USE DEF ChargeKinds, Result, Outcome
  <1>1. CASE RemoteCheckout(s)
    <2> DEFINE c == [status |-> "active", start |-> now, atEnd |-> FALSE,
                     end |-> IF s \in OneTime THEN Never ELSE now + Duration[PlanOf[s]]]
               kinds == IF s \in OneTime THEN {"checkout"} ELSE {"checkout", "updated", "paid"}
    <2>1. c.status = "active" /\ Report(s, c, kinds)
      BY <1>1 DEF RemoteCheckout
    <2>2. \E k \in kinds : kinds \cap ChargeKinds(s) = {k} /\ Result(k) = "succeeded"
      <3>1. CASE s \in OneTime
        BY <3>1
      <3>2. CASE s \notin OneTime
        BY <3>2
      <3> QED  BY <3>1, <3>2
    <2>3. "checkout" \in kinds
      OBVIOUS
    <2> HIDE DEF c, kinds
    <2> QED  BY <2>1, <2>2, <2>3
  <1>2. CASE RemoteRenew(s)
    <2> DEFINE next(st) == [status |-> st, start |-> contract[s].end, atEnd |-> FALSE,
                            end |-> contract[s].end + Duration[PlanOf[s]]]
    <2>1. /\ s \notin OneTime /\ Live(s)
          /\ \/ Report(s, next("active"), {"updated", "paid"})
             \/ Report(s, next("past_due"), {"updated", "failed"})
      BY <1>2 DEF RemoteRenew, RemoteStep
    <2>2. next("active").status = "active" /\ next("past_due").status = "past_due"
      OBVIOUS
    <2> HIDE DEF next
    <2>3. CASE Report(s, next("active"), {"updated", "paid"})
      <3>1. {"updated", "paid"} \cap ChargeKinds(s) = {"paid"}
        BY <2>1
      <3> QED  BY <1>l, <2>1, <2>2, <2>3, <3>1
    <2>4. CASE Report(s, next("past_due"), {"updated", "failed"})
      <3>1. {"updated", "failed"} \cap ChargeKinds(s) = {"failed"}
        BY <2>1
      <3> QED  BY <1>l, <2>1, <2>2, <2>4, <3>1
    <2> QED  BY <2>1, <2>3, <2>4
  <1>3. CASE RemoteRecover(s)
    <2> DEFINE c == [contract[s] EXCEPT !.status = "active"]
    <2>1. Report(s, c, {"updated", "paid"}) /\ s \notin OneTime /\ Live(s)
      BY <1>3 DEF RemoteRecover, RemoteStep
    <2>2. c.status = "active"
      BY <1>0, Facts, ChangedContract
    <2>3. {"updated", "paid"} \cap ChargeKinds(s) = {"paid"}
      BY <2>1
    <2> HIDE DEF c
    <2> QED  BY <1>l, <2>1, <2>2, <2>3
  <1>4. CASE RemoteEnd(s)
    <2> DEFINE c == [contract[s] EXCEPT !.status = "canceled"]
    <2>1. (Report(s, c, {"deleted"}) \/ Report(s, c, {"updated"})) /\ Live(s)
      BY <1>4 DEF RemoteEnd, RemoteStep
    <2>2. c.status = "canceled" /\ "canceled" \notin StripeLive
      BY <1>0, Facts, ChangedContract
    <2> HIDE DEF c
    <2> QED  BY <1>l, <2>1, <2>2
  <1>5. ASSUME NEW u \in Users, s = stripeId[u], CancelEndpoint(u) \/ CancelHalf(u)
        PROVE  \E c : /\ Report(s, c, {"updated"}) /\ Live(s)
                      /\ c.status = contract[s].status /\ c.start = contract[s].start
    <2> DEFINE c == [contract[s] EXCEPT !.atEnd = TRUE]
    <2>1. Report(s, c, {"updated"}) /\ Live(s)
      BY <1>5 DEF CancelEndpoint, CancelHalf, CancelAtStripe
    <2>2. c.status = contract[s].status /\ c.start = contract[s].start
      BY <1>0, Facts, ChangedContract
    <2> HIDE DEF c
    <2> QED  BY <2>1, <2>2
  <1>6. {"updated"} \cap ChargeKinds(s) = {}
    OBVIOUS
  <1> QED  BY <1>1, <1>2, <1>3, <1>4, <1>5, <1>6, <1>l

\* It keeps the books.
LEMMA ReportBooked ==
  ASSUME TypeOK, Booked, NEW s \in Contracts, NEW c, NEW kinds, Report(s, c, kinds),
         \/ c.status \notin StripeLive
         \/ \E k \in kinds : kinds \cap ChargeKinds(s) = {k} /\ Result(k) = Outcome(c)
         \/ /\ Live(s) /\ c.status = contract[s].status /\ c.start = contract[s].start
            /\ kinds \cap ChargeKinds(s) = {},
         contract[s].status # None \/ "checkout" \in kinds,
         UNCHANGED <<payVars, claimed, settled>>, disturbed \subseteq disturbed'
  PROVE  Booked'
  <1> DEFINE new(k) == [n |-> batch + 1, about |-> s, kind |-> k, snap |-> c]
  <1>0. /\ contract \in [Contracts -> Snapshots] /\ batch \in Nat
        /\ \A e \in outbox \cup claimed : e.n \in Nat /\ e.n <= batch
    BY TypeParts, Facts DEF CountersOK, ContractOK, EventsOK, WellFormed
  <1>1. /\ contract'[s] = c /\ \A x \in Contracts \ {s} : contract'[x] = contract[x]
        /\ outbox' = outbox \cup {new(k) : k \in kinds}
    BY <1>0 DEF Report
  <1>2. \A k \in kinds : /\ new(k).n = batch + 1 /\ new(k).about = s /\ new(k).kind = k
                         /\ new(k).snap = c /\ new(k) \notin claimed
    BY <1>0
  <1> HIDE DEF new
  \* What is said of other contracts, or says nothing of the charge, is old.
  <1>3. ASSUME NEW x \in Contracts, x # s \/ kinds \cap ChargeKinds(s) = {},
               NEW g \in outbox' \cup claimed, Charges(g, x)
        PROVE  g \in outbox \cup claimed
    BY <1>1, <1>2, <1>3 DEF Charges
  <1>4. Latest'
    <2> SUFFICES ASSUME NEW x \in Contracts, Live(x)'
                 PROVE  \E f \in outbox' \cup claimed :
                          /\ Charges(f, x) /\ Bill(f) = Current(x)'
                          /\ Result(f.kind) = Outcome(contract'[x])
                          /\ \A g \in outbox' \cup claimed : Charges(g, x) => g.n < f.n \/ g = f
      BY DEF Latest
    <2>1. CASE x # s \/ (/\ x = s /\ Live(s) /\ c.status = contract[s].status
                         /\ c.start = contract[s].start /\ kinds \cap ChargeKinds(s) = {})
      <3>1. Live(x) /\ Outcome(contract'[x]) = Outcome(contract[x]) /\ Current(x)' = Current(x)
        BY <1>1, <2>1 DEF Live, Outcome, Current
      <3>2. PICK f \in outbox \cup claimed :
              /\ Charges(f, x) /\ Bill(f) = Current(x) /\ Result(f.kind) = Outcome(contract[x])
              /\ \A g \in outbox \cup claimed : Charges(g, x) => g.n < f.n \/ g = f
        BY <3>1 DEF Booked, Latest
      <3> QED  BY <1>1, <1>3, <2>1, <3>1, <3>2
    <2>2. ASSUME x = s, NEW k \in kinds, kinds \cap ChargeKinds(s) = {k}, Result(k) = Outcome(c)
          PROVE  \E f \in outbox' \cup claimed :
                   /\ Charges(f, x) /\ Bill(f) = Current(x)'
                   /\ Result(f.kind) = Outcome(contract'[x])
                   /\ \A g \in outbox' \cup claimed : Charges(g, x) => g.n < f.n \/ g = f
      <3>1. /\ new(k) \in outbox' /\ Charges(new(k), s) /\ Bill(new(k)) = Current(s)'
            /\ Result(new(k).kind) = Outcome(c)
        BY <1>1, <1>2, <2>2 DEF Charges, Bill, Current
      <3>2. ASSUME NEW g \in outbox' \cup claimed, Charges(g, s)
            PROVE  g.n < new(k).n \/ g = new(k)
        <4>1. CASE g \in outbox \cup claimed
          BY <1>0, <1>2, <4>1
        <4>2. ASSUME NEW j \in kinds, g = new(j) PROVE g = new(k)
          BY <1>2, <2>2, <3>2, <4>2 DEF Charges
        <4> QED  BY <1>1, <4>1, <4>2
      <3> QED  BY <1>1, <2>2, <3>1, <3>2
    <2>3. CASE x = s /\ c.status \notin StripeLive
      BY <1>1, <2>3 DEF Live
    <2> QED  BY <2>1, <2>2, <2>3
  <1>5. Resolved'
    BY DEF Booked, Resolved
  <1>6. Reflected'
    <2> SUFFICES ASSUME NEW x \in Contracts, Owner[x] \notin disturbed', Live(x)'
                 PROVE  \/ \E f \in outbox' \ claimed : Charges(f, x)
                        \/ payment[Current(x)'] = Outcome(contract'[x])
      BY DEF Reflected
    <2>1. CASE x # s \/ (/\ x = s /\ Live(s) /\ c.status = contract[s].status
                         /\ c.start = contract[s].start)
      <3>1. Live(x) /\ Outcome(contract'[x]) = Outcome(contract[x]) /\ Current(x)' = Current(x)
        BY <1>1, <2>1 DEF Live, Outcome, Current
      <3> QED  BY <1>1, <3>1 DEF Booked, Reflected
    <2>2. ASSUME x = s, NEW k \in kinds, kinds \cap ChargeKinds(s) = {k}
          PROVE  \E f \in outbox' \ claimed : Charges(f, x)
      BY <1>1, <1>2, <2>2 DEF Charges
    <2>3. CASE x = s /\ c.status \notin StripeLive
      BY <1>1, <2>3 DEF Live
    <2> QED  BY <2>1, <2>2, <2>3
  <1>7. Received'
    <2> SUFFICES ASSUME NEW x \in Contracts \ OneTime, Owner[x] \notin disturbed',
                        contract'[x].status # None
                 PROVE  x \in receipts \/ \E f \in outbox' \ claimed : Starts(f, x)
      BY DEF Received
    <2>1. CASE x # s \/ contract[s].status # None
      <3>1. contract[x].status # None
        BY <1>1, <2>1
      <3> QED  BY <1>1, <3>1 DEF Booked, Received
    <2>2. CASE x = s /\ "checkout" \in kinds
      <3>1. new("checkout") \in outbox' \ claimed /\ Starts(new("checkout"), s)
        BY <1>1, <1>2, <2>2 DEF Starts
      <3> QED  BY <2>2, <3>1
    <2> QED  BY <2>1, <2>2
  <1> QED  BY <1>4, <1>5, <1>6, <1>7 DEF Booked

\* So does a handler that runs to its end.
LEMMA HandleBooked ==
  ASSUME TypeOK, Booked, NEW e \in outbox \ claimed, NEW c, Handle(e, c),
         outbox' = outbox \/ outbox' = outbox \ {e}
  PROVE  Booked'
  <1>0. /\ payment \in [Bills -> {None, "succeeded", "failed", "refunded"}]
        /\ Bill(e) \in Bills /\ \A x \in Contracts : Current(x) \in Bills
        /\ e.about \in Contracts /\ contract' = contract /\ claimed' = claimed \cup {e}
        /\ settled' = settled \cup {e} /\ disturbed \subseteq disturbed'
        /\ \A x \in outbox \cup claimed : x.n \in Nat
    <2>1. /\ PaymentsOK /\ WellFormed(e) /\ contract \in [Contracts -> Snapshots] /\ EventsOK
          /\ batch \in Nat
      BY TypeParts, Facts DEF EventsOK, CountersOK, ContractOK
    <2>2. Bill(e) \in Bills /\ \A x \in Contracts : Current(x) \in Bills
      BY <2>1 DEF WellFormed, Bill, Current, Bills, Snapshots
    <2> QED  BY <2>1, <2>2
             DEF PaymentsOK, EventsOK, WellFormed, Handle, remoteVars, Disturb
  <1>1. outbox' \cup claimed' = outbox \cup claimed /\ outbox' \ claimed' = (outbox \ claimed) \ {e}
    BY <1>0
  <1>2. Latest'
    BY <1>0, <1>1 DEF Booked, Latest, Live, Current
  <1>3. Resolved'
    BY <1>0 DEF Booked, Resolved
  <1>4. Reflected'
    <2> SUFFICES ASSUME NEW s \in Contracts, Owner[s] \notin disturbed', Live(s),
                        \A f \in (outbox \ claimed) \ {e} : ~Charges(f, s)
                 PROVE  payment'[Current(s)] = Outcome(contract[s])
      BY <1>0, <1>1 DEF Reflected, Live, Current
    <2>1. CASE ~Charges(e, s)
      <3>1. payment[Current(s)] = Outcome(contract[s])
        BY <1>0, <2>1 DEF Booked, Reflected
      <3>2. CASE e.about = s
        BY <1>0, <2>1, <3>1, <3>2 DEF Handle, Pay, Collects, Charges, ChargeKinds
      <3>3. CASE e.about # s
        <4>1. Bill(e) # Current(s)
          BY <3>3 DEF Bill, Current
        <4> QED  BY <1>0, <3>1, <4>1 DEF Handle, Pay
      <3> QED  BY <3>2, <3>3
    <2>2. CASE Charges(e, s)
      <3>1. payment'[Bill(e)] = Result(e.kind)
        BY <1>0, <2>2 DEF Handle, Pay, Collects, Charges, ChargeKinds, Result
      <3>2. PICK f \in outbox \cup claimed :
              /\ Charges(f, s) /\ Bill(f) = Current(s) /\ Result(f.kind) = Outcome(contract[s])
              /\ \A g \in outbox \cup claimed : Charges(g, s) => g.n < f.n \/ g = f
        BY DEF Booked, Latest
      <3>3. CASE f = e
        BY <3>1, <3>2, <3>3
      <3>4. CASE f # e
        <4>1. f \in claimed /\ e.n < f.n
          BY <2>2, <3>2, <3>4
        <4>2. f \in settled
          BY <1>0, <3>2, <4>1 DEF Booked, Resolved, Charges
        <4>3. Owner[f.about] = Owner[e.about] /\ Owner[e.about] = Owner[s] /\ f.n > e.n
          BY <1>0, <2>2, <3>2, <4>1 DEF Charges
        <4>4. Overtakes(e)
          BY <4>2, <4>3 DEF Overtakes
        <4>5. Owner[s] \in disturbed'
          BY <4>3, <4>4 DEF Handle, Disturb
        <4> QED  BY <4>5
      <3> QED  BY <3>3, <3>4
    <2> QED  BY <2>1, <2>2
  <1>5. Received'
    <2> SUFFICES ASSUME NEW s \in Contracts \ OneTime, Owner[s] \notin disturbed',
                        contract[s].status # None,
                        \A f \in (outbox \ claimed) \ {e} : ~Starts(f, s)
                 PROVE  s \in receipts'
      BY <1>0, <1>1 DEF Received
    <2>1. s \in receipts \/ Starts(e, s)
      BY <1>0 DEF Booked, Received
    <2> QED  BY <2>1 DEF Handle, Pay, Receive, LooksUp, Starts
  <1> QED  BY <1>2, <1>3, <1>4, <1>5 DEF Booked

\* Every step keeps the books.
LEMMA BookedNext == TypeOK /\ Known /\ Booked /\ [Next]_vars => Booked'
  <1> SUFFICES ASSUME TypeOK, Known, Booked, [Next]_vars PROVE Booked'
    OBVIOUS
  <1>0. disturbed \subseteq Users
    BY TypeParts DEF HistoryOK
  <1>u. ASSUME UNCHANGED <<payVars, claimed, settled, contract, outbox>>,
               disturbed \subseteq disturbed'
        PROVE  Booked'
    BY <1>u DEF Booked, Latest, Resolved, Reflected, Received, Live, Current
  <1>1. ASSUME NEW s \in Contracts,
               RemoteCheckout(s) \/ RemoteRenew(s) \/ RemoteRecover(s) \/ RemoteEnd(s)
        PROVE  Booked'
    <2>1. UNCHANGED <<payVars, claimed, settled>> /\ disturbed \subseteq disturbed'
      BY <1>1 DEF RemoteCheckout, RemoteRenew, RemoteRecover, RemoteEnd, RemoteStep,
                  historyVars, Disturb
    <2> QED  BY <1>1, <2>1, ReportEffect, ReportBooked
  <1>2. ASSUME NEW u \in Users, CancelEndpoint(u) \/ CancelHalf(u) PROVE Booked'
    <2>1. stripeId[u] \in Contracts
      BY <1>2, TypeParts DEF CancelEndpoint, CancelHalf, CancelAtStripe, RowsOK
    <2>2. UNCHANGED <<payVars, claimed, settled>> /\ disturbed \subseteq disturbed'
      BY <1>2 DEF CancelEndpoint, CancelHalf, historyVars
    <2> QED  BY <1>2, <2>1, <2>2, ReportEffect, ReportBooked
  <1>3. ASSUME NEW b \in Bills, Refund(b) \/ RefundHalf(b) PROVE Booked'
    <2>1. UNCHANGED <<receipts, claimed, contract, outbox, settled>>
          /\ disturbed' = disturbed \cup {Owner[b[1]]}
      BY <1>3 DEF Refund, RefundHalf, Refundable, remoteVars, historyVars, Disturb
    <2>2. payment' = payment \/ payment' = [payment EXCEPT ![b] = "refunded"]
      BY <1>3 DEF Refund, RefundHalf
    <2>3. ASSUME NEW s \in Contracts, Owner[s] \notin disturbed'
          PROVE  payment'[Current(s)] = payment[Current(s)]
      <3>1. Current(s) # b
        BY <2>1, <2>3 DEF Current
      <3>2. payment \in [Bills -> {None, "succeeded", "failed", "refunded"}]
        BY TypeParts DEF PaymentsOK
      <3>3. Current(s) \in Bills
        BY TypeParts DEF ContractOK, Snapshots, Current, Bills
      <3> QED  BY <2>2, <3>1, <3>2, <3>3
    <2>4. Latest' /\ Resolved' /\ Received'
      BY <2>1 DEF Booked, Latest, Resolved, Received, Live, Current
    <2>5. Reflected'
      BY <2>1, <2>3 DEF Booked, Reflected, Live, Current
    <2> QED  BY <2>4, <2>5 DEF Booked
  <1>4. ASSUME NEW e \in outbox, Webhook(e) \/ WebhookStale(e) \/ WebhookAnswerLost(e)
        PROVE  Booked'
    BY <1>4, HandleBooked DEF Webhook, WebhookStale, WebhookAnswerLost
  <1>5. ASSUME NEW e \in outbox, WebhookDuplicate(e) PROVE Booked'
    <2>1. /\ e \in claimed /\ outbox' = outbox \ {e}
          /\ UNCHANGED <<payVars, claimed, settled, contract, disturbed>>
      BY <1>5 DEF WebhookDuplicate, remoteVars, historyVars
    <2>2. outbox' \cup claimed' = outbox \cup claimed /\ outbox' \ claimed' = outbox \ claimed
      BY <2>1
    <2> QED  BY <2>1, <2>2 DEF Booked, Latest, Resolved, Reflected, Received, Live, Current
  <1>6. ASSUME NEW e \in outbox, WebhookRaises(e) PROVE Booked'
    BY <1>6, <1>u DEF WebhookRaises, remoteVars, historyVars, Disturb
  <1>7. ASSUME NEW e \in outbox, WebhookDies(e) PROVE Booked'
    <2>1. /\ claimed' = claimed \cup {e} /\ disturbed' = disturbed \cup {Owner[e.about]}
          /\ UNCHANGED <<payVars, settled, contract, outbox>>
      BY <1>7 DEF WebhookDies, remoteVars, Disturb
    <2>2. outbox' \cup claimed' = outbox \cup claimed
      BY <2>1
    <2>3. Latest'
      BY <2>1, <2>2 DEF Booked, Latest, Live, Current
    <2>4. Reflected' /\ Received'
      <3>1. \A f \in outbox \ claimed, s \in Contracts :
              (Charges(f, s) \/ Starts(f, s)) /\ Owner[s] \notin disturbed'
                => f \in outbox' \ claimed'
        BY <2>1 DEF Charges, Starts
      <3> QED  BY <2>1, <3>1 DEF Booked, Reflected, Received, Live, Current
    <2> QED  BY <2>1, <2>3, <2>4 DEF Booked, Resolved
  <1>8. ASSUME NEW u \in Users, CreateCheckout(u) \/ Consume(u) PROVE Booked'
    BY <1>8, <1>u DEF CreateCheckout, Consume, remoteVars, historyVars
  <1>9. CASE Forget \/ Tick
    BY <1>9, <1>u DEF Forget, Tick, remoteVars, historyVars
  <1>10. CASE UNCHANGED vars
    BY <1>10, <1>u DEF vars, remoteVars, historyVars
  <1> QED  BY <1>1, <1>2, <1>3, <1>4, <1>5, <1>6, <1>7, <1>8, <1>9, <1>10
           DEF Next, Delivery, Failure

\* Once nothing of an undisturbed user is on its way, the row of the running period
\* has the outcome of the latest attempt to collect it, and the checkout of a
\* subscription its own (stripe_webhook.py, payment_records.py).
THEOREM ChargesFollowStripeAlways == Spec => []ChargesFollowStripe
  <1>1. Init => Booked
    <2>1. Init => \A s \in Contracts : ~Live(s)
      BY Facts DEF Init, Live
    <2>2. Init => \A s \in Contracts : contract[s].status = None
      BY Facts DEF Init
    <2> QED  BY <2>1, <2>2 DEF Init, Booked, Latest, Resolved, Reflected, Received
  <1>2. Booked => ChargesFollowStripe
    <2> SUFFICES ASSUME Booked, NEW s \in Contracts, Quiet(Owner[s]), Live(s)
                 PROVE  /\ payment[Current(s)] = Outcome(contract[s])
                        /\ s \in OneTime \/ s \in receipts
      BY DEF ChargesFollowStripe, Current, Outcome
    <2>1. payment[Current(s)] = Outcome(contract[s])
      BY DEF Booked, Reflected, Quiet, Charges
    <2>2. contract[s].status # None
      BY Facts DEF Live
    <2> QED  BY <2>1, <2>2 DEF Booked, Received, Quiet, Starts
  <1> QED  BY <1>1, <1>2, TypeInit, TypeNext, BookedNext, PTL DEF Spec

---------------------------------------------------------------------------
(* Rows. *)

Told     == outbox \cup claimed
Pending  == outbox \ claimed
RowKinds == {"checkout", "updated", "deleted"}

\* What the events of a kind say of a contract; the id of a row is that of a
\* subscription of its user; a one-time payment has no end.
Meant ==
  /\ \A e \in Told : /\ e.kind = "checkout" => e.snap.status = "active"
                     /\ e.kind = "updated"  => e.snap.status \in StripeLive \cup {"canceled"}
                     /\ e.kind = "deleted"  => e.snap.status = "canceled"
  /\ \A u \in Users : stripeId[u] # None => Owner[stripeId[u]] = u /\ stripeId[u] \notin OneTime
  /\ \A s \in OneTime : Live(s) => contract[s].end = Never

\* A snapshot is of a contract that exists, and as it is, or a change was told of
\* after every checkout of it.
Superseded(s) ==
  \E f \in Told : /\ f.about = s /\ f.kind \in {"updated", "deleted"}
                  /\ \A g \in Told : g.about = s /\ g.kind = "checkout" => g.n < f.n
Snapshotted ==
  \A s \in Contracts :
    cache[s] # NoContract =>
      contract[s].status # None /\ (cache[s] = contract[s] \/ Superseded(s))

\* m is of the last change of a contract of u, which is as m says and the only live one.
Decides(m, u) ==
  /\ Owner[m.about] = u /\ m.kind \in RowKinds /\ m.snap = contract[m.about]
  /\ \A g \in Told :
       Owner[g.about] = u => g.n < m.n \/ (g.n = m.n /\ g.about = m.about /\ g.snap = m.snap)
  /\ \A s \in Contracts : Owner[s] = u /\ s # m.about => ~Live(s)
Newest(u) ==
  \/ /\ \A s \in Contracts : Owner[s] = u => ~Live(s)
     /\ \A e \in Told : Owner[e.about] # u
  \/ \E m \in Told : Decides(m, u)

Paying(s) == contract[s].status = "active" /\ (s \in OneTime \/ contract[s].end >= now)
\* The row is as the contracts of u say, or an event that writes it is on its way.
Matches(u) ==
  /\ \A s \in Contracts : Owner[s] = u /\ Paying(s) =>
       subs[u].plan = PlanOf[s] /\ subs[u].status = "active" /\ subs[u].expires = contract[s].end
  /\ (\A s \in Contracts : Owner[s] = u => ~Live(s)) => subs[u].plan = Free
Coming(u)   == \E g \in Pending : Owner[g.about] = u /\ g.kind \in RowKinds
Followed(u) == Coming(u) \/ Matches(u)

Following ==
  /\ Meant /\ Snapshotted /\ Resolved
  /\ \A u \in Users \ disturbed : Newest(u) /\ Followed(u)

\* What a change of a contract makes Stripe say.
Tells(s, c, kinds) ==
  /\ c.status # None /\ (s \in OneTime => c.end = Never)
  /\ \/ /\ contract[s].status = None /\ c.status = "active"
        /\ "checkout" \in kinds /\ kinds \subseteq {"checkout", "updated", "paid"}
     \/ /\ Live(s) /\ c.status \in StripeLive
        /\ "updated" \in kinds /\ kinds \subseteq {"updated", "paid", "failed"}
     \/ Live(s) /\ c.status = "canceled" /\ kinds \in {{"deleted"}, {"updated"}}

\* It says that of every change.
LEMMA ReportTells ==
  ASSUME TypeOK, Known, Following, NEW s \in Contracts,
         RemoteCheckout(s) \/ RemoteRenew(s) \/ RemoteRecover(s) \/ RemoteEnd(s)
  PROVE  \E c, kinds : Report(s, c, kinds) /\ Tells(s, c, kinds)
  <1>0. contract[s] \in Snapshots
    BY TypeParts DEF ContractOK
  <1> USE DEF Tells
  <1>1. CASE RemoteCheckout(s)
    <2> DEFINE c == [status |-> "active", start |-> now, atEnd |-> FALSE,
                     end |-> IF s \in OneTime THEN Never ELSE now + Duration[PlanOf[s]]]
               kinds == IF s \in OneTime THEN {"checkout"} ELSE {"checkout", "updated", "paid"}
    <2>1. c.status = "active" /\ (s \in OneTime => c.end = Never) /\ Report(s, c, kinds)
          /\ contract[s].status = None
      BY <1>1 DEF RemoteCheckout
    <2>2. "checkout" \in kinds /\ kinds \subseteq {"checkout", "updated", "paid"}
      OBVIOUS
    <2> HIDE DEF c, kinds
    <2> QED  BY <2>1, <2>2 DEF None
  <1>2. CASE RemoteRenew(s)
    <2> DEFINE next(st) == [status |-> st, start |-> contract[s].end, atEnd |-> FALSE,
                            end |-> contract[s].end + Duration[PlanOf[s]]]
    <2>1. /\ s \notin OneTime /\ Live(s)
          /\ \/ Report(s, next("active"), {"updated", "paid"})
             \/ Report(s, next("past_due"), {"updated", "failed"})
      BY <1>2 DEF RemoteRenew, RemoteStep
    <2>2. next("active").status = "active" /\ next("past_due").status = "past_due"
      OBVIOUS
    <2> HIDE DEF next
    <2> QED  BY <2>1, <2>2, Facts DEF None
  <1>3. CASE RemoteRecover(s)
    <2> DEFINE c == [contract[s] EXCEPT !.status = "active"]
    <2>1. Report(s, c, {"updated", "paid"}) /\ s \notin OneTime /\ Live(s)
      BY <1>3 DEF RemoteRecover, RemoteStep
    <2>2. c.status = "active"
      BY <1>0, Facts, ChangedContract
    <2> HIDE DEF c
    <2> QED  BY <2>1, <2>2, Facts DEF None
  <1>4. CASE RemoteEnd(s)
    <2> DEFINE c == [contract[s] EXCEPT !.status = "canceled"]
    <2>1. (Report(s, c, {"deleted"}) \/ Report(s, c, {"updated"})) /\ s \notin OneTime /\ Live(s)
      BY <1>4 DEF RemoteEnd, RemoteStep
    <2>2. c.status = "canceled"
      BY <1>0, Facts, ChangedContract
    <2> HIDE DEF c
    <2> QED  BY <2>1, <2>2 DEF None
  <1> QED  BY <1>1, <1>2, <1>3, <1>4

\* And of a cancellation through the endpoint.
LEMMA CancelTells ==
  ASSUME TypeOK, Known, Following, NEW u \in Users, CancelAtStripe(u)
  PROVE  LET s == stripeId[u]
             c == [contract[s] EXCEPT !.atEnd = TRUE]
         IN  /\ s \in Contracts /\ Owner[s] = u /\ c \in Snapshots
             /\ Report(s, c, {"updated"}) /\ Tells(s, c, {"updated"})
  <1> DEFINE s == stripeId[u]
             c == [contract[s] EXCEPT !.atEnd = TRUE]
  <1>1. s \in Contracts /\ contract[s] \in Snapshots
    BY TypeParts DEF CancelAtStripe, RowsOK, ContractOK
  <1>2. Owner[s] = u /\ s \notin OneTime
    BY DEF CancelAtStripe, Following, Meant
  <1>3. Report(s, c, {"updated"}) /\ Live(s)
    BY DEF CancelAtStripe
  <1>4. c.status = contract[s].status /\ c \in Snapshots
    BY <1>1, Facts, ChangedContract
  <1>5. c.status \in StripeLive
    BY <1>3, <1>4 DEF Live
  <1> HIDE DEF c
  <1>6. Tells(s, c, {"updated"})
    BY <1>2, <1>3, <1>5, Facts DEF Tells
  <1> QED  BY <1>1, <1>2, <1>3, <1>4, <1>6 DEF c

\* A change that is told of: the row may wait for its event.
LEMMA ReportFollowed ==
  ASSUME TypeOK, Known, Following, NEW s \in Contracts, NEW c, NEW kinds,
         Report(s, c, kinds), Tells(s, c, kinds),
         UNCHANGED <<claimed, settled, now, stripeId>>, disturbed \subseteq disturbed',
         \A v \in Users \ {Owner[s]} : subs'[v] = subs[v],
         cache' = cache \/ cache' = [cache EXCEPT ![s] = c],
         contract[s].status # None \/ Owner[s] \in disturbed'
           \/ \A x \in Contracts \ {s} : Owner[x] = Owner[s] => ~Live(x)
  PROVE  Following'
  <1> DEFINE new(k) == [n |-> batch + 1, about |-> s, kind |-> k, snap |-> c]
  <1>0. /\ contract \in [Contracts -> Snapshots] /\ cache \in [Contracts -> Snapshots]
        /\ batch \in Nat
        /\ \A e \in Told : e.n \in Nat /\ e.n <= batch /\ e.about \in Contracts
                             /\ contract[e.about].status # None
        /\ \A x \in Contracts : Owner[x] \in Users
        /\ OneTime \subseteq Contracts
    BY TypeParts, Facts, StripeAssumption
    DEF CountersOK, ContractOK, CacheOK, EventsOK, WellFormed, Told, Known
  <1>1. /\ contract'[s] = c /\ \A x \in Contracts \ {s} : contract'[x] = contract[x]
        /\ Told' = Told \cup {new(k) : k \in kinds}
        /\ Pending \subseteq Pending'
    BY <1>0 DEF Report, Told, Pending
  <1>2. \A k \in kinds : /\ new(k).n = batch + 1 /\ new(k).about = s /\ new(k).kind = k
                         /\ new(k).snap = c
    BY <1>0
  <1>3. \A k \in kinds : new(k) \in Pending'
    <2>1. \A k \in kinds : new(k) \notin claimed
      BY <1>0, <1>2 DEF Told
    <2>2. \A k \in kinds : new(k) \in outbox'
      BY DEF Report
    <2> QED  BY <2>1, <2>2 DEF Pending
  <1> HIDE DEF new
  <1>4. Meant'
    <2>1. \A k \in kinds : /\ k = "checkout" => c.status = "active"
                           /\ k = "updated" => c.status \in StripeLive \cup {"canceled"}
                           /\ k = "deleted" => c.status = "canceled"
      BY Facts DEF Tells
    <2>2. \A x \in OneTime : Live(x)' => contract'[x].end = Never
      BY <1>0, <1>1 DEF Following, Meant, Live, Tells
    <2> QED  BY <1>1, <1>2, <2>1, <2>2 DEF Following, Meant
  <1>5. Snapshotted'
    <2> SUFFICES ASSUME NEW x \in Contracts, cache'[x] # NoContract
                 PROVE  contract'[x].status # None /\ (cache'[x] = contract'[x] \/ Superseded(x)')
      BY DEF Snapshotted
    <2>1. CASE x # s
      <3>1. cache'[x] = cache[x] /\ contract'[x] = contract[x]
        BY <1>0, <1>1, <2>1
      <3>2. Superseded(x) => Superseded(x)'
        BY <1>1, <1>2, <2>1 DEF Superseded
      <3> QED  BY <3>1, <3>2 DEF Following, Snapshotted
    <2>2. CASE x = s /\ cache'[s] = c
      BY <1>1, <2>2 DEF Tells
    <2>3. CASE x = s /\ cache'[s] = cache[s]
      <3>1. contract[s].status # None
        BY <2>3 DEF Following, Snapshotted
      <3>2. "checkout" \notin kinds /\ \E k \in kinds : k \in {"updated", "deleted"}
        BY <3>1 DEF Tells
      <3>5. PICK k \in kinds : k \in {"updated", "deleted"}
        BY <3>2
      <3>3. ASSUME NEW g \in Told', g.kind = "checkout" PROVE g.n < new(k).n
        <4>1. CASE g \in Told
          BY <1>0, <1>2, <4>1
        <4>2. ASSUME NEW j \in kinds, g = new(j) PROVE FALSE
          BY <1>2, <3>2, <3>3, <4>2
        <4> QED  BY <1>1, <4>1, <4>2
      <3>4. new(k) \in Told'
        BY <1>1
      <3>6. Superseded(s)'
        BY <1>2, <3>3, <3>4, <3>5 DEF Superseded
      <3> QED  BY <1>1, <2>3, <3>6 DEF Tells
    <2> QED  BY <1>0, <2>1, <2>2, <2>3
  <1>6. Resolved'
    BY DEF Following, Resolved
  <1>7. PICK k \in kinds : k \in RowKinds
    BY DEF Tells, RowKinds
  <1>8. ASSUME NEW u \in Users \ disturbed' PROVE Newest(u)' /\ Followed(u)'
    <2>0. Newest(u) /\ Followed(u)
      BY DEF Following
    <2>1. CASE u = Owner[s]
      <3>1. Coming(u)'
        BY <1>2, <1>3, <1>7, <2>1 DEF Coming
      <3>2. \A x \in Contracts \ {s} : Owner[x] = u => ~Live(x)
        <4>1. CASE Live(s)
          BY <2>0, <2>1, <4>1 DEF Newest, Decides
        <4>2. CASE ~Live(s)
          BY <2>1, <4>2 DEF Tells
        <4> QED  BY <4>1, <4>2
      <3>3. \A x \in Contracts \ {s} : Owner[x] = u => ~Live(x)'
        BY <1>1, <3>2 DEF Live
      <3>4. PICK m \in Told' : /\ m.n = batch + 1 /\ m.about = s
                               /\ m.kind = k /\ m.snap = c
        BY <1>1, <1>2
      <3>5. ASSUME NEW g \in Told'
            PROVE  g.n < m.n \/ (g.n = m.n /\ g.about = s /\ g.snap = c)
        <4>1. CASE g \in Told
          BY <1>0, <3>4, <4>1
        <4>2. ASSUME NEW j \in kinds, g = new(j) PROVE g.n = m.n /\ g.about = s /\ g.snap = c
          BY <1>2, <3>4, <4>2
        <4> QED  BY <1>1, <4>1, <4>2
      <3>6. Decides(m, u)'
        BY <1>1, <1>7, <2>1, <3>3, <3>4, <3>5 DEF Decides
      <3> QED  BY <3>1, <3>6 DEF Newest, Followed
    <2>2. CASE u # Owner[s]
      <3>1. \A x \in Contracts : Owner[x] = u => contract'[x] = contract[x]
        BY <1>1, <2>2
      <3>2. \A g \in Told' : Owner[g.about] = u => g \in Told
        BY <1>1, <1>2, <2>2
      <3>3. Told \subseteq Told'
        BY <1>1
      <3>4. ASSUME NEW m \in Told, Decides(m, u) PROVE Decides(m, u)'
        BY <1>0, <3>1, <3>2, <3>4 DEF Decides, Live
      <3>5. Newest(u)'
        BY <2>0, <3>1, <3>2, <3>3, <3>4 DEF Newest, Live
      <3>6. subs'[u] = subs[u]
        BY <2>2
      <3>7. Matches(u) => Matches(u)'
        BY <3>1, <3>6 DEF Matches, Paying, Live
      <3>8. Coming(u) => Coming(u)'
        BY <1>1 DEF Coming
      <3> QED  BY <2>0, <3>5, <3>7, <3>8 DEF Followed
    <2> QED  BY <2>1, <2>2
  <1> QED  BY <1>4, <1>5, <1>6, <1>8 DEF Following


\* A handler that runs to its end: it is the last one, and writes what the contract is,
\* or another is on its way, or it overtook one.
LEMMA HandleFollowed ==
  ASSUME TypeOK, Known, Following, NEW e \in Pending, NEW c, Handle(e, c),
         outbox' = outbox \/ outbox' = outbox \ {e},
         c = contract[e.about]
           \/ (e.kind = "checkout" /\ c = cache[e.about] /\ c # NoContract)
  PROVE  Following'
  <1>0. /\ subs \in [Users -> Row] /\ stripeId \in [Users -> Contracts \cup {None}]
        /\ cache \in [Contracts -> Snapshots] /\ contract \in [Contracts -> Snapshots]
        /\ now \in Nat /\ e.about \in Contracts /\ Owner[e.about] \in Users
        /\ \A x \in Told : x.n \in Nat /\ x.kind \in Kinds
        /\ contract[e.about].status # None
    BY TypeParts, Facts
    DEF RowsOK, ContractOK, CacheOK, EventsOK, WellFormed, CountersOK, Known, Told, Pending
  <1>1. /\ contract' = contract /\ now' = now /\ claimed' = claimed \cup {e}
        /\ settled' = settled \cup {e} /\ disturbed \subseteq disturbed'
        /\ Overtakes(e) => Owner[e.about] \in disturbed'
    BY DEF Handle, remoteVars, Disturb
  <1>2. Told' = Told /\ Pending' = Pending \ {e} /\ e \in Told
    BY <1>1 DEF Told, Pending
  <1>3. \A v \in Users \ {Owner[e.about]} : subs'[v] = subs[v] /\ stripeId'[v] = stripeId[v]
    BY <1>0 DEF Handle, Apply, Sync, CancelRow, rowVars
  <1>4. Meant'
    <2>1. stripeId'[Owner[e.about]] # None =>
            \/ stripeId'[Owner[e.about]] = stripeId[Owner[e.about]]
            \/ stripeId'[Owner[e.about]] = e.about /\ e.about \notin OneTime
      BY <1>0 DEF Handle, Apply, Sync, CancelRow, rowVars
    <2>2. \A u \in Users :
            stripeId'[u] # None => Owner[stripeId'[u]] = u /\ stripeId'[u] \notin OneTime
      BY <1>0, <1>3, <2>1 DEF Following, Meant
    <2> QED  BY <1>1, <1>2, <2>2 DEF Following, Meant, Live
  <1>5. Snapshotted'
    <2> SUFFICES ASSUME NEW x \in Contracts, cache'[x] # NoContract
                 PROVE  contract[x].status # None /\ (cache'[x] = contract[x] \/ Superseded(x))
      BY <1>1, <1>2 DEF Snapshotted, Superseded
    <2>1. cache'[x] = cache[x] \/ (x = e.about /\ cache'[x] = c)
      BY <1>0 DEF Handle, Remember
    <2> QED  BY <1>0, <2>1 DEF Following, Snapshotted
  <1>6. Resolved'
    BY <1>1 DEF Following, Resolved
  <1>7. ASSUME NEW u \in Users \ disturbed' PROVE Newest(u)' /\ Followed(u)'
    <2>0. Newest(u) /\ Followed(u)
      BY <1>1 DEF Following
    <2>1. Newest(u)'
      BY <1>1, <1>2, <2>0 DEF Newest, Decides, Live
    <2>2. CASE u # Owner[e.about]
      <3>1. Coming(u) => Coming(u)'
        BY <1>2, <2>2 DEF Coming
      <3>2. subs'[u] = subs[u]
        BY <1>3, <2>2
      <3>3. Matches(u) => Matches(u)'
        BY <1>1, <3>2 DEF Matches, Paying, Live
      <3> QED  BY <2>0, <2>1, <3>1, <3>3 DEF Followed
    <2>3. CASE u = Owner[e.about] /\ e.kind \notin RowKinds
      <3>1. Coming(u) => Coming(u)'
        BY <1>2, <2>3 DEF Coming
      <3>2. subs' = subs
        BY <2>3 DEF Handle, Apply, RowKinds, rowVars
      <3>3. Matches(u) => Matches(u)'
        BY <1>1, <3>2 DEF Matches, Paying, Live
      <3> QED  BY <2>0, <2>1, <3>1, <3>3 DEF Followed
    <2>4. CASE u = Owner[e.about] /\ e.kind \in RowKinds /\ ~Coming(u)'
      <3>1. PICK m \in Told : Decides(m, u)
        BY <1>2, <2>0, <2>4 DEF Newest
      <3>2. m = e \/ m \in claimed
        BY <1>2, <2>4, <3>1 DEF Coming, Decides, Pending, Told
      <3>3. ~(e.n < m.n)
        <4>1. SUFFICES ASSUME e.n < m.n PROVE FALSE
          OBVIOUS
        <4>2. m \in settled
          BY <1>0, <1>1, <3>1, <3>2, <4>1 DEF Following, Resolved, Decides
        <4>3. Overtakes(e)
          BY <1>0, <2>4, <3>1, <4>1, <4>2 DEF Overtakes, Decides
        <4> QED  BY <1>1, <2>4, <4>3
      <3> DEFINE s == e.about
      <3>4. s = m.about /\ e.snap = contract[s] /\ e.n = m.n
        BY <1>2, <2>4, <3>1, <3>3 DEF Decides
      <3>5. \A x \in Contracts \ {s} : Owner[x] = u => ~Live(x)
        BY <3>1, <3>4 DEF Decides
      <3>6. \A x \in Contracts : Paying(x) => Live(x)
        BY Facts DEF Paying, Live
      <3>7. CASE e.kind = "deleted" \/ (e.kind = "updated" /\ e.snap.status = "canceled")
        <4>1. ~Live(s)
          BY <1>2, <3>4, <3>7, Facts DEF Following, Meant, Live
        <4>2. subs'[u] = Canceled(subs[u], now)
          BY <1>0, <2>4, <3>7 DEF Handle, Apply, CancelRow
        <4>3. subs'[u].plan = Free
          BY <4>2 DEF Canceled, NoRow
        <4>4. Matches(u)'
          BY <1>1, <3>5, <3>6, <4>1, <4>3 DEF Matches, Live, Paying
        <4> QED  BY <2>1, <4>4 DEF Followed
      <3>8. CASE e.kind = "checkout" \/ (e.kind = "updated" /\ e.snap.status # "canceled")
        <4>1. Live(s)
          BY <1>2, <3>4, <3>8, Facts DEF Following, Meant, Live
        <4>2. e.kind = "checkout" => c = contract[s]
          <5>1. SUFFICES ASSUME e.kind = "checkout", c = cache[s], c # NoContract, c # contract[s]
                         PROVE  FALSE
            OBVIOUS
          <5>2. PICK f \in Told : f.about = s /\ e.n < f.n
            BY <1>0, <1>2, <5>1 DEF Following, Snapshotted, Superseded
          <5>3. f.n < m.n \/ f.n = m.n
            BY <2>4, <3>1, <5>2 DEF Decides
          <5> QED  BY <1>0, <1>2, <3>1, <3>4, <5>2, <5>3
        <4>3. subs'[u] = Synced(subs[u], PlanOf[s], contract[s].status, contract[s].start,
                                contract[s].end)
          BY <1>0, <2>4, <3>4, <3>8, <4>2 DEF Handle, Apply, Sync
        <4>4. subs'[u].plan = PlanOf[s] /\ subs'[u].status = contract[s].status
              /\ subs'[u].expires = contract[s].end
          BY <4>3 DEF Synced
        <4>5. Matches(u)'
          BY <1>0, <1>1, <2>4, <3>5, <3>6, <4>1, <4>4 DEF Matches, Live, Paying
        <4> QED  BY <2>1, <4>5 DEF Followed
      <3> QED  BY <2>4, <3>7, <3>8 DEF RowKinds
    <2> QED  BY <2>1, <2>2, <2>3, <2>4 DEF Followed
  <1> QED  BY <1>4, <1>5, <1>6, <1>7 DEF Following

\* No contract changes and no event is new: what is told of them stays.
LEMMA StayFollowed ==
  ASSUME Following, contract' = contract, Told' = Told, disturbed \subseteq disturbed',
         \A u \in Users : stripeId'[u] # None =>
           stripeId'[u] = stripeId[u] \/ (Owner[stripeId'[u]] = u /\ stripeId'[u] \notin OneTime),
         \A s \in Contracts : cache'[s] # NoContract =>
           cache'[s] = cache[s] \/ (contract[s].status # None /\ cache'[s] = contract[s]),
         Resolved',
         \A u \in Users \ disturbed' :
           (Coming(u) => Coming(u)') /\ (Matches(u) => Matches(u)' \/ Coming(u)')
  PROVE  Following'
  <1>1. Meant'
    BY DEF Following, Meant, Live
  <1>2. Snapshotted'
    BY DEF Following, Snapshotted, Superseded
  <1>3. \A u \in Users \ disturbed' : Newest(u)'
    BY DEF Following, Newest, Decides, Live
  <1> QED  BY <1>1, <1>2, <1>3 DEF Following, Followed

\* A handler that breaks off has written no row but that of its own event's user,
\* which is still to come.
LEMMA PartlyFollowed ==
  ASSUME TypeOK, Known, NEW e \in Pending, ApplyPartly(e)
  PROVE  /\ \A u \in Users : subs'[u] = subs[u] \/ (u = Owner[e.about] /\ e.kind \in RowKinds)
         /\ \A u \in Users : stripeId'[u] # None =>
              stripeId'[u] = stripeId[u] \/ (Owner[stripeId'[u]] = u /\ stripeId'[u] \notin OneTime)
         /\ \A s \in Contracts : cache'[s] # NoContract =>
              cache'[s] = cache[s] \/ (contract[s].status # None /\ cache'[s] = contract[s])
  <1>0. /\ subs \in [Users -> Row] /\ stripeId \in [Users -> Contracts \cup {None}]
        /\ cache \in [Contracts -> Snapshots]
        /\ e.about \in Contracts /\ Owner[e.about] \in Users
        /\ contract[e.about].status # None
    BY TypeParts, Facts DEF RowsOK, CacheOK, EventsOK, WellFormed, Known, Pending
  <1>1. CASE UNCHANGED <<rowVars, cache>>
    BY <1>1 DEF rowVars
  <1>2. CASE e.kind = "checkout" /\ Sync(e.about, contract[e.about])
             /\ Remember(e, contract[e.about])
    BY <1>0, <1>2 DEF Sync, Remember, RowKinds
  <1> QED  BY <1>1, <1>2 DEF ApplyPartly

\* The first half of consume_report_slot keeps the plan of an active row.
LEMMA RenewedKeeps ==
  ASSUME NEW r, NEW t
  PROVE  LET n == Renewed(r, t)
         IN  \/ n.plan = r.plan /\ n.status = r.status /\ n.expires = r.expires
             \/ ~Active(r, t) /\ n.plan = Free
  <1>1. CASE ~Active(r, t)
    <2>1. Renewed(r, t) = FreshFree(t)
      BY <1>1 DEF Renewed
    <2> QED  BY <1>1, <2>1 DEF FreshFree
  <1>2. CASE Active(r, t) /\ r.period # Month(t)
    <2>1. Renewed(r, t) = NewMonth(r, t)
      BY <1>2 DEF Renewed
    <2> QED  BY <2>1 DEF NewMonth
  <1>3. CASE Active(r, t) /\ r.period = Month(t)
    BY <1>3 DEF Renewed
  <1> QED  BY <1>1, <1>2, <1>3

\* consume_report_slot keeps a row that matches.
LEMMA ConsumeMatches ==
  ASSUME TypeOK, Known, Following, NEW u \in Users, Consume(u), NEW v \in Users, Matches(v)
  PROVE  Matches(v)'
  <1>0. /\ subs \in [Users -> Row] /\ now \in Nat
        /\ contract' = contract /\ now' = now
    BY TypeParts, Facts DEF RowsOK, CountersOK, Consume, remoteVars
  <1>1. CASE v # u
    <2>1. subs'[v] = subs[v]
      BY <1>0, <1>1 DEF Consume
    <2> QED  BY <1>0, <2>1 DEF Matches, Paying, Live
  <1>2. CASE v = u
    <2> DEFINE r == subs[u]
               n == Renewed(r, now)
    <2>1. subs'[u] = [n EXCEPT !.used = @ + 1]
      BY <1>0 DEF Consume, Consumed
    <2>2. \/ n.plan = r.plan /\ n.status = r.status /\ n.expires = r.expires
          \/ ~Active(r, now) /\ n.plan = Free
      BY RenewedKeeps
    <2>3. n \in Row
      BY <1>0, RenewedType
    <2>4. subs'[u].plan = n.plan /\ subs'[u].status = n.status /\ subs'[u].expires = n.expires
      BY <2>1, <2>3 DEF Row
    <2>5. ASSUME NEW s \in Contracts, Owner[s] = u, Paying(s)
          PROVE  /\ subs'[u].plan = PlanOf[s] /\ subs'[u].status = "active"
                 /\ subs'[u].expires = contract[s].end
      <3>1. r.plan = PlanOf[s] /\ r.status = "active" /\ r.expires = contract[s].end
        BY <1>2, <2>5 DEF Matches
      <3>2. contract[s].end = Never \/ contract[s].end >= now
        BY <2>5, Facts DEF Following, Meant, Paying, Live
      <3>3. Active(r, now)
        BY <3>1, <3>2 DEF Active
      <3> QED  BY <2>2, <2>4, <3>1, <3>3
    <2>6. (\A s \in Contracts : Owner[s] = u => ~Live(s)) => subs'[u].plan = Free
      BY <1>2, <2>2, <2>4 DEF Matches
    <2> HIDE DEF n, r
    <2> QED  BY <1>0, <1>2, <2>5, <2>6 DEF Matches, Paying, Live
  <1> QED  BY <1>1, <1>2

\* Every step keeps the row in line.
LEMMA FollowingNext == TypeOK /\ Known /\ Following /\ [Next]_vars => Following'
  <1> SUFFICES ASSUME TypeOK, Known, Following, [Next]_vars PROVE Following'
    OBVIOUS
  <1>0. /\ subs \in [Users -> Row] /\ stripeId \in [Users -> Contracts \cup {None}]
        /\ cache \in [Contracts -> Snapshots] /\ now \in Nat
        /\ contract \in [Contracts -> Snapshots]
    BY TypeParts, Facts DEF RowsOK, CacheOK, CountersOK, ContractOK
  <1>u. ASSUME UNCHANGED <<contract, outbox, claimed, settled, disturbed, stripeId>>,
               \A s \in Contracts : cache'[s] # NoContract => cache'[s] = cache[s],
               \A u \in Users : Matches(u) => Matches(u)'
        PROVE  Following'
    <2>1. Told' = Told /\ \A u \in Users : Coming(u) => Coming(u)'
      BY <1>u DEF Told, Coming, Pending
    <2>2. Resolved'
      BY <1>u DEF Following, Resolved
    <2> QED  BY <1>u, <2>1, <2>2, StayFollowed
  <1>1. ASSUME NEW s \in Contracts,
               RemoteCheckout(s) \/ RemoteRenew(s) \/ RemoteRecover(s) \/ RemoteEnd(s)
        PROVE  Following'
    <2>1. UNCHANGED <<claimed, settled, now, stripeId, subs, cache>>
          /\ disturbed \subseteq disturbed'
      BY <1>1 DEF RemoteCheckout, RemoteRenew, RemoteRecover, RemoteEnd, RemoteStep,
                  historyVars, rowVars, Disturb
    <2>2. contract[s].status # None \/ Owner[s] \in disturbed'
            \/ \A x \in Contracts \ {s} : Owner[x] = Owner[s] => ~Live(x)
      <3>1. CASE RemoteCheckout(s)
        BY <3>1 DEF RemoteCheckout, Disturb
      <3>2. CASE Live(s)
        BY <3>2, Facts DEF Live
      <3> QED  BY <1>1, <3>1, <3>2 DEF RemoteRenew, RemoteRecover, RemoteEnd, RemoteStep
    <2> QED  BY <1>1, <2>1, <2>2, ReportTells, ReportFollowed
  <1>2. ASSUME NEW u \in Users, CancelEndpoint(u) \/ CancelHalf(u) PROVE Following'
    <2> DEFINE s == stripeId[u]
               c == [contract[s] EXCEPT !.atEnd = TRUE]
    <2>1. CancelAtStripe(u)
      BY <1>2 DEF CancelEndpoint, CancelHalf
    <2>2. /\ s \in Contracts /\ Owner[s] = u /\ c \in Snapshots
          /\ Report(s, c, {"updated"}) /\ Tells(s, c, {"updated"})
      BY <2>1, CancelTells
    <2>3. UNCHANGED <<claimed, settled, now, stripeId, disturbed>>
      BY <1>2 DEF CancelEndpoint, CancelHalf, historyVars
    <2>4. \A v \in Users \ {u} : subs'[v] = subs[v]
      BY <1>0, <1>2 DEF CancelEndpoint, CancelHalf, EndRow
    <2>5. contract'[s] = c
      BY <1>0, <2>2 DEF Report
    <2>6. cache' = cache \/ cache' = [cache EXCEPT ![s] = c]
      BY <1>2, <2>5 DEF CancelEndpoint, CancelHalf
    <2>7. contract[s].status # None
      BY <2>1, Facts DEF CancelAtStripe, Live
    <2> HIDE DEF c
    <2> QED  BY <2>2, <2>3, <2>4, <2>6, <2>7, ReportFollowed
  <1>3. ASSUME NEW b \in Bills, Refund(b) \/ RefundHalf(b) PROVE Following'
    <2>1. /\ UNCHANGED <<claimed, contract, outbox, settled, cache, now>>
          /\ disturbed' = disturbed \cup {Owner[b[1]]}
          /\ stripeId' = [stripeId EXCEPT ![Owner[b[1]]] = None]
          /\ \A v \in Users \ {Owner[b[1]]} : subs'[v] = subs[v]
      BY <1>0, <1>3 DEF Refund, RefundHalf, Refundable, CancelRow, remoteVars, historyVars, Disturb
    <2>2. \A v \in Users : stripeId'[v] # None => stripeId'[v] = stripeId[v]
      BY <1>0, <2>1
    <2>3. Told' = Told /\ \A v \in Users : Coming(v) => Coming(v)'
      BY <2>1 DEF Told, Coming, Pending
    <2>4. \A v \in Users \ disturbed' : Matches(v) => Matches(v)'
      BY <2>1 DEF Matches, Paying, Live
    <2>5. Resolved'
      BY <2>1 DEF Following, Resolved
    <2> QED  BY <2>1, <2>2, <2>3, <2>4, <2>5, StayFollowed
  <1>4. ASSUME NEW e \in outbox, Webhook(e) \/ WebhookStale(e) \/ WebhookAnswerLost(e)
        PROVE  Following'
    <2>1. e \in Pending /\ (outbox' = outbox \/ outbox' = outbox \ {e})
      BY <1>4 DEF Webhook, WebhookStale, WebhookAnswerLost, Pending
    <2>2. CASE Handle(e, contract[e.about])
      BY <2>1, <2>2, HandleFollowed
    <2>3. CASE LooksUp(e) /\ cache[e.about] # NoContract /\ Handle(e, cache[e.about])
      BY <2>1, <2>3, HandleFollowed DEF LooksUp
    <2> QED  BY <1>4, <2>2, <2>3 DEF Webhook, WebhookStale, WebhookAnswerLost
  <1>5. ASSUME NEW e \in outbox, WebhookDuplicate(e) PROVE Following'
    <2>1. /\ e \in claimed /\ outbox' = outbox \ {e}
          /\ UNCHANGED <<subs, stripeId, cache, now, claimed, settled, contract, disturbed>>
      BY <1>5 DEF WebhookDuplicate, remoteVars, historyVars, rowVars
    <2>2. Told' = Told /\ Pending' = Pending
      BY <2>1 DEF Told, Pending
    <2>3. \A v \in Users : (Coming(v) => Coming(v)') /\ (Matches(v) => Matches(v)')
      BY <2>1, <2>2 DEF Coming, Matches, Paying, Live
    <2>4. Resolved'
      BY <2>1 DEF Following, Resolved
    <2> QED  BY <2>1, <2>2, <2>3, <2>4, StayFollowed
  <1>6. ASSUME NEW e \in outbox, WebhookRaises(e) PROVE Following'
    <2>1. /\ e \in Pending /\ ApplyPartly(e) /\ disturbed \subseteq disturbed'
          /\ UNCHANGED <<now, claimed, settled, contract, outbox>>
      BY <1>6 DEF WebhookRaises, remoteVars, historyVars, Disturb, Pending
    <2>2. Told' = Told /\ Pending' = Pending
      BY <2>1 DEF Told, Pending
    <2>3. \A v \in Users : Coming(v) => Coming(v)'
      BY <2>2 DEF Coming
    <2>4. ASSUME NEW v \in Users, Matches(v) PROVE Matches(v)' \/ Coming(v)'
      <3>1. CASE subs'[v] = subs[v]
        BY <2>1, <2>4, <3>1 DEF Matches, Paying, Live
      <3>2. CASE v = Owner[e.about] /\ e.kind \in RowKinds
        BY <2>1, <2>2, <3>2 DEF Coming
      <3> QED  BY <2>1, <3>1, <3>2, PartlyFollowed
    <2>5. Resolved'
      BY <2>1 DEF Following, Resolved
    <2> QED  BY <2>1, <2>2, <2>3, <2>4, <2>5, PartlyFollowed, StayFollowed
  <1>7. ASSUME NEW e \in outbox, WebhookDies(e) PROVE Following'
    <2>1. /\ e \in Pending /\ ApplyPartly(e) /\ claimed' = claimed \cup {e}
          /\ disturbed' = disturbed \cup {Owner[e.about]}
          /\ UNCHANGED <<now, settled, contract, outbox>>
      BY <1>7 DEF WebhookDies, remoteVars, Disturb, Pending
    <2>2. Told' = Told /\ Pending' = Pending \ {e}
      BY <2>1 DEF Told, Pending
    <2>3. \A v \in Users \ disturbed' : Coming(v) => Coming(v)'
      BY <2>1, <2>2 DEF Coming
    <2>4. \A v \in Users \ disturbed' : subs'[v] = subs[v]
      BY <2>1, PartlyFollowed
    <2>5. \A v \in Users \ disturbed' : Matches(v) => Matches(v)'
      BY <2>1, <2>4 DEF Matches, Paying, Live
    <2>6. Resolved'
      BY <2>1 DEF Following, Resolved
    <2> QED  BY <2>1, <2>2, <2>3, <2>5, <2>6, PartlyFollowed, StayFollowed
  <1>8. ASSUME NEW u \in Users, CreateCheckout(u) PROVE Following'
    <2>1. /\ UNCHANGED <<contract, outbox, claimed, settled, disturbed, stripeId, cache, now>>
          /\ subs[u] = NoRow /\ subs' = [subs EXCEPT ![u] = FreshFree(now)]
      BY <1>8 DEF CreateCheckout, remoteVars, historyVars
    <2>2. ASSUME NEW v \in Users, Matches(v) PROVE Matches(v)'
      <3>1. CASE v # u
        BY <1>0, <2>1, <2>2, <3>1 DEF Matches, Paying, Live
      <3>2. CASE v = u
        <4>1. \A s \in Contracts : Owner[s] = u => ~Paying(s)
          BY <2>1, <2>2, <3>2 DEF Matches, NoRow
        <4>2. subs'[u].plan = Free
          BY <1>0, <2>1 DEF FreshFree
        <4> QED  BY <2>1, <3>2, <4>1, <4>2 DEF Matches, Paying
      <3> QED  BY <3>1, <3>2
    <2> QED  BY <1>u, <2>1, <2>2
  <1>9. ASSUME NEW u \in Users, Consume(u) PROVE Following'
    <2>1. UNCHANGED <<contract, outbox, claimed, settled, disturbed, stripeId, cache>>
      BY <1>9 DEF Consume, remoteVars, historyVars
    <2> QED  BY <1>9, <1>u, <2>1, ConsumeMatches
  <1>10. CASE Forget \/ Tick
    <2>1. /\ UNCHANGED <<contract, outbox, claimed, settled, disturbed, stripeId, subs>>
          /\ \A s \in Contracts : cache'[s] = NoContract
          /\ now' = now \/ now' = now + 1
      BY <1>10 DEF Forget, Tick, remoteVars, historyVars, rowVars, NoSnapshots
    <2>2. ASSUME NEW s \in Contracts, Paying(s)' PROVE Paying(s)
      <3>1. s \in OneTime \/ contract[s].end \in Nat
        <4>1. contract[s].status # None
          BY <2>1, <2>2, Facts DEF Paying, None
        <4> QED  BY <4>1 DEF Known
      <3> QED  BY <1>0, <2>1, <2>2, <3>1 DEF Paying
    <2>3. \A v \in Users : Matches(v) => Matches(v)'
      BY <2>1, <2>2 DEF Matches, Live
    <2> QED  BY <1>u, <2>1, <2>3
  <1>11. CASE UNCHANGED vars
    <2>1. UNCHANGED <<contract, outbox, claimed, settled, disturbed, stripeId, cache, now, subs>>
      BY <1>11 DEF vars, remoteVars, historyVars, rowVars
    <2>2. \A v \in Users : Matches(v) => Matches(v)'
      BY <2>1 DEF Matches, Paying, Live
    <2> QED  BY <1>u, <2>1, <2>2
  <1> QED  BY <1>1, <1>2, <1>3, <1>4, <1>5, <1>6, <1>7, <1>8, <1>9, <1>10, <1>11
           DEF Next, Delivery, Failure

\* Once nothing of an undisturbed user is on its way, his row is what his contracts
\* say: the cancel endpoint, consume_report_slot, stale snapshots and broken-off
\* handlers in between leave nothing behind (stripe_webhook.py, usage_tracker.py).
THEOREM RowFollowsStripeAlways == Spec => []RowFollowsStripe
  <1>1. Init => Following
    <2> SUFFICES ASSUME Init PROVE Following
      OBVIOUS
    <2>1. \A s \in Contracts : ~Live(s) /\ ~Paying(s) /\ cache[s] = NoContract
      BY Facts DEF Init, Live, Paying, None
    <2>2. Told = {} /\ claimed = {} /\ \A u \in Users : stripeId[u] = None /\ subs[u] = NoRow
      BY DEF Init, Told
    <2>3. Meant /\ Snapshotted /\ Resolved
      BY <2>1, <2>2, StripeAssumption DEF Meant, Snapshotted, Resolved
    <2>4. \A u \in Users : Newest(u) /\ Matches(u)
      BY <2>1, <2>2 DEF Newest, Matches, NoRow
    <2> QED  BY <2>3, <2>4 DEF Following, Followed
  <1>2. Following => RowFollowsStripe
    <2> SUFFICES ASSUME Following, NEW u \in Users, Quiet(u)
                 PROVE  LET live == {s \in Contracts : Owner[s] = u /\ Live(s)}
                        IN  /\ \A s \in live :
                                 contract[s].status = "active"
                                   /\ (s \in OneTime \/ contract[s].end >= now)
                                   => subs[u].plan = PlanOf[s] /\ Active(subs[u], now)
                            /\ live = {} => subs[u].plan = Free
      BY DEF RowFollowsStripe
    <2>1. Matches(u)
      BY DEF Following, Followed, Coming, Pending, Quiet
    <2>2. ASSUME NEW s \in Contracts, Owner[s] = u, Paying(s), Live(s)
          PROVE  subs[u].plan = PlanOf[s] /\ Active(subs[u], now)
      <3>1. contract[s].end = Never \/ contract[s].end >= now
        BY <2>2 DEF Following, Meant, Paying
      <3> QED  BY <2>1, <2>2, <3>1 DEF Matches, Active
    <2> QED  BY <2>1, <2>2 DEF Matches, Paying
  <1> QED  BY <1>1, <1>2, TypeInit, TypeNext, FollowingNext, PTL DEF Spec

=============================================================================
