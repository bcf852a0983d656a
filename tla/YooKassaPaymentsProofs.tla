----------------------- MODULE YooKassaPaymentsProofs -----------------------
(***************************************************************************)
(* Proofs about YooKassaPayments, and PaymentPages in front of it, for any *)
(* users, payments and bounds.                                             *)
(*                                                                         *)
(* What makes the handlers right is evidence: whoever is told "succeeded", *)
(* by a notification or by an answer still awaited, is told of a payment   *)
(* that has succeeded, and at YooKassa that is final.  With it every step  *)
(* is one of few effects (Effects), and each property is proved from the   *)
(* effects alone.                                                          *)
(***************************************************************************)
EXTENDS PaymentPages, SubscriptionsProofs, TLAPS

---------------------------------------------------------------------------
(* Type correctness. *)

\* The part of the type invariant that is about the subscription rows.
RowsOK ==
  /\ subs \in [Users -> Row]
  /\ paidBy \in [Users -> Payments \cup {None}]
  /\ since \in [Payments -> Nat \cup {Never}]
  /\ standing \in [Users -> {"none", "paid", "cut"}]

\* activate_subscription keeps the rows well typed.
LEMMA ActivateType ==
  ASSUME TypeOK, NEW p \in Payments, Activate(p)
  PROVE  RowsOK'
  <1>1. Owner[p] \in Users /\ PlanOf[p] \in Paid
    BY YooKassaAssumption
  <1>2. now \in Nat
    BY YooKassaAssumption DEF TypeOK
  <1>3. Activated(PlanOf[p], now) \in Row
    BY <1>1, <1>2, ActivatedType
  <1> QED  BY <1>1, <1>2, <1>3 DEF Activate, TypeOK, RowsOK

\* cancel_subscription keeps them well typed, whatever becomes of the user.
LEMMA CancelType ==
  ASSUME TypeOK, NEW u \in Users, CancelRow(u), Forfeit(u) \/ Cut(u)
  PROVE  RowsOK'
  <1>1. now \in Nat
    BY YooKassaAssumption DEF TypeOK
  <1>2. Canceled(subs[u], now) \in Row
    BY <1>1, CanceledType DEF TypeOK
  <1> QED  BY <1>2 DEF CancelRow, Forfeit, Cut, TypeOK, RowsOK

\* What a webhook does to the rows.
LEMMA ApplyEventType ==
  ASSUME TypeOK, NEW p \in Payments, NEW s, ApplyEvent(p, s)
  PROVE  RowsOK'
  <1>1. Owner[p] \in Users
    BY YooKassaAssumption
  <1>2. CASE s = "succeeded"
    BY <1>2, ActivateType DEF ApplyEvent
  <1>3. CASE s = "canceled" /\ p \in Churn
    BY <1>1, <1>3, CancelType DEF ApplyEvent
  <1>4. CASE s # "succeeded" /\ ~(s = "canceled" /\ p \in Churn)
    BY <1>4 DEF ApplyEvent, rowVars, TypeOK, RowsOK
  <1> QED  BY <1>2, <1>3, <1>4

\* The initial state is well typed.
LEMMA TypeInit == Init => TypeOK
  BY YooKassaAssumption
  DEF Init, TypeOK, NoRow, Row, Plans, Statuses, Never, Idle, Handlers,
      RemoteStates, LocalStates, Final

\* Every step keeps the types: one case per action.
LEMMA TypeNext == TypeOK /\ [Next]_vars => TypeOK'
  <1> SUFFICES ASSUME TypeOK, [Next]_vars PROVE TypeOK'
    OBVIOUS
  <1> USE DEF Handlers, Idle, RemoteStates, LocalStates, Final, StoreStatus,
              Answered, rowVars
  <1>rows. RowsOK
    BY DEF TypeOK, RowsOK
  <1>keep. ASSUME UNCHANGED rowVars PROVE RowsOK'
    BY <1>rows, <1>keep DEF RowsOK
  <1>dies. ASSUME Dies
           PROVE  waiting' \in [Payments -> Handlers] /\ cached' \in [Payments -> RemoteStates]
    BY <1>dies DEF Dies
  <1>fault. ASSUME faults < MaxFaults, faults' = faults + 1 PROVE faults' \in 0..MaxFaults
    BY <1>fault, YooKassaAssumption DEF TypeOK
  <1>poll. ASSUME NEW p \in Payments, NEW s \in RemoteStates,
                  waiting' = [waiting EXCEPT ![p].poll = s]
           PROVE  waiting' \in [Payments -> Handlers]
    BY <1>poll DEF TypeOK
  <1>refund. ASSUME NEW p \in Payments, waiting' = [waiting EXCEPT ![p].refund = None]
             PROVE  waiting' \in [Payments -> Handlers]
    BY <1>refund DEF TypeOK
  <1>1. ASSUME NEW p \in Payments, CreateAsk(p) PROVE TypeOK'
    <2> DEFINE h == [waiting[p] EXCEPT !.create = TRUE]
    <2>0. h \in Handlers
      <3>1. waiting[p] \in Handlers
        BY DEF TypeOK
      <3> QED  BY <3>1
    <2>1. waiting' \in [Payments -> Handlers]
      <3>1. waiting' = [waiting EXCEPT ![p] = h]
        BY <1>1 DEF CreateAsk
      <3>2. waiting \in [Payments -> Handlers]
        BY DEF TypeOK
      <3> HIDE DEF h
      <3> QED  BY <2>0, <3>1, <3>2
    <2>2. remote' \in [Payments -> RemoteStates]
      BY <1>1 DEF CreateAsk, TypeOK
    <2> QED  BY <1>1, <2>1, <2>2, <1>keep DEF CreateAsk, TypeOK, RowsOK
  <1>2. ASSUME NEW p \in Payments, CreateStore(p) PROVE TypeOK'
    BY <1>2 DEF CreateStore, TypeOK
  <1>3. ASSUME NEW p \in Payments, NEW s \in RemoteStates, Webhook(p, s)
        PROVE TypeOK'
    <2>1. RowsOK'
      BY <1>3, ApplyEventType DEF Webhook
    <2> QED  BY <1>3, <2>1 DEF Webhook, TypeOK, RowsOK
  <1>4. ASSUME NEW p \in Payments, PollAsk(p) PROVE TypeOK'
    BY <1>4 DEF PollAsk, TypeOK
  <1>5. ASSUME NEW p \in Payments, NEW s \in RemoteStates, PollApply(p, s) PROVE TypeOK'
    <2>1. Owner[p] \in Users
      BY YooKassaAssumption
    <2>2. RowsOK'
      <3>1. CASE s = "succeeded"
        BY <1>5, <3>1, ActivateType DEF PollApply
      <3>2. CASE s = "canceled"
        BY <1>5, <3>2, <2>1, CancelType DEF PollApply
      <3>3. CASE s \notin {"succeeded", "canceled"}
        BY <1>5, <3>3, <1>keep DEF PollApply
      <3> QED  BY <3>1, <3>2, <3>3
    <2>3. waiting' \in [Payments -> Handlers]
      BY <1>5, <1>poll DEF PollApply, PollOver
    <2>4. cached' \in [Payments -> RemoteStates] /\ faults' \in 0..MaxFaults
      BY <1>5, <1>fault DEF PollApply, Told, Keeps, TypeOK
    <2>5. local' \in [Payments -> LocalStates]
      BY <1>5 DEF PollApply, TypeOK
    <2>6. UNCHANGED <<now, remote, refunded, notes>>
      BY <1>5 DEF PollApply
    <2> QED  BY <2>2, <2>3, <2>4, <2>5, <2>6 DEF TypeOK, RowsOK
  <1>6. ASSUME NEW p \in Payments, RefundAsk(p) PROVE TypeOK'
    BY <1>6 DEF RefundAsk, TypeOK
  <1>7. ASSUME NEW p \in Payments, RemoteRefund(p) PROVE TypeOK'
    <2>1. waiting' \in [Payments -> Handlers]
      BY <1>7 DEF RemoteRefund, TypeOK
    <2>2. refunded' \in SUBSET Payments
      BY <1>7 DEF RemoteRefund, TypeOK
    <2>3. UNCHANGED <<now, rowVars, local, remote, notes, cached, faults>>
      BY <1>7 DEF RemoteRefund
    <2> QED  BY <2>1, <2>2, <2>3, <1>keep DEF TypeOK, RowsOK
  <1>8. ASSUME NEW p \in Payments, RefundApply(p) PROVE TypeOK'
    <2>1. RowsOK'
      BY <1>8, CancelType, YooKassaAssumption DEF RefundApply
    <2> QED  BY <1>8, <2>1 DEF RefundApply, TypeOK, RowsOK
  <1>9. ASSUME NEW p \in Payments, NEW s \in RemoteStates, RemoteMove(p, s)
        PROVE TypeOK'
    <2>1. s \in RemoteStates \ {None, "pending"}
      BY <1>9 DEF RemoteMove, Moves, None
    <2> QED  BY <1>9, <2>1 DEF RemoteMove, TypeOK
  <1>10. ASSUME NEW p \in Payments, NEW s \in RemoteStates, WebhookAnswerLost(p, s)
         PROVE TypeOK'
    <2>1. RowsOK'
      BY <1>10, ApplyEventType DEF WebhookAnswerLost
    <2>2. faults' \in 0..MaxFaults
      BY <1>10, YooKassaAssumption DEF WebhookAnswerLost, TypeOK
    <2>3. local' \in [Payments -> LocalStates]
      BY <1>10 DEF WebhookAnswerLost, TypeOK
    <2>4. UNCHANGED <<now, remote, refunded, notes, waiting, cached>>
      BY <1>10 DEF WebhookAnswerLost
    <2> QED  BY <2>1, <2>2, <2>3, <2>4 DEF TypeOK, RowsOK
  <1>11. ASSUME NEW p \in Payments, NEW s \in RemoteStates, WebhookHalf(p, s)
         PROVE TypeOK'
    <2>1. waiting' \in [Payments -> Handlers] /\ cached' \in [Payments -> RemoteStates]
      BY <1>11, <1>dies DEF WebhookHalf, TypeOK
    <2>2. local' \in [Payments -> LocalStates]
      BY <1>11 DEF WebhookHalf, TypeOK
    <2>3. RowsOK'
      BY <1>11, <1>keep DEF WebhookHalf
    <2>4. UNCHANGED <<now, remote, refunded, notes>> /\ faults' \in 0..MaxFaults
      BY <1>11, <1>fault DEF WebhookHalf
    <2> QED  BY <2>1, <2>2, <2>3, <2>4 DEF TypeOK, RowsOK
  <1>12. ASSUME NEW u \in Users, CancelEndpoint(u) PROVE TypeOK'
    <2>1. RowsOK'
      BY <1>12, CancelType DEF CancelEndpoint
    <2> QED  BY <1>12, <2>1 DEF CancelEndpoint, TypeOK, RowsOK
  <1>13. CASE Crash
    <2>1. waiting' \in [Payments -> Handlers] /\ cached' \in [Payments -> RemoteStates]
      BY <1>13, <1>dies DEF Crash
    <2>2. faults' \in 0..MaxFaults
      BY <1>13, <1>fault DEF Crash
    <2> QED  BY <1>13, <2>1, <2>2 DEF Crash, TypeOK
  <1>14. CASE Tick
    BY <1>14, YooKassaAssumption DEF Tick, TypeOK
  <1>15. CASE UNCHANGED vars
    BY <1>15 DEF vars, TypeOK
  <1>16. ASSUME NEW p \in Payments, PollHalf(p) PROVE TypeOK'
    <2> DEFINE s == waiting[p].poll
    <2>1. s \in RemoteStates /\ s \in Final
      BY <1>16 DEF PollHalf
    <2>2. waiting' \in [Payments -> Handlers] /\ cached' \in [Payments -> RemoteStates]
      <3>1. CASE Dies
        BY <3>1, <1>dies
      <3>2. CASE PollOver(p) /\ Keeps(p, s)
        BY <3>2, <2>1, <1>poll DEF PollOver, Keeps, TypeOK
      <3> QED  BY <1>16, <3>1, <3>2 DEF PollHalf
    <2>3. local' \in [Payments -> LocalStates]
      BY <1>16, <2>1 DEF PollHalf, TypeOK
    <2>4. RowsOK'
      BY <1>16, <1>keep DEF PollHalf
    <2>5. UNCHANGED <<now, remote, refunded, notes>> /\ faults' \in 0..MaxFaults
      BY <1>16, <1>fault DEF PollHalf
    <2> QED  BY <2>2, <2>3, <2>4, <2>5 DEF TypeOK, RowsOK
  <1>17. ASSUME NEW p \in Payments, RefundHalf(p) PROVE TypeOK'
    <2>1. waiting' \in [Payments -> Handlers] /\ cached' \in [Payments -> RemoteStates]
      BY <1>17, <1>dies, <1>refund DEF RefundHalf, TypeOK
    <2>2. RowsOK'
      BY <1>17, CancelType, YooKassaAssumption DEF RefundHalf
    <2>3. UNCHANGED <<now, local, remote, refunded, notes>> /\ faults' \in 0..MaxFaults
      BY <1>17, <1>fault DEF RefundHalf
    <2> QED  BY <2>1, <2>2, <2>3 DEF TypeOK, RowsOK
  <1> QED  BY <1>1, <1>2, <1>3, <1>4, <1>5, <1>6, <1>7, <1>8, <1>9, <1>10,
              <1>11, <1>12, <1>13, <1>14, <1>15, <1>16, <1>17 DEF Next, Notified

\* Every reachable state is well typed, whatever the handlers, notifications
\* and crashes do.
THEOREM TypeCorrect == Spec => []TypeOK
  <1>1. Init => TypeOK
    BY TypeInit
  <1>2. TypeOK /\ [Next]_vars => TypeOK'
    BY TypeNext
  <1> QED  BY <1>1, <1>2, PTL DEF Spec
---------------------------------------------------------------------------
(* Evidence. *)

\* Nobody is told "succeeded" of a payment that has not succeeded, and nobody
\* awaits, or remembers, "canceled" of one that was not; only a payment that may
\* be polled is.
Evidence ==
  \A p \in Payments :
    /\ <<p, "succeeded">> \in notes => remote[p] = "succeeded"
    /\ \A s \in {waiting[p].poll, cached[p]} \cap Final : remote[p] = s
    /\ waiting[p].poll # None => p \in Polled

\* The user has an abandoned checkout that may be polled.
Abandoned(u) == \E p \in Polled : Owner[p] = u /\ remote[p] = "canceled"

\* What any step does to the subscription rows: a plan is granted on a payment
\* that succeeded, a plan is given up, or cut for an abandoned checkout, or nothing.
RowEffect ==
  \/ \E p \in Payments : remote[p] = "succeeded" /\ Activate(p)
  \/ \E u \in Users : CancelRow(u) /\ (Forfeit(u) \/ (Cut(u) /\ Abandoned(u)))
  \/ UNCHANGED rowVars

\* And to the payments at YooKassa: one that was not settled moves on.
RemoteEffect ==
  \E p \in Payments, s \in RemoteStates :
    remote[p] \notin Final /\ remote' = [remote EXCEPT ![p] = s]

\* A webhook has a row effect, given evidence of what it is told.
LEMMA ApplyEventEffect ==
  ASSUME NEW p \in Payments, NEW s, ApplyEvent(p, s),
         s = "succeeded" => remote[p] = "succeeded"
  PROVE  RowEffect
  <1>1. CASE s = "succeeded"
    BY <1>1 DEF ApplyEvent, RowEffect
  <1>2. CASE s = "canceled" /\ p \in Churn
    <2>1. Owner[p] \in Users
      BY YooKassaAssumption
    <2>2. CancelRow(Owner[p]) /\ Forfeit(Owner[p])
      BY <1>2 DEF ApplyEvent
    <2> QED  BY <2>1, <2>2 DEF RowEffect
  <1>3. CASE s # "succeeded" /\ ~(s = "canceled" /\ p \in Churn)
    BY <1>3 DEF ApplyEvent, RowEffect
  <1> QED  BY <1>1, <1>2, <1>3

\* Every step is a row effect with the payments left alone, or a payment moves
\* on with the rows left alone.
LEMMA Effects ==
  TypeOK /\ Evidence /\ [Next]_vars =>
    (RowEffect /\ UNCHANGED remote) \/ (UNCHANGED rowVars /\ RemoteEffect)
  <1> SUFFICES ASSUME TypeOK, Evidence, [Next]_vars
               PROVE  \/ RowEffect /\ UNCHANGED remote
                      \/ UNCHANGED rowVars /\ RemoteEffect
    OBVIOUS
  <1>1. ASSUME NEW p \in Payments, CreateAsk(p)
        PROVE  UNCHANGED rowVars /\ RemoteEffect
    BY <1>1 DEF CreateAsk, RemoteEffect, RemoteStates, Final, None
  <1>2. ASSUME NEW p \in Payments, NEW s \in RemoteStates, RemoteMove(p, s)
        PROVE  UNCHANGED rowVars /\ RemoteEffect
    BY <1>2 DEF RemoteMove, RemoteEffect, Moves, Final
  <1>3. ASSUME NEW p \in Payments, NEW s \in RemoteStates,
               Webhook(p, s) \/ WebhookAnswerLost(p, s)
        PROVE  RowEffect /\ UNCHANGED remote
    <2>1. s = "succeeded" => remote[p] = "succeeded"
      BY <1>3 DEF Webhook, WebhookAnswerLost, Evidence
    <2>2. ApplyEvent(p, s) /\ UNCHANGED remote
      BY <1>3 DEF Webhook, WebhookAnswerLost
    <2> QED  BY <2>1, <2>2, ApplyEventEffect
  <1>4. ASSUME NEW p \in Payments, NEW s \in RemoteStates, PollApply(p, s)
        PROVE  RowEffect /\ UNCHANGED remote
    <2>1. Owner[p] \in Users
      BY YooKassaAssumption
    <2>2. s \in Final => remote[p] = s
      BY <1>4 DEF PollApply, Told, Evidence
    <2>3. CASE s = "succeeded"
      BY <1>4, <2>2, <2>3 DEF PollApply, Final, RowEffect
    <2>4. CASE s = "canceled"
      <3>1. p \in Polled
        BY <1>4 DEF PollApply, Told, Evidence
      <3>2. Abandoned(Owner[p])
        BY <2>2, <2>4, <3>1 DEF Final, Abandoned
      <3>3. CancelRow(Owner[p]) /\ Cut(Owner[p]) /\ UNCHANGED remote
        BY <1>4, <2>4 DEF PollApply
      <3> QED  BY <2>1, <3>2, <3>3 DEF RowEffect
    <2>5. CASE s \notin {"succeeded", "canceled"}
      BY <1>4, <2>5 DEF PollApply, RowEffect
    <2> QED  BY <2>3, <2>4, <2>5
  <1>5. ASSUME NEW p \in Payments, RefundApply(p) \/ RefundHalf(p)
        PROVE  RowEffect /\ UNCHANGED remote
    BY <1>5, YooKassaAssumption DEF RefundApply, RefundHalf, RowEffect
  <1>6. ASSUME NEW u \in Users, CancelEndpoint(u)
        PROVE  RowEffect /\ UNCHANGED remote
    BY <1>6 DEF CancelEndpoint, RowEffect
  <1>7. ASSUME NEW p \in Payments,
               \/ CreateStore(p) \/ PollAsk(p) \/ PollHalf(p)
               \/ RefundAsk(p) \/ RemoteRefund(p)
               \/ \E s \in RemoteStates : WebhookHalf(p, s)
        PROVE  RowEffect /\ UNCHANGED remote
    BY <1>7 DEF CreateStore, PollAsk, PollHalf, RefundAsk, RemoteRefund, WebhookHalf,
                RowEffect
  <1>8. CASE Crash \/ Tick \/ UNCHANGED vars
    BY <1>8 DEF Crash, Tick, vars, rowVars, RowEffect
  <1> QED  BY <1>1, <1>2, <1>3, <1>4, <1>5, <1>6, <1>7, <1>8 DEF Next, Notified

\* What YooKassa settled stays as it is.
LEMMA OutcomeIsFinal ==
  ASSUME TypeOK, Evidence, [Next]_vars,
         NEW p \in Payments, remote[p] \in Final
  PROVE  remote'[p] = remote[p]
  BY Effects DEF RemoteEffect, TypeOK

\* Success is.
LEMMA SuccessIsFinal ==
  ASSUME TypeOK, Evidence, [Next]_vars,
         NEW p \in Payments, remote[p] = "succeeded"
  PROVE  remote'[p] = "succeeded"
  BY OutcomeIsFinal DEF Final

\* Evidence is never spoilt: what a step adds to it is true when it is added,
\* and stays true.
LEMMA EvidenceNext == TypeOK /\ Evidence /\ [Next]_vars => Evidence'
  <1> SUFFICES ASSUME TypeOK, Evidence, [Next]_vars PROVE Evidence'
    OBVIOUS
  <1>1. \A p \in Payments :
          <<p, "succeeded">> \in notes' =>
            <<p, "succeeded">> \in notes \/ remote'[p] = "succeeded"
    <2>1. ASSUME NEW p \in Payments, NEW s \in RemoteStates, RemoteMove(p, s)
          PROVE  \A q \in Payments :
                   <<q, "succeeded">> \in notes' =>
                     <<q, "succeeded">> \in notes \/ remote'[q] = "succeeded"
      BY <2>1 DEF RemoteMove, TypeOK
    <2>2. CASE notes' \subseteq notes
      BY <2>2
    <2>3. \/ notes' \subseteq notes
          \/ \E p \in Payments, s \in RemoteStates : RemoteMove(p, s)
      BY DEF Next, Notified, vars, rowVars, CreateAsk, CreateStore, Webhook, Answered,
             PollAsk, PollApply, PollHalf, RefundAsk, RemoteRefund, RefundApply,
             RefundHalf, WebhookAnswerLost, WebhookHalf, CancelEndpoint, Crash, Tick
    <2> QED  BY <2>1, <2>2, <2>3
  <1>2. \A p \in Payments :
          waiting'[p].poll # None =>
            \/ waiting'[p].poll = waiting[p].poll
            \/ waiting'[p].poll = remote[p] /\ p \in Polled
    <2>1. ASSUME NEW q \in Payments,
                 CreateAsk(q) \/ CreateStore(q) \/ RefundAsk(q) \/ RemoteRefund(q)
                 \/ RefundApply(q)
          PROVE  \A p \in Payments : waiting'[p].poll = waiting[p].poll
      BY <2>1 DEF CreateAsk, CreateStore, RefundAsk, RemoteRefund, RefundApply,
                  TypeOK, Handlers
    <2>6. ASSUME NEW q \in Payments, waiting' = [waiting EXCEPT ![q].refund = None]
          PROVE  \A p \in Payments : waiting'[p].poll = waiting[p].poll
      BY <2>6 DEF TypeOK, Handlers
    <2>2. ASSUME NEW q \in Payments, PollAsk(q) \/ PollOver(q), NEW p \in Payments,
                 waiting'[p].poll # None
          PROVE  \/ waiting'[p].poll = waiting[p].poll
                 \/ waiting'[p].poll = remote[p] /\ p \in Polled
      BY <2>2 DEF PollAsk, PollOver, TypeOK, Handlers
    <2>3. CASE waiting' = [p \in Payments |-> Idle]
      BY <2>3 DEF Idle
    <2>4. CASE UNCHANGED waiting
      BY <2>4
    <2>5. \/ UNCHANGED waiting
          \/ waiting' = [p \in Payments |-> Idle]
          \/ \E q \in Payments :
               \/ CreateAsk(q) \/ CreateStore(q) \/ RefundAsk(q) \/ RemoteRefund(q)
               \/ RefundApply(q) \/ waiting' = [waiting EXCEPT ![q].refund = None]
               \/ PollAsk(q) \/ PollOver(q)
      BY DEF Next, Notified, vars, Webhook, RemoteMove, WebhookAnswerLost, WebhookHalf,
             PollApply, PollHalf, RefundHalf, CancelEndpoint, Crash, Dies, Tick
    <2> QED  BY <2>1, <2>2, <2>3, <2>4, <2>5, <2>6
  <1>6. \A p \in Payments : cached'[p] \in {None, cached[p], waiting[p].poll}
    <2>1. ASSUME NEW q \in Payments, NEW s, Keeps(q, s), s = waiting[q].poll
          PROVE  \A p \in Payments : cached'[p] \in {None, cached[p], waiting[p].poll}
      BY <2>1 DEF Keeps, TypeOK
    <2>2. CASE cached' = [p \in Payments |-> None]
      BY <2>2
    <2>3. CASE UNCHANGED cached
      BY <2>3
    <2>4. \/ UNCHANGED cached
          \/ cached' = [p \in Payments |-> None]
          \/ \E q \in Payments : Keeps(q, waiting[q].poll)
      BY DEF Next, Notified, vars, Webhook, RemoteMove, WebhookAnswerLost, WebhookHalf,
             PollAsk, PollApply, PollHalf, Told, CancelEndpoint, Crash, Dies, Tick,
             CreateAsk, CreateStore, RefundAsk, RemoteRefund, RefundApply, RefundHalf
    <2> QED  BY <2>1, <2>2, <2>3, <2>4
  <1> SUFFICES ASSUME NEW p \in Payments
               PROVE  /\ <<p, "succeeded">> \in notes' => remote'[p] = "succeeded"
                      /\ \A s \in {waiting'[p].poll, cached'[p]} \cap Final : remote'[p] = s
                      /\ waiting'[p].poll # None => p \in Polled
    BY DEF Evidence
  <1>3. <<p, "succeeded">> \in notes' => remote'[p] = "succeeded"
    BY <1>1, SuccessIsFinal DEF Evidence
  <1>4. \A s \in {waiting'[p].poll, cached'[p]} \cap Final : remote'[p] = s
    <2> SUFFICES ASSUME NEW s \in {waiting'[p].poll, cached'[p]}, s \in Final
                 PROVE  remote'[p] = s
      OBVIOUS
    <2>1. s # None
      BY DEF Final, None
    <2>2. s \in {waiting[p].poll, cached[p], remote[p]}
      BY <1>2, <1>6, <2>1
    <2>3. remote[p] = s
      BY <2>2 DEF Evidence
    <2> QED  BY <2>3, OutcomeIsFinal
  <1>5. waiting'[p].poll # None => p \in Polled
    BY <1>2 DEF Evidence
  <1> QED  BY <1>3, <1>4, <1>5

\* Evidence holds throughout.
LEMMA EvidenceAlways == Spec => [](TypeOK /\ Evidence)
  <1>1. Init => TypeOK /\ Evidence
    BY TypeInit DEF Init, Evidence, Idle, Final, None
  <1>2. TypeOK /\ Evidence /\ [Next]_vars => TypeOK' /\ Evidence'
    BY TypeNext, EvidenceNext
  <1> QED  BY <1>1, <1>2, PTL DEF Spec

---------------------------------------------------------------------------
(* The plan and the money. *)

\* A row that names a payment names one that keeps PlanBacked.
LEMMA PlanBackedNext ==
  TypeOK /\ Evidence /\ PlanBacked /\ [Next]_vars => PlanBacked'
  <1> SUFFICES ASSUME TypeOK, Evidence, PlanBacked, [Next]_vars,
                      NEW u \in Users, paidBy'[u] # None
               PROVE  /\ Owner[paidBy'[u]] = u
                      /\ remote'[paidBy'[u]] = "succeeded"
                      /\ subs'[u].plan = PlanOf[paidBy'[u]] /\ subs'[u].status = "active"
    BY DEF PlanBacked
  <1>1. CASE UNCHANGED remote /\ \E p \in Payments : remote[p] = "succeeded" /\ Activate(p)
    <2>1. PICK p \in Payments : remote[p] = "succeeded" /\ Activate(p)
      BY <1>1
    <2>2. CASE u = Owner[p]
      BY <1>1, <2>1, <2>2 DEF Activate, Activated, TypeOK
    <2>3. CASE u # Owner[p]
      BY <1>1, <2>1, <2>3 DEF Activate, PlanBacked, TypeOK
    <2> QED  BY <2>2, <2>3
  <1>2. CASE UNCHANGED remote /\ \E v \in Users : CancelRow(v)
    BY <1>2 DEF CancelRow, PlanBacked, TypeOK
  <1>3. CASE UNCHANGED rowVars
    <2>1. paidBy' = paidBy /\ subs' = subs
      BY <1>3 DEF rowVars
    <2>2. paidBy[u] \in Payments
      BY <2>1 DEF TypeOK
    <2>3. remote[paidBy[u]] = "succeeded"
      BY <2>1 DEF PlanBacked
    <2>4. remote'[paidBy[u]] = "succeeded"
      BY <2>2, <2>3, SuccessIsFinal
    <2> QED  BY <2>1, <2>4 DEF PlanBacked
  <1> QED  BY <1>1, <1>2, <1>3, Effects DEF RowEffect

\* A plan rests on a payment of that user, for that plan, that went through:
\* in every order of notifications, polls, refunds and crashes.
THEOREM PlanBackedAlways == Spec => []PlanBacked
  <1>1. Init => PlanBacked
    BY DEF Init, PlanBacked
  <1> QED  BY <1>1, EvidenceAlways, PlanBackedNext, PTL DEF Spec

\* A user who paid keeps his plan over every step that does not cut it, and a
\* step that does has an abandoned checkout to show.
LEMMA WebhookKeepsPlanNext ==
  TypeOK /\ Evidence /\ WebhookKeepsPlan /\ [Next]_vars => WebhookKeepsPlan'
  <1> SUFFICES ASSUME TypeOK, Evidence, WebhookKeepsPlan, [Next]_vars, NEW u \in Users
               PROVE  /\ standing'[u] = "paid" => subs'[u].plan \in Paid /\ paidBy'[u] # None
                      /\ standing'[u] = "cut" => Abandoned(u)'
    BY DEF WebhookKeepsPlan, Abandoned
  <1>0. standing[u] = "cut" => Abandoned(u)
    BY DEF WebhookKeepsPlan, Abandoned
  <1>1. Abandoned(u) => Abandoned(u)'
    BY OutcomeIsFinal, YooKassaAssumption DEF Abandoned, Final
  <1>2. CASE \E p \in Payments : Activate(p)
    <2>1. PICK p \in Payments : Activate(p)
      BY <1>2
    <2>2. p # None /\ PlanOf[p] \in Paid
      BY YooKassaAssumption
    <2>3. CASE u = Owner[p]
      BY <2>1, <2>2, <2>3 DEF Activate, Activated, TypeOK
    <2>4. CASE u # Owner[p]
      BY <1>0, <1>1, <2>1, <2>4 DEF Activate, WebhookKeepsPlan, TypeOK
    <2> QED  BY <2>3, <2>4
  <1>3. ASSUME NEW v \in Users, CancelRow(v), Forfeit(v) \/ (Cut(v) /\ Abandoned(v))
        PROVE  /\ standing'[u] = "paid" => subs'[u].plan \in Paid /\ paidBy'[u] # None
               /\ standing'[u] = "cut" => Abandoned(u)'
    <2>1. CASE u = v
      BY <1>0, <1>1, <1>3, <2>1 DEF Forfeit, Cut, TypeOK
    <2>2. CASE u # v
      BY <1>0, <1>1, <1>3, <2>2 DEF CancelRow, Forfeit, Cut, WebhookKeepsPlan, TypeOK
    <2> QED  BY <2>1, <2>2
  <1>4. CASE UNCHANGED rowVars
    BY <1>0, <1>1, <1>4 DEF rowVars, WebhookKeepsPlan
  <1> QED  BY <1>2, <1>3, <1>4, Effects DEF RowEffect

\* Neither webhook nor crash costs a paying user his plan; only a refund or he
\* himself can, or the poll of an abandoned checkout of his.
THEOREM WebhookKeepsPlanAlways == Spec => []WebhookKeepsPlan
  <1>1. Init => WebhookKeepsPlan
    BY DEF Init, WebhookKeepsPlan
  <1> QED  BY <1>1, EvidenceAlways, WebhookKeepsPlanNext, PTL DEF Spec

---------------------------------------------------------------------------
(* The handlers implement what a payer is promised. *)

USE DEF Purchase!Pay, Purchase!Grant, Purchase!Revoke

\* Activation grants the payment it was given.
LEMMA ActivateGrants ==
  ASSUME TypeOK, NEW p \in Payments, remote[p] = "succeeded", Activate(p),
         UNCHANGED remote
  PROVE  Purchase!Grant(p)
  <1>1. now # Never
    BY YooKassaAssumption DEF TypeOK, Never
  <1>2. {q \in Payments : since'[q] # Never} = {q \in Payments : since[q] # Never} \cup {p}
    BY <1>1 DEF Activate, TypeOK
  <1>3. paidBy' = [paidBy EXCEPT ![Owner[p]] = p]
    BY DEF Activate
  <1> QED  BY <1>2, <1>3

\* A payment that moves on is paid, or nothing happens to the promise.
LEMMA RemotePays ==
  ASSUME TypeOK, UNCHANGED rowVars, RemoteEffect
  PROVE  \/ \E p \in Payments : Purchase!Pay(p)
         \/ UNCHANGED {p \in Payments : remote[p] = "succeeded"}
  <1>1. PICK p \in Payments, s \in RemoteStates :
          remote[p] # "succeeded" /\ remote' = [remote EXCEPT ![p] = s]
    BY DEF RemoteEffect, Final
  <1>2. UNCHANGED <<paidBy, since>>
    BY DEF rowVars
  <1>3. CASE s = "succeeded"
    <2>1. {q \in Payments : remote'[q] = "succeeded"} =
            {q \in Payments : remote[q] = "succeeded"} \cup {p}
      BY <1>1, <1>3 DEF TypeOK
    <2> QED  BY <1>2, <2>1
  <1>4. CASE s # "succeeded"
    <2>1. {q \in Payments : remote'[q] = "succeeded"} =
            {q \in Payments : remote[q] = "succeeded"}
      BY <1>1, <1>4 DEF TypeOK
    <2> QED  BY <2>1
  <1> QED  BY <1>3, <1>4

\* Every step of the handlers is a step of the promise, or a stutter.
LEMMA PurchaseNext ==
  TypeOK /\ Evidence /\ [Next]_vars =>
    [Purchase!Next]_<<{p \in Payments : remote[p] = "succeeded"},
                      {p \in Payments : since[p] # Never}, paidBy>>
  <1> SUFFICES ASSUME TypeOK, Evidence, [Next]_vars
               PROVE  \/ Purchase!Next
                      \/ UNCHANGED <<{p \in Payments : remote[p] = "succeeded"},
                                     {p \in Payments : since[p] # Never}, paidBy>>
    OBVIOUS
  <1>1. CASE UNCHANGED remote /\ \E p \in Payments : remote[p] = "succeeded" /\ Activate(p)
    BY <1>1, ActivateGrants DEF Purchase!Next
  <1>2. CASE UNCHANGED remote /\ \E u \in Users : CancelRow(u)
    BY <1>2 DEF Purchase!Next, CancelRow
  <1>3. CASE UNCHANGED rowVars /\ UNCHANGED remote
    BY <1>3 DEF rowVars
  <1>4. CASE UNCHANGED rowVars /\ RemoteEffect
    <2>1. UNCHANGED <<paidBy, since>>
      BY <1>4 DEF rowVars
    <2> QED  BY <1>4, <2>1, RemotePays DEF Purchase!Next
  <1> QED  BY <1>1, <1>2, <1>3, <1>4, Effects DEF RowEffect

\* The handlers implement the safety part of the promise: a plan is granted
\* only on a payment that went through.  (That each is granted in the end is
\* left to the model checker.)
THEOREM PurchasesImplemented == Spec => Purchase!Spec
  <1>1. Init => Purchase!Init
    BY DEF Init, Purchase!Init, None
  <1>2. TypeOK /\ Evidence /\ [Next]_vars =>
          [Purchase!Next]_<<{p \in Payments : remote[p] = "succeeded"},
                            {p \in Payments : since[p] # Never}, paidBy>>
    BY PurchaseNext
  <1> QED  BY <1>1, <1>2, EvidenceAlways, PTL DEF Spec, Purchase!Spec

\* What the promise amounts to: whoever keeps it holds every plan on a granted
\* payment of the same user, and grants nothing that was not paid.
THEOREM PromiseIsBacked == Purchase!Spec => []Purchase!Backed
  <1> DEFINE paid == {p \in Payments : remote[p] = "succeeded"}
             granted == {p \in Payments : since[p] # Never}
             Inv == /\ granted \subseteq paid
                    /\ paidBy \in [Users -> Payments \cup {None}]
                    /\ \A u \in Users :
                         paidBy[u] # None => paidBy[u] \in granted /\ Owner[paidBy[u]] = u
  <1>1. Purchase!Init => Inv
    BY DEF Purchase!Init
  <1>2. Inv /\ [Purchase!Next]_<<paid, granted, paidBy>> => Inv'
    <2> SUFFICES ASSUME Inv, [Purchase!Next]_<<paid, granted, paidBy>> PROVE Inv'
      OBVIOUS
    <2>1. ASSUME NEW p \in Payments, Purchase!Pay(p) PROVE Inv'
      BY <2>1
    <2>2. ASSUME NEW p \in Payments, Purchase!Grant(p) PROVE Inv'
      <3>1. /\ p \in paid /\ granted' = granted \cup {p} /\ paid' = paid
            /\ paidBy' = [paidBy EXCEPT ![Owner[p]] = p]
        BY <2>2
      <3>2. Owner[p] \in Users /\ p # None
        BY YooKassaAssumption
      <3> QED  BY <3>1, <3>2
    <2>3. ASSUME NEW u \in Users, Purchase!Revoke(u) PROVE Inv'
      BY <2>3
    <2>4. CASE UNCHANGED <<paid, granted, paidBy>>
      BY <2>4
    <2> QED  BY <2>1, <2>2, <2>3, <2>4 DEF Purchase!Next
  <1>3. Inv => Purchase!Backed
    BY DEF Purchase!Backed
  <1> QED  BY <1>1, <1>2, <1>3, PTL DEF Purchase!Spec
---------------------------------------------------------------------------
(* What the payment page says. *)

\* Activation is never undone: the first one keeps its tick.
LEMMA ActivationIsFinal ==
  ASSUME TypeOK, Evidence, [Next]_vars,
         NEW p \in Payments, since[p] # Never
  PROVE  since'[p] # Never
  <1>1. ASSUME NEW q \in Payments, Activate(q) PROVE since'[p] # Never
    BY <1>1, YooKassaAssumption DEF Activate, TypeOK, Never
  <1>2. ASSUME NEW u \in Users, CancelRow(u) PROVE since'[p] # Never
    BY <1>2 DEF CancelRow
  <1>3. CASE UNCHANGED rowVars
    BY <1>3 DEF rowVars
  <1> QED  BY <1>1, <1>2, <1>3, Effects DEF RowEffect

\* A request that fails in the tab only stops waiting for its answer.
GivesUp ==
  /\ UNCHANGED <<now, rowVars, local, remote, refunded, notes, cached, faults>>
  /\ \E p \in Payments :
       \/ waiting' = [waiting EXCEPT ![p].create = FALSE]
       \/ waiting' = [waiting EXCEPT ![p].poll = None]

LEMMA GivesUpKeeps ==
  ASSUME TypeOK, Evidence, GivesUp
  PROVE  TypeOK' /\ Evidence'
  <1>1. PICK p \in Payments :
          \/ waiting' = [waiting EXCEPT ![p].create = FALSE]
          \/ waiting' = [waiting EXCEPT ![p].poll = None]
    BY DEF GivesUp
  <1>2. waiting' \in [Payments -> Handlers]
    <2>1. waiting \in [Payments -> Handlers]
      BY DEF TypeOK
    <2>2. /\ [waiting[p] EXCEPT !.create = FALSE] \in Handlers
          /\ [waiting[p] EXCEPT !.poll = None] \in Handlers
      <3>1. waiting[p] \in Handlers
        BY <2>1
      <3> QED  BY <3>1 DEF Handlers, RemoteStates
    <2>3. PICK h \in Handlers : waiting' = [waiting EXCEPT ![p] = h]
      BY <1>1, <2>2
    <2> QED  BY <2>1, <2>3
  <1>3. \A q \in Payments :
          waiting'[q].poll # None => waiting'[q].poll = waiting[q].poll
    BY <1>1 DEF TypeOK, Handlers
  <1> QED  BY <1>2, <1>3 DEF GivesUp, TypeOK, Evidence, Final, None, rowVars

\* A step with the browser in front is a step of the payments, or a request
\* that fails.
LEMMA PagesStep == [PagesNext]_pageVars => [Next]_vars \/ GivesUp
  <1> SUFFICES ASSUME [PagesNext]_pageVars PROVE [Next]_vars \/ GivesUp
    OBVIOUS
  <1>1. CASE \/ OpenPrices \/ PricesAnswered \/ ClickStripe
             \/ \E ok \in BOOLEAN : CheckoutAnswered(ok)
             \/ BackFromStripe \/ GivesUpAtStripe \/ OpenTariffs
             \/ UNCHANGED pageVars
    BY <1>1 DEF OpenPrices, PricesAnswered, ClickStripe, CheckoutAnswered,
                BackFromStripe, GivesUpAtStripe, OpenTariffs, pageVars
  <1>2. CASE OpenStatus
    <2>1. UNCHANGED vars \/ PollAsk(last)
      BY <1>2 DEF OpenStatus
    <2>2. last \in Payments \/ ~ PollAsk(last)
      BY YooKassaAssumption DEF PollAsk
    <2> QED  BY <2>1, <2>2 DEF Next
  <1>3. ASSUME NEW p \in Payments,
               \/ ClickBuy(p) \/ CreateAnswered(p)
               \/ \E s \in RemoteStates : StatusAnswered(p, s)
        PROVE  Next
    BY <1>3 DEF ClickBuy, CreateAnswered, StatusAnswered, Next
  <1>4. ASSUME NEW p \in Payments, CreateFails(p) \/ StatusFails(p)
        PROVE  GivesUp
    BY <1>4 DEF CreateFails, StatusFails, GivesUp
  <1>5. CASE Behind
    BY <1>5 DEF Behind, Next, Notified
  <1> QED  BY <1>1, <1>2, <1>3, <1>4, <1>5 DEF PagesNext

\* So evidence holds with the browser in front, too.
LEMMA PagesEvidence == PagesSpec => [](TypeOK /\ Evidence)
  <1>1. PagesInit => TypeOK /\ Evidence
    BY TypeInit DEF PagesInit, Init, Evidence, Idle, Final, None
  <1>2. TypeOK /\ Evidence /\ [PagesNext]_pageVars => TypeOK' /\ Evidence'
    BY PagesStep, TypeNext, EvidenceNext, GivesUpKeeps
  <1> QED  BY <1>1, <1>2, PTL DEF PagesSpec

\* The browser costs the payer nothing he was promised: with its tabs, its stale
\* and lost answers in front of them, the handlers still implement Purchases.
THEOREM PagesKeepPromise == PagesSpec => Purchase!Spec
  <1>1. PagesInit => Purchase!Init
    BY DEF PagesInit, Init, Purchase!Init, None
  <1>2. TypeOK /\ Evidence /\ [PagesNext]_pageVars =>
          [Purchase!Next]_<<{p \in Payments : remote[p] = "succeeded"},
                            {p \in Payments : since[p] # Never}, paidBy>>
    <2>1. GivesUp => UNCHANGED <<{p \in Payments : remote[p] = "succeeded"},
                                 {p \in Payments : since[p] # Never}, paidBy>>
      BY DEF GivesUp, rowVars
    <2> QED  BY <2>1, PagesStep, PurchaseNext
  <1> QED  BY <1>1, <1>2, PagesEvidence, PTL DEF PagesSpec, Purchase!Spec

\* Nor does it make a plan rest on another payment, or cut one but for an
\* abandoned checkout.
THEOREM PagesKeepPlans == PagesSpec => [](PlanBacked /\ WebhookKeepsPlan)
  <1>1. PagesInit => PlanBacked /\ WebhookKeepsPlan
    BY DEF PagesInit, Init, PlanBacked, WebhookKeepsPlan
  <1>2. TypeOK /\ Evidence /\ PlanBacked /\ WebhookKeepsPlan /\ [PagesNext]_pageVars
          => PlanBacked' /\ WebhookKeepsPlan'
    <2>1. GivesUp /\ PlanBacked /\ WebhookKeepsPlan => PlanBacked' /\ WebhookKeepsPlan'
      BY DEF GivesUp, rowVars, PlanBacked, WebhookKeepsPlan
    <2> QED  BY <2>1, PagesStep, PlanBackedNext, WebhookKeepsPlanNext
  <1> QED  BY <1>1, <1>2, PagesEvidence, PTL DEF PagesSpec

\* The page says "active" only of a payment, one that went through and was
\* activated.
Said == at = "active" =>
          of \in Payments /\ remote[of] = "succeeded" /\ since[of] # Never

\* Evidence is what the page reads, and neither fact is ever undone.
LEMMA SaidNext ==
  TypeOK /\ Evidence /\ Said /\ [PagesNext]_pageVars => Said'
  <1> SUFFICES ASSUME TypeOK, Evidence, Said, [PagesNext]_pageVars, at' = "active"
               PROVE  of' \in Payments /\ remote'[of'] = "succeeded" /\ since'[of'] # Never
    BY DEF Said
  <1>1. ASSUME UNCHANGED <<at, of>>
        PROVE  of' \in Payments /\ remote'[of'] = "succeeded" /\ since'[of'] # Never
    <2>1. of \in Payments /\ remote[of] = "succeeded" /\ since[of] # Never
      BY <1>1 DEF Said
    <2>2. CASE [Next]_vars
      BY <1>1, <2>1, <2>2, SuccessIsFinal, ActivationIsFinal
    <2>3. CASE GivesUp
      BY <1>1, <2>1, <2>3 DEF GivesUp, rowVars
    <2> QED  BY <2>2, <2>3, PagesStep
  <1>2. ASSUME NEW p \in Payments, NEW s \in RemoteStates, StatusAnswered(p, s),
               ~ UNCHANGED <<at, of>>
        PROVE  of' \in Payments /\ remote'[of'] = "succeeded" /\ since'[of'] # Never
    <2>1. s = "succeeded" /\ of' = p
      BY <1>2 DEF StatusAnswered, ShowCancelled, Mounts
    <2>2. remote[p] = "succeeded"
      BY <1>2, <2>1 DEF StatusAnswered, PollApply, Told, Evidence, Final
    <2>3. Activate(p) /\ UNCHANGED remote
      BY <1>2, <2>1 DEF StatusAnswered, PollApply
    <2>4. since'[p] # Never
      BY <2>3, YooKassaAssumption DEF Activate, TypeOK, Never
    <2> QED  BY <2>1, <2>2, <2>3, <2>4
  <1>3. \/ UNCHANGED <<at, of>>
        \/ \E p \in Payments, s \in RemoteStates : StatusAnswered(p, s)
    BY DEF PagesNext, OpenPrices, PricesAnswered, ClickStripe, CheckoutAnswered,
           BackFromStripe, GivesUpAtStripe, OpenTariffs, OpenStatus, ClickBuy,
           CreateAnswered, CreateFails, StatusFails, Behind, Mounts, Leaves,
           tab, pageVars
  <1> QED  BY <1>1, <1>2, <1>3

\* "Подписка активирована" is true when it is said, for any number of payments,
\* page views, lost answers and crashes.
THEOREM ActivatedIsTrueAlways == PagesSpec => []ActivatedIsTrue
  <1>1. PagesInit => Said
    BY DEF PagesInit, Said
  <1>2. Said => ActivatedIsTrue
    BY DEF Said, ActivatedIsTrue
  <1> QED  BY <1>1, <1>2, PagesEvidence, SaidNext, PTL DEF PagesSpec
=============================================================================
