------------------------- MODULE ReportSlotsProofs -------------------------
(***************************************************************************)
(* Proofs about ReportSlots, for any users, tasks, plans, limits and       *)
(* bounds.  Each invariant is inductive together with the type invariant   *)
(* and, where tasks are counted, with Unstarted: a request that has        *)
(* consumed nothing has no charge and no task.                             *)
(***************************************************************************)
EXTENDS ReportSlots, SubscriptionsProofs, FiniteSetTheorems, TLAPS

---------------------------------------------------------------------------
(* Type correctness. *)

USE DEF requestVars, workVars

\* The initial state is well typed.
LEMMA TypeInit == Init => TypeOK
  <1> SUFFICES ASSUME Init PROVE TypeOK
    OBVIOUS
  <1> QED  BY NoRowType, ReportSlotsAssumption
           DEF Init, TypeOK, RequestStages, WorkStages

\* Every step keeps the types: one case per action.
LEMMA TypeNext == TypeOK /\ [Next]_vars => TypeOK'
  <1> SUFFICES ASSUME TypeOK, [Next]_vars PROVE TypeOK'
    OBVIOUS
  <1>now. now \in Nat
    BY ReportSlotsAssumption DEF TypeOK
  <1>1. ASSUME NEW t \in Tasks, Endpoint(t) PROVE TypeOK'
    <2>1. CASE Consume(t)
      <3> DEFINE u == Owner[t]
                 e == epoch[u] + IF Resets(subs[u]) THEN 1 ELSE 0
      <3>1. u \in Users /\ subs[u] \in Row /\ e \in Nat
        BY ReportSlotsAssumption DEF TypeOK
      <3>2. Consumed(subs[u], now) \in Row
        BY <3>1, <1>now, ConsumedType
      <3>3. [epoch |-> e, month |-> Month(now)] \in [epoch : Nat, month : Nat]
        BY <3>1, <1>now, MonthType
      <3> QED  BY <2>1, <3>1, <3>2, <3>3 DEF TypeOK, Consume, RequestStages
    <2>2. CASE Admit(t) \/ TurnAway(t) \/ Refuse(t)
      BY <2>2 DEF TypeOK, Admit, TurnAway, Refuse, RequestStages
    <2>3. CASE Enqueue(t) \/ LogHistory(t)
      BY <2>3 DEF TypeOK, Enqueue, LogHistory, RequestStages, WorkStages
    <2> QED  BY <1>1, <2>1, <2>2, <2>3 DEF Endpoint
  <1>2. ASSUME NEW t \in Tasks, Worker(t) PROVE TypeOK'
    <2>1. CASE Fail(t)
      <3>1. Owner[t] \in Users /\ subs[Owner[t]] \in Row
        BY ReportSlotsAssumption DEF TypeOK
      <3>2. CASE Known(t) /\ CanRefund(subs[Owner[t]], now)
        <4>1. Refunded(subs[Owner[t]]) \in Row
          BY <3>1, <3>2, <1>now, RefundedType
        <4>2. Month(now) \in Nat
          BY <1>now, MonthType
        <4> QED  BY <2>1, <3>1, <3>2, <4>1, <4>2 DEF TypeOK, Fail, Step, WorkStages
      <3>3. CASE ~(Known(t) /\ CanRefund(subs[Owner[t]], now))
        BY <2>1, <3>3 DEF TypeOK, Fail, Step, WorkStages
      <3> QED  BY <3>2, <3>3
    <2>2. CASE Start(t) \/ Reject(t) \/ Raise(t) \/ Ack(t)
      BY <2>2 DEF TypeOK, Start, Reject, Raise, Ack, Step, WorkStages
    <2>3. CASE Succeed(t) \/ RecordFailure(t)
      BY <2>3 DEF TypeOK, Succeed, RecordFailure, Record, Step, WorkStages
    <2> QED  BY <1>2, <2>1, <2>2, <2>3 DEF Worker
  <1>3. ASSUME NEW t \in Tasks, Fault(t) PROVE TypeOK'
    <2>1. CASE Break(t) \/ ChildLost(t)
      BY <2>1 DEF TypeOK, Break, ChildLost, RequestStages, WorkStages
    <2>2. CASE Redeliver(t)
      BY <2>2, ReportSlotsAssumption DEF TypeOK, Redeliver, WorkStages
    <2> QED  BY <1>3, <2>1, <2>2 DEF Fault
  <1>4. ASSUME NEW u \in Users, PlanChange(u) PROVE TypeOK'
    <2>1. subs[u] \in Row
      BY DEF TypeOK
    <2>2. ASSUME NEW r \in Row, Write(u, r), epoch' \in [Users -> Nat] PROVE TypeOK'
      BY <2>2, ReportSlotsAssumption DEF TypeOK, Write
    <2>3. ASSUME NEW p \in Paid, Buy(u, p) PROVE TypeOK'
      BY <2>2, <2>3, <1>now, ActivatedType DEF Buy, TypeOK
    <2>4. CASE Cancel(u)
      <3>1. Canceled(subs[u], now) \in Row
        BY <2>1, <1>now, CanceledType
      <3> QED  BY <2>2, <2>4, <3>1 DEF Cancel, TypeOK
    <2>5. ASSUME NEW p \in Paid, NEW s \in StripeLive, NEW start \in 0..now,
                 NEW end \in (now..MaxTime + 1) \cup {Never}, SyncStripe(u, p, s, start, end)
          PROVE  TypeOK'
      <3>1. start \in Nat /\ end \in Nat \cup {Never} /\ s \in Statuses
        BY <1>now, ReportSlotsAssumption DEF Statuses
      <3>2. Synced(subs[u], p, s, start, end) \in Row
        BY <2>1, <3>1, SyncedType
      <3> QED  BY <2>2, <2>5, <3>2 DEF SyncStripe, TypeOK
    <2>6. ASSUME NEW end \in now..MaxTime + 1, EndStripe(u, end) PROVE TypeOK'
      <3>1. Ended(subs[u], end) \in Row
        BY <2>1, <1>now, ReportSlotsAssumption DEF Ended, Row, Statuses
      <3> QED  BY <2>2, <2>6, <3>1 DEF EndStripe, TypeOK
    <2> QED  BY <1>4, <2>3, <2>4, <2>5, <2>6 DEF PlanChange
  <1>5. CASE Tick
    BY <1>5, ReportSlotsAssumption DEF TypeOK, Tick
  <1>6. CASE UNCHANGED vars
    BY <1>6 DEF TypeOK, vars
  <1> QED  BY <1>1, <1>2, <1>3, <1>4, <1>5, <1>6 DEF Next

\* Every reachable state has the declared types.
THEOREM TypeCorrect == Spec => []TypeOK
  BY TypeInit, TypeNext, PTL DEF Spec

---------------------------------------------------------------------------
(* No row is over the limit of its plan, when Stripe is not in use. *)

\* Whoever lowers the limit zeroes the counter, and consume looks first.
LEMMA WithinLimitNext ==
  ASSUME "sync" \notin PlanEvents
  PROVE  TypeOK /\ WithinLimit /\ [Next]_vars => WithinLimit'
  <1> SUFFICES ASSUME TypeOK, WithinLimit, [Next]_vars PROVE WithinLimit'
    OBVIOUS
  <1> USE DEF WithinLimit
  <1>now. now \in Nat
    BY ReportSlotsAssumption DEF TypeOK
  <1>0. \A u \in Users : subs[u] \in Row
    BY DEF TypeOK
  <1>1. ASSUME NEW t \in Tasks, Consume(t) PROVE WithinLimit'
    <2> DEFINE u == Owner[t]
    <2>1. u \in Users /\ subs[u] \in Row
      BY ReportSlotsAssumption, <1>0
    <2>2. Consumed(subs[u], now).used <= Consumed(subs[u], now).limit
      <3>1. Renewed(subs[u], now) \in Row
        BY <2>1, <1>now, RenewedType
      <3> QED  BY <3>1, <1>1 DEF Consume, CanConsume, Consumed, Row
    <2> QED  BY <1>1, <2>1, <2>2 DEF Consume, TypeOK
  <1>2. ASSUME NEW t \in Tasks, Fail(t) PROVE WithinLimit'
    <2>1. Owner[t] \in Users /\ subs[Owner[t]] \in Row
      BY ReportSlotsAssumption, <1>0
    <2>2. CASE Known(t) /\ CanRefund(subs[Owner[t]], now)
      <3>1. /\ Refunded(subs[Owner[t]]).used <= Refunded(subs[Owner[t]]).limit
            /\ subs' = [subs EXCEPT ![Owner[t]] = Refunded(@)]
        BY <1>2, <2>1, <2>2 DEF Fail, CanRefund, Refunded, Row
      <3> QED  BY <3>1, <2>1 DEF TypeOK
    <2>3. CASE ~(Known(t) /\ CanRefund(subs[Owner[t]], now))
      BY <1>2, <2>3 DEF Fail
    <2> QED  BY <2>2, <2>3
  <1>3. ASSUME NEW u \in Users, PlanChange(u) PROVE WithinLimit'
    <2>1. ASSUME NEW r, r = NoRow \/ r.used <= r.limit, Write(u, r) PROVE WithinLimit'
      BY <2>1 DEF Write, TypeOK
    <2>2. ASSUME NEW p \in Paid, Buy(u, p) PROVE WithinLimit'
      <3>1. Activated(p, now).used <= Activated(p, now).limit
        BY SubscriptionsAssumption DEF Activated, Plans
      <3> QED  BY <2>1, <2>2, <3>1 DEF Buy
    <2>3. CASE Cancel(u)
      <3>1. \/ Canceled(subs[u], now) = NoRow
            \/ Canceled(subs[u], now).used <= Canceled(subs[u], now).limit
        BY SubscriptionsAssumption DEF Canceled, Plans
      <3> QED  BY <2>1, <2>3, <3>1 DEF Cancel
    <2>4. ASSUME NEW end, EndStripe(u, end) PROVE WithinLimit'
      <3>1. Ended(subs[u], end).used <= Ended(subs[u], end).limit
        BY <2>4 DEF EndStripe, Ended
      <3> QED  BY <2>1, <2>4, <3>1 DEF EndStripe
    <2> QED  BY <1>3, <2>2, <2>3, <2>4 DEF PlanChange, SyncStripe
  <1>4. CASE UNCHANGED subs
    BY <1>4
  <1> QED
    BY <1>1, <1>2, <1>3, <1>4
    DEF Next, vars, Endpoint, Worker, Fault, Admit, TurnAway, Refuse, Enqueue,
        LogHistory, Start, Reject, Raise, Succeed, RecordFailure, Ack, Break, ChildLost,
        Redeliver, Tick

\* Without Stripe's events, used_reports is at most the row's own limit.
THEOREM UsageWithinLimit ==
  ASSUME "sync" \notin PlanEvents PROVE Spec => []WithinLimit
  <1>1. Init => WithinLimit
    BY DEF Init, WithinLimit
  <1> QED  BY <1>1, WithinLimitNext, TypeInit, TypeNext, PTL DEF Spec

---------------------------------------------------------------------------
(* A reserved slot is honoured while nobody touches the plan. *)

\* The row of a user who never paid or cancelled.
Plain(r) ==
  r = NoRow \/ /\ r.status = "active" /\ r.expires = Never /\ r.plan = Free
               /\ r.used <= r.limit

\* Inductive strengthening of ReservationHonoured.
PlainRows ==
  planChanges = 0 => \A u \in Users : Plain(subs[u])

\* The worker's check with a reserved slot passes on such a row.
LEMMA PlainPasses ==
  ASSUME NEW r \in Row, NEW t \in Nat, Plain(r) PROVE CheckLimit(r, t, TRUE)
  <1>1. CASE r = NoRow
    <2>1. ~Active(r, t)
      BY <1>1 DEF Active, NoRow
    <2>2. Snapshot(r, t).active /\ Snapshot(r, t).used = 0
          /\ Snapshot(r, t).limit = Limit[Free]
      BY <1>1, <2>1 DEF Snapshot
    <2> QED  BY <2>2, SubscriptionsAssumption DEF CheckLimit, Plans
  <1>2. CASE r # NoRow
    <2>1. Active(r, t) /\ r.used <= r.limit
      BY <1>2 DEF Plain, Active
    <2>2. /\ Snapshot(r, t).active
          /\ Snapshot(r, t).used \in {0, r.used}
          /\ Snapshot(r, t).limit = r.limit
      BY <2>1 DEF Snapshot
    <2> QED  BY <2>1, <2>2 DEF CheckLimit, Row
  <1> QED  BY <1>1, <1>2

\* Consuming leaves such a row.
LEMMA PlainConsumed ==
  ASSUME NEW r \in Row, NEW t \in Nat, NEW x \in BOOLEAN, Plain(r), CanConsume(r, t, x)
  PROVE  Plain(Consumed(r, t))
  <1> DEFINE n == Renewed(r, t)
  <1>1. n \in Row
    BY RenewedType
  <1>2. n.status = "active" /\ n.expires = Never /\ n.plan = Free
    <2>1. CASE ~Active(r, t)
      BY <2>1 DEF Renewed, FreshFree
    <2>2. CASE Active(r, t)
      <3>1. r.status = "active" /\ r.expires = Never /\ r.plan = Free
        BY <2>2 DEF Plain, Active, NoRow
      <3> QED  BY <2>2, <3>1 DEF Renewed, NewMonth
    <2> QED  BY <2>1, <2>2
  <1>3. n.used < n.limit
    BY DEF CanConsume
  <1>4. Consumed(r, t) = [n EXCEPT !.used = @ + 1]
    BY DEF Consumed
  <1> HIDE DEF n
  <1> QED  BY <1>1, <1>2, <1>3, <1>4 DEF Plain, Row

\* Every step keeps both.
LEMMA HonouredNext ==
  TypeOK /\ PlainRows /\ ReservationHonoured /\ [Next]_vars
    => PlainRows' /\ ReservationHonoured'
  <1> SUFFICES ASSUME TypeOK, PlainRows, ReservationHonoured, [Next]_vars
               PROVE  PlainRows' /\ ReservationHonoured'
    OBVIOUS
  <1> USE DEF PlainRows, ReservationHonoured
  <1>now. now \in Nat
    BY ReportSlotsAssumption DEF TypeOK
  <1>0. \A u \in Users : subs[u] \in Row
    BY DEF TypeOK
  <1>1. ASSUME NEW t \in Tasks, Consume(t) PROVE PlainRows' /\ ReservationHonoured'
    <2>1. Owner[t] \in Users /\ External[t] \in BOOLEAN
      BY ReportSlotsAssumption
    <2>2. planChanges = 0 => Plain(Consumed(subs[Owner[t]], now))
      BY <1>0, <1>1, <1>now, <2>1, PlainConsumed DEF Consume
    <2> QED  BY <1>1, <2>1, <2>2 DEF Consume, TypeOK
  <1>2. ASSUME NEW t \in Tasks, Fail(t) PROVE PlainRows' /\ ReservationHonoured'
    <2>1. Owner[t] \in Users /\ subs[Owner[t]] \in Row
      BY ReportSlotsAssumption, <1>0
    <2>2. ReservationHonoured'
      BY <1>2 DEF Fail, Step, TypeOK
    <2>3. CASE Known(t) /\ CanRefund(subs[Owner[t]], now)
      <3>1. planChanges = 0 => Plain(Refunded(subs[Owner[t]]))
        BY <2>1, <2>3 DEF Plain, Refunded, CanRefund, Row
      <3> QED  BY <1>2, <2>1, <2>2, <2>3, <3>1 DEF Fail, TypeOK
    <2>4. CASE ~(Known(t) /\ CanRefund(subs[Owner[t]], now))
      BY <1>2, <2>2, <2>4 DEF Fail
    <2> QED  BY <2>3, <2>4
  <1>3. ASSUME NEW t \in Tasks, Reject(t) PROVE PlainRows' /\ ReservationHonoured'
    <2>1. Owner[t] \in Users
      BY ReportSlotsAssumption
    <2>2. planChanges # 0
      BY <1>0, <1>3, <1>now, <2>1, PlainPasses DEF Reject, Passes
    <2> QED  BY <1>3, <2>2 DEF Reject
  <1>4. ASSUME NEW u \in Users, PlanChange(u) PROVE PlainRows' /\ ReservationHonoured'
    <2>1. planChanges' = planChanges + 1 /\ planChanges \in Nat
      BY <1>4, ReportSlotsAssumption
      DEF PlanChange, Buy, Cancel, SyncStripe, EndStripe, Write, TypeOK
    <2> QED  BY <2>1
  <1>5. ASSUME NEW t \in Tasks,
               Start(t) \/ Raise(t) \/ Succeed(t) \/ RecordFailure(t) \/ Ack(t)
                 \/ Enqueue(t) \/ ChildLost(t) \/ Redeliver(t)
        PROVE  PlainRows' /\ ReservationHonoured'
    BY <1>5 DEF Start, Raise, Succeed, RecordFailure, Ack, Enqueue, ChildLost, Redeliver,
                Step, TypeOK
  <1>6. CASE UNCHANGED <<subs, planChanges, work>>
    BY <1>6
  <1> QED
    BY <1>1, <1>2, <1>3, <1>4, <1>5, <1>6
    DEF Next, vars, Endpoint, Worker, Fault, Admit, TurnAway, Refuse, LogHistory,
        Break, Tick

\* As long as no payment event arrives, the worker rejects no queued report.
THEOREM ReservationsHonoured == Spec => []ReservationHonoured
  <1>1. Init => PlainRows /\ ReservationHonoured
    BY DEF Init, PlainRows, Plain, ReservationHonoured
  <1> QED  BY <1>1, HonouredNext, TypeInit, TypeNext, PTL DEF Spec

---------------------------------------------------------------------------
(* What used_reports counts. *)

\* A request that consumed nothing has no charge and no task.
Unstarted ==
  \A t \in Tasks :
    request[t] \in {"idle", "admitted", "refused"} => charge[t] = NoCharge /\ work[t] = "none"

\* A task is queued only after its slot was consumed.
LEMMA UnstartedNext == TypeOK /\ Unstarted /\ [Next]_vars => Unstarted'
  <1> SUFFICES ASSUME TypeOK, Unstarted, [Next]_vars PROVE Unstarted'
    OBVIOUS
  <1> USE DEF Unstarted
  <1>1. ASSUME NEW t \in Tasks, Endpoint(t) PROVE Unstarted'
    BY <1>1 DEF Endpoint, Admit, TurnAway, Consume, Refuse, Enqueue, LogHistory, TypeOK
  <1>2. ASSUME NEW t \in Tasks, Worker(t) PROVE Unstarted'
    BY <1>2 DEF Worker, Start, Reject, Raise, Succeed, Fail, RecordFailure, Ack, Step, TypeOK
  <1>3. ASSUME NEW t \in Tasks, Fault(t) PROVE Unstarted'
    BY <1>3 DEF Fault, Break, ChildLost, Redeliver, Unacked, TypeOK
  <1>4. CASE UNCHANGED <<request, charge, work>>
    BY <1>4
  <1> QED
    BY <1>1, <1>2, <1>3, <1>4
    DEF Next, vars, PlanChange, Buy, Cancel, SyncStripe, EndStripe, Write, Tick

\* The reports a user pays for.
PaidFor(u) == {t \in ChargedNow(u) : ~FailedKnown(t)}

\* Sets of tasks can be counted, and a larger set counts for more.
LEMMA CountMono ==
  ASSUME NEW S, NEW T \in SUBSET Tasks, S \subseteq T
  PROVE  /\ IsFiniteSet(S) /\ IsFiniteSet(T)
         /\ Cardinality(S) \in Nat /\ Cardinality(T) \in Nat
         /\ Cardinality(S) <= Cardinality(T)
  <1>1. IsFiniteSet(T)
    BY ReportSlotsAssumption, FS_Subset
  <1> QED  BY <1>1, FS_Subset, FS_CardinalityType

\* One task more counts for one more.
LEMMA CountAdd ==
  ASSUME NEW S \in SUBSET Tasks, NEW T \in SUBSET Tasks, NEW t \in Tasks,
         S \cup {t} \subseteq T, t \notin S
  PROVE  Cardinality(S) + 1 <= Cardinality(T)
  <1>1. IsFiniteSet(S) /\ Cardinality(S) \in Nat
    BY CountMono
  <1>2. Cardinality(S \cup {t}) = Cardinality(S) + 1
    BY <1>1, FS_AddElement
  <1>3. Cardinality(S \cup {t}) <= Cardinality(T)
    BY CountMono
  <1> QED  BY <1>1, <1>2, <1>3

\* One task less counts for at most one less.
LEMMA CountRemove ==
  ASSUME NEW S \in SUBSET Tasks, NEW T \in SUBSET Tasks, NEW t \in Tasks,
         S \ {t} \subseteq T
  PROVE  Cardinality(S) - 1 <= Cardinality(T)
  <1>1. IsFiniteSet(S) /\ Cardinality(S) \in Nat /\ Cardinality(T) \in Nat
    BY CountMono
  <1>2. Cardinality(S \ {t}) <= Cardinality(T)
    BY CountMono
  <1>3. Cardinality(S) - 1 <= Cardinality(S \ {t})
    <2>1. Cardinality(S \ {t}) = IF t \in S THEN Cardinality(S) - 1 ELSE Cardinality(S)
      BY <1>1, FS_RemoveElement
    <2> QED  BY <1>1, <2>1
  <1>4. Cardinality(S \ {t}) \in Nat
    BY CountMono
  <1> QED  BY <1>1, <1>2, <1>3, <1>4

\* The period of a row is not in the future: only Stripe names one itself.
PeriodReached == \A u \in Users : subs[u].period <= Month(now)

\* Every writer of a row but Stripe's stamps it with the current month.
LEMMA PeriodNext ==
  ASSUME "sync" \notin PlanEvents
  PROVE  TypeOK /\ PeriodReached /\ [Next]_vars => PeriodReached'
  <1> SUFFICES ASSUME TypeOK, PeriodReached, [Next]_vars PROVE PeriodReached'
    OBVIOUS
  <1> USE DEF PeriodReached
  <1>now. now \in Nat /\ Month(now) \in Nat
    BY ReportSlotsAssumption, MonthType DEF TypeOK
  <1>0. \A u \in Users : subs[u] \in Row
    BY DEF TypeOK
  <1>1. ASSUME NEW t \in Tasks, Consume(t) PROVE PeriodReached'
    <2>1. Owner[t] \in Users
      BY ReportSlotsAssumption
    <2>2. Consumed(subs[Owner[t]], now).period = Month(now)
      BY <2>1, <1>0, <1>now, ConsumedType
    <2> QED  BY <1>1, <1>now, <2>1, <2>2 DEF Consume, TypeOK
  <1>2. ASSUME NEW t \in Tasks, Fail(t) PROVE PeriodReached'
    <2>1. Owner[t] \in Users
      BY ReportSlotsAssumption
    <2>2. Refunded(subs[Owner[t]]).period = subs[Owner[t]].period
      BY <2>1, <1>0 DEF Refunded, Row
    <2> QED  BY <1>2, <2>1, <2>2 DEF Fail, TypeOK
  <1>3. ASSUME NEW u \in Users, PlanChange(u) PROVE PeriodReached'
    <2>1. ASSUME NEW r, r.period <= Month(now), Write(u, r) PROVE PeriodReached'
      BY <2>1 DEF Write, TypeOK
    <2>2. ASSUME NEW p \in Paid, Buy(u, p) PROVE PeriodReached'
      BY <2>1, <2>2, <1>now DEF Buy, Activated
    <2>3. CASE Cancel(u)
      <3>1. Canceled(subs[u], now).period <= Month(now)
        BY <1>now DEF Canceled, NoRow
      <3> QED  BY <2>1, <2>3, <3>1 DEF Cancel
    <2>4. ASSUME NEW end, EndStripe(u, end) PROVE PeriodReached'
      BY <2>1, <2>4 DEF EndStripe, Ended
    <2> QED  BY <1>3, <2>2, <2>3, <2>4 DEF PlanChange, SyncStripe
  <1>4. CASE Tick
    <2>1. \A u \in Users : subs[u].period \in Nat
      BY <1>0 DEF Row
    <2>2. Month(now) <= Month(now + 1) /\ Month(now + 1) \in Nat
      BY <1>now, MonthMonotone, MonthType
    <2> QED  BY <1>4, <1>now, <2>1, <2>2 DEF Tick
  <1>5. CASE UNCHANGED <<subs, now>>
    BY <1>5
  <1> QED
    BY <1>1, <1>2, <1>3, <1>4, <1>5
    DEF Next, vars, Endpoint, Worker, Fault, Admit, TurnAway, Refuse, Enqueue,
        LogHistory, Start, Reject, Raise, Succeed, RecordFailure, Ack, Break, ChildLost,
        Redeliver

\* The invariant for one user.
Pays(u) ==
  subs[u].period = Month(now) => subs[u].used <= Cardinality(PaidFor(u))

\* Nothing is lost when the row stays and no report leaves the set.
LEMMA PaysFrame ==
  ASSUME NEW u \in Users, TypeOK, Pays(u), subs'[u] = subs[u], now' = now,
         PaidFor(u) \subseteq PaidFor(u)'
  PROVE  Pays(u)'
  <1>1. PaidFor(u) \in SUBSET Tasks /\ PaidFor(u)' \in SUBSET Tasks
    BY DEF PaidFor, ChargedNow
  <1>2. /\ Cardinality(PaidFor(u)) \in Nat /\ Cardinality(PaidFor(u)') \in Nat
        /\ Cardinality(PaidFor(u)) <= Cardinality(PaidFor(u)')
    BY <1>1, CountMono
  <1>3. subs[u].used \in Nat
    BY DEF TypeOK, Row
  <1> QED  BY <1>2, <1>3 DEF Pays

\* A counter at zero charges for nothing.
LEMMA PaysZero ==
  ASSUME NEW u \in Users, subs'[u].used = 0
  PROVE  Pays(u)'
  <1>1. PaidFor(u)' \in SUBSET Tasks
    BY DEF PaidFor, ChargedNow
  <1>2. Cardinality(PaidFor(u)') \in Nat
    BY <1>1, CountMono
  <1> QED  BY <1>2 DEF Pays

\* consume_report_slot adds the report it charges for.
LEMMA PaysConsume ==
  ASSUME TypeOK, Unstarted, NEW t \in Tasks, Consume(t), NEW u \in Users, Pays(u)
  PROVE  Pays(u)'
  <1>1. Owner[t] \in Users /\ now \in Nat
    BY ReportSlotsAssumption DEF TypeOK
  <1>2. charge[t] = NoCharge /\ work[t] = "none"
    BY DEF Unstarted, Consume
  <1>3. CASE u # Owner[t]
    <2>1. subs'[u] = subs[u] /\ now' = now /\ epoch'[u] = epoch[u]
      BY <1>1, <1>3 DEF Consume, TypeOK
    <2>2. PaidFor(u) \subseteq PaidFor(u)'
      BY <1>3, <2>1 DEF PaidFor, ChargedNow, FailedKnown, Known, Consume, TypeOK
    <2> QED  BY <2>1, <2>2, PaysFrame
  <1>4. CASE u = Owner[t]
    <2> DEFINE e == epoch[u] + IF Resets(subs[u]) THEN 1 ELSE 0
    <2>1. /\ subs'[u] = Consumed(subs[u], now) /\ now' = now
          /\ epoch'[u] = e /\ charge'[t].epoch = e /\ work' = work
      BY <1>1, <1>4 DEF Consume, TypeOK
    <2>2. t \in PaidFor(u)'
      BY <1>2, <1>4, <2>1 DEF PaidFor, ChargedNow, FailedKnown
    <2>3. subs[u] \in Row /\ epoch[u] \in Nat
      BY DEF TypeOK
    <2>4. subs'[u].used = Renewed(subs[u], now).used + 1
      BY <1>1, <2>1, <2>3, ConsumedType
    <2>5. PaidFor(u) \in SUBSET Tasks /\ PaidFor(u)' \in SUBSET Tasks
      BY DEF PaidFor, ChargedNow
    <2>6. CASE Resets(subs[u])
      <3>1. Renewed(subs[u], now).used = 0
        BY <2>6 DEF Renewed, NewMonth, FreshFree, Resets
      <3>2. Cardinality({}) + 1 <= Cardinality(PaidFor(u)')
        BY <2>2, <2>5, CountAdd
      <3>3. Cardinality({}) = 0
        BY FS_EmptySet
      <3> QED  BY <2>4, <3>1, <3>2, <3>3 DEF Pays
    <2>7. CASE ~Resets(subs[u])
      <3>1. Renewed(subs[u], now) = subs[u] /\ subs[u].period = Month(now)
        BY <2>7 DEF Renewed, Resets
      <3>2. e = epoch[u]
        BY <2>7, <2>3
      <3>3. t \notin PaidFor(u)
        BY <1>2, <2>3 DEF PaidFor, ChargedNow, NoCharge
      <3>4. PaidFor(u) \cup {t} \subseteq PaidFor(u)'
        <4>1. ASSUME NEW s \in PaidFor(u) PROVE s \in PaidFor(u)'
          <5>1. s # t /\ s \in Tasks
            BY <3>3 DEF PaidFor, ChargedNow
          <5>2. charge'[s] = charge[s]
            BY <5>1 DEF Consume, TypeOK
          <5> QED  BY <2>1, <3>2, <5>1, <5>2
                   DEF PaidFor, ChargedNow, FailedKnown
        <4> QED  BY <2>2, <4>1
      <3>5. Cardinality(PaidFor(u)) + 1 <= Cardinality(PaidFor(u)')
        BY <2>5, <3>3, <3>4, CountAdd
      <3>6. subs[u].used <= Cardinality(PaidFor(u)) /\ subs[u].used \in Nat
        BY <3>1, <2>3 DEF Pays, Row
      <3>7. Cardinality(PaidFor(u)) \in Nat /\ Cardinality(PaidFor(u)') \in Nat
        BY <2>5, CountMono
      <3> QED  BY <2>4, <3>1, <3>5, <3>6, <3>7 DEF Pays
    <2> QED  BY <2>6, <2>7
  <1> QED  BY <1>3, <1>4

\* A failing task leaves the set, and takes one off the counter if it can.
LEMMA PaysFail ==
  ASSUME TypeOK, NEW t \in Tasks, Fail(t), NEW u \in Users, Pays(u)
  PROVE  Pays(u)'
  <1>1. Owner[t] \in Users /\ subs[u] \in Row /\ now \in Nat
    BY ReportSlotsAssumption DEF TypeOK
  <1>2. /\ now' = now /\ charge' = charge /\ epoch' = epoch
        /\ \A s \in Tasks : s # t => work'[s] = work[s]
    BY DEF Fail, Step, TypeOK
  <1>3. PaidFor(u) \ {t} \subseteq PaidFor(u)'
    BY <1>2 DEF PaidFor, ChargedNow, FailedKnown
  <1>4. CASE u # Owner[t] \/ ~Known(t)
    <2>1. PaidFor(u) \subseteq PaidFor(u)'
      BY <1>2, <1>3, <1>4 DEF PaidFor, ChargedNow, FailedKnown, Known
    <2>2. subs'[u] = subs[u]
      BY <1>1, <1>4 DEF Fail, TypeOK
    <2> QED  BY <1>2, <2>1, <2>2, PaysFrame
  <1>5. CASE u = Owner[t] /\ Known(t) /\ CanRefund(subs[u], now)
    <2>1. subs'[u] = Refunded(subs[u])
      BY <1>1, <1>5 DEF Fail, TypeOK
    <2>2. subs'[u].used = subs[u].used - 1
      BY <1>1, <1>5, <2>1, RefundedType
    <2>3. PaidFor(u) \in SUBSET Tasks /\ PaidFor(u)' \in SUBSET Tasks
      BY DEF PaidFor, ChargedNow
    <2>4. Cardinality(PaidFor(u)) - 1 <= Cardinality(PaidFor(u)')
      BY <1>3, <2>3, CountRemove
    <2>5. subs[u].used <= Cardinality(PaidFor(u)) /\ subs[u].used \in Nat
      BY <1>1, <1>5 DEF Pays, CanRefund, Row
    <2>6. Cardinality(PaidFor(u)) \in Nat /\ Cardinality(PaidFor(u)') \in Nat
      BY <2>3, CountMono
    <2> QED  BY <2>2, <2>4, <2>5, <2>6 DEF Pays
  <1>6. CASE u = Owner[t] /\ Known(t) /\ ~CanRefund(subs[u], now)
    <2>1. subs' = subs
      BY <1>6 DEF Fail
    <2>2. CASE subs[u].period # Month(now)
      BY <1>2, <2>1, <2>2 DEF Pays
    <2>3. CASE subs[u].period = Month(now)
      <3>1. subs[u].used = 0
        BY <1>1, <1>6, <2>3 DEF CanRefund, NoRow, Row
      <3> QED  BY <2>1, <3>1, PaysZero
    <2> QED  BY <2>2, <2>3
  <1> QED  BY <1>4, <1>5, <1>6

\* Every step keeps the invariant for every user.
LEMMA PaysNext ==
  ASSUME "sync" \notin PlanEvents, TypeOK, Unstarted, PeriodReached,
         OnlyPaysForUnfailed, [Next]_vars
  PROVE  OnlyPaysForUnfailed'
  <1> SUFFICES ASSUME NEW u \in Users PROVE Pays(u)'
    BY DEF OnlyPaysForUnfailed, Pays, PaidFor
  <1>0. Pays(u) /\ now \in Nat /\ subs[u] \in Row
    BY ReportSlotsAssumption DEF OnlyPaysForUnfailed, Pays, PaidFor, TypeOK
  <1>1. ASSUME NEW t \in Tasks, Consume(t) PROVE Pays(u)'
    BY <1>0, <1>1, PaysConsume
  <1>2. ASSUME NEW t \in Tasks, Fail(t) PROVE Pays(u)'
    BY <1>0, <1>2, PaysFail
  <1>3. ASSUME NEW v \in Users, PlanChange(v) PROVE Pays(u)'
    <2>1. /\ now' = now /\ charge' = charge /\ work' = work
          /\ u # v => subs'[u] = subs[u] /\ epoch'[u] = epoch[u]
      BY <1>3 DEF PlanChange, Buy, Cancel, SyncStripe, EndStripe, Write, TypeOK
    <2>2. CASE u # v
      <3>1. PaidFor(u) \subseteq PaidFor(u)'
        BY <2>1, <2>2 DEF PaidFor, ChargedNow, FailedKnown
      <3> QED  BY <1>0, <2>1, <2>2, <3>1, PaysFrame
    <2>3. ASSUME u = v, NEW p \in Paid, Buy(v, p) PROVE Pays(u)'
      <3>1. subs'[u].used = 0
        BY <2>3 DEF Buy, Write, Activated, TypeOK
      <3> QED  BY <3>1, PaysZero
    <2>4. CASE u = v /\ Cancel(v)
      <3>1. Canceled(subs[u], now).used = 0
        BY DEF Canceled, NoRow
      <3>2. subs'[u].used = 0
        BY <2>4, <3>1 DEF Cancel, Write, TypeOK
      <3> QED  BY <3>2, PaysZero
    <2>5. ASSUME u = v, NEW end, EndStripe(v, end) PROVE Pays(u)'
      <3>1. subs'[u].used = subs[u].used /\ subs'[u].period = subs[u].period
        BY <2>5 DEF EndStripe, Write, Ended, TypeOK
      <3>2. PaidFor(u)' = PaidFor(u)
        BY <2>1, <2>5 DEF PaidFor, ChargedNow, FailedKnown, EndStripe
      <3> QED  BY <1>0, <2>1, <3>1, <3>2 DEF Pays
    <2> QED  BY <1>3, <2>2, <2>3, <2>4, <2>5 DEF PlanChange, SyncStripe
  <1>4. CASE Tick
    <2>1. PaidFor(u)' = PaidFor(u) /\ subs' = subs /\ now' = now + 1
      BY <1>4 DEF Tick, PaidFor, ChargedNow, FailedKnown
    <2>2. /\ Month(now) <= Month(now + 1) /\ Month(now) \in Nat /\ Month(now + 1) \in Nat
          /\ subs[u].period <= Month(now) /\ subs[u].period \in Nat
      BY <1>0, MonthType, MonthMonotone DEF PeriodReached, Row
    <2> QED  BY <1>0, <2>1, <2>2 DEF Pays
  <1>5. ASSUME NEW t \in Tasks,
               Start(t) \/ Reject(t) \/ Raise(t) \/ Succeed(t) \/ RecordFailure(t) \/ Enqueue(t)
                 \/ ChildLost(t) \/ Redeliver(t)
        PROVE  Pays(u)'
    <2>1. UNCHANGED <<subs, now, charge, epoch>>
      BY <1>5 DEF Start, Reject, Raise, Succeed, RecordFailure, Enqueue, ChildLost, Redeliver
    <2>2. PaidFor(u) \subseteq PaidFor(u)'
      BY <1>5, <2>1 DEF Start, Reject, Raise, Succeed, RecordFailure, Enqueue, ChildLost,
         Redeliver, Step, PaidFor, ChargedNow, FailedKnown, TypeOK
    <2> QED  BY <1>0, <2>1, <2>2, PaysFrame
  <1>6. CASE UNCHANGED <<subs, now, charge, epoch, work>>
    <2>1. PaidFor(u)' = PaidFor(u)
      BY <1>6 DEF PaidFor, ChargedNow, FailedKnown
    <2> QED  BY <1>0, <1>6, <2>1, PaysFrame
  <1> QED
    BY <1>1, <1>2, <1>3, <1>4, <1>5, <1>6
    DEF Next, vars, Endpoint, Worker, Fault, Admit, TurnAway, Refuse, LogHistory,
        Ack, Break

\* Without Stripe's events, a user never pays for a report that failed, if the
\* worker could tell whose it was: whatever the requests, worker deaths,
\* payments and cancellations, and however they interleave.
THEOREM PaysOnlyForUnfailed ==
  ASSUME "sync" \notin PlanEvents PROVE Spec => []OnlyPaysForUnfailed
  <1> DEFINE IInv == TypeOK /\ Unstarted /\ PeriodReached /\ OnlyPaysForUnfailed
  <1>1. Init => IInv
    <2> SUFFICES ASSUME Init PROVE IInv
      OBVIOUS
    <2>1. now = 0 /\ \A u \in Users : subs[u] = NoRow
      BY DEF Init
    <2>2. Month(0) \in Nat
      BY MonthType
    <2>3. PeriodReached
      BY <2>1, <2>2 DEF PeriodReached, NoRow
    <2>4. OnlyPaysForUnfailed
      <3>1. ASSUME NEW u \in Users PROVE subs[u].used <= Cardinality(PaidFor(u))
        <4>1. PaidFor(u) \in SUBSET Tasks
          BY DEF PaidFor, ChargedNow
        <4>2. Cardinality(PaidFor(u)) \in Nat
          BY <4>1, CountMono
        <4> QED  BY <2>1, <4>2 DEF NoRow
      <3> QED  BY <3>1 DEF OnlyPaysForUnfailed, PaidFor
    <2>5. Unstarted
      BY DEF Init, Unstarted
    <2> QED  BY <2>3, <2>4, <2>5, TypeInit
  <1>2. IInv /\ [Next]_vars => IInv'
    BY TypeNext, UnstartedNext, PeriodNext, PaysNext
  <1>3. IInv => OnlyPaysForUnfailed
    OBVIOUS
  <1> QED  BY <1>1, <1>2, <1>3, PTL DEF Spec
---------------------------------------------------------------------------
(* The counter keeps its promise, with Stripe's events as well. *)

\* Nothing is charged to a counter that has not been started.
EpochReached == \A t \in Tasks : charge[t] = NoCharge \/ charge[t].epoch <= epoch[Owner[t]]

\* A report is charged before it is a task.
Counts ==
  \A t \in Tasks :
    /\ request[t] = "charged" => work[t] = "none"
    /\ request[t] \notin {"idle", "admitted", "refused"} \/ work[t] # "none"
         => charge[t] # NoCharge

\* Counters are only started, and charges name the current one.
LEMMA EpochNext == TypeOK /\ EpochReached /\ [Next]_vars => EpochReached'
  <1> SUFFICES ASSUME TypeOK, EpochReached, [Next]_vars, NEW s \in Tasks
               PROVE  charge'[s] = NoCharge \/ charge'[s].epoch <= epoch'[Owner[s]]
    BY DEF EpochReached
  <1>0. /\ Owner[s] \in Users /\ epoch[Owner[s]] \in Nat
        /\ charge[s] = NoCharge \/ charge[s].epoch \in Nat
        /\ charge[s] = NoCharge \/ charge[s].epoch <= epoch[Owner[s]]
    BY ReportSlotsAssumption DEF TypeOK, EpochReached
  <1>1. ASSUME NEW t \in Tasks, Consume(t)
        PROVE  charge'[s] = NoCharge \/ charge'[s].epoch <= epoch'[Owner[s]]
    <2> DEFINE u == Owner[t]
               e == epoch[u] + IF Resets(subs[u]) THEN 1 ELSE 0
    <2>1. u \in Users /\ epoch[u] \in Nat /\ e \in Nat /\ epoch[u] <= e
      BY ReportSlotsAssumption DEF TypeOK
    <2>2. epoch' = [epoch EXCEPT ![u] = e]
          /\ charge' = [charge EXCEPT ![t] = [epoch |-> e, month |-> Month(now)]]
      BY <1>1 DEF Consume
    <2>3. epoch'[Owner[s]] \in Nat /\ epoch[Owner[s]] <= epoch'[Owner[s]] /\ epoch'[u] = e
      BY <1>0, <2>1, <2>2 DEF TypeOK
    <2>4. CASE s = t
      <3>1. charge'[s].epoch = e
        BY <2>2, <2>4 DEF TypeOK
      <3> QED  BY <2>1, <2>3, <2>4, <3>1
    <2>5. CASE s # t
      <3>1. charge'[s] = charge[s]
        BY <2>2, <2>5 DEF TypeOK
      <3> QED  BY <1>0, <2>3, <3>1
    <2> QED  BY <2>4, <2>5
  <1>2. ASSUME NEW v \in Users, PlanChange(v)
        PROVE  charge'[s] = NoCharge \/ charge'[s].epoch <= epoch'[Owner[s]]
    <2>1. charge' = charge
      BY <1>2 DEF PlanChange, Buy, Cancel, SyncStripe, EndStripe, Write
    <2>2. epoch' = epoch \/ epoch' = [epoch EXCEPT ![v] = @ + 1]
      BY <1>2 DEF PlanChange, Buy, Cancel, SyncStripe, EndStripe
    <2>3. epoch'[Owner[s]] \in Nat /\ epoch[Owner[s]] <= epoch'[Owner[s]]
      BY <1>0, <2>2 DEF TypeOK
    <2> QED  BY <1>0, <2>1, <2>3
  <1>3. CASE UNCHANGED <<charge, epoch>>
    BY <1>0, <1>3
  <1> QED
    BY <1>1, <1>2, <1>3
    DEF Next, vars, Endpoint, Worker, Fault, Admit, TurnAway, Refuse, Enqueue,
        LogHistory, Start, Reject, Raise, Succeed, Fail, RecordFailure, Ack, Break, ChildLost,
        Redeliver, Tick

\* A charge is never taken back, and a task is sent only with one.
LEMMA CountsNext == TypeOK /\ Unstarted /\ Counts /\ [Next]_vars => Counts'
  <1> SUFFICES ASSUME TypeOK, Unstarted, Counts, [Next]_vars PROVE Counts'
    OBVIOUS
  <1> USE DEF Counts
  <1>1. ASSUME NEW t \in Tasks, Consume(t) PROVE Counts'
    <2> DEFINE e == epoch[Owner[t]] + IF Resets(subs[Owner[t]]) THEN 1 ELSE 0
    <2>0. Owner[t] \in Users
      BY ReportSlotsAssumption
    <2>1. e \in Nat /\ work[t] = "none"
      BY <1>1, <2>0 DEF Consume, TypeOK, Unstarted
    <2>2. [epoch |-> e, month |-> Month(now)] # NoCharge
      BY <2>1 DEF NoCharge
    <2>3. charge' = [charge EXCEPT ![t] = [epoch |-> e, month |-> Month(now)]]
      BY <1>1 DEF Consume
    <2>4. \A s \in Tasks : s # t => charge'[s] = charge[s] /\ request'[s] = request[s]
      BY <1>1 DEF Consume, TypeOK
    <2>5. charge'[t] # NoCharge /\ work' = work
      BY <1>1, <2>2, <2>3 DEF Consume, TypeOK
    <2> QED  BY <2>1, <2>4, <2>5
  <1>2. ASSUME NEW t \in Tasks, Endpoint(t), ~Consume(t) PROVE Counts'
    BY <1>2 DEF Endpoint, Admit, TurnAway, Refuse, Enqueue, LogHistory, TypeOK
  <1>3. ASSUME NEW t \in Tasks, Worker(t) PROVE Counts'
    BY <1>3 DEF Worker, Start, Reject, Raise, Succeed, Fail, RecordFailure, Ack, Step, TypeOK
  <1>4. ASSUME NEW t \in Tasks, Fault(t) PROVE Counts'
    BY <1>4 DEF Fault, Break, ChildLost, Redeliver, Unacked, TypeOK
  <1>5. CASE UNCHANGED <<request, charge, work>>
    BY <1>5
  <1> QED
    BY <1>1, <1>2, <1>3, <1>4, <1>5
    DEF Next, vars, PlanChange, Buy, Cancel, SyncStripe, EndStripe, Write, Tick

\* What the ledger counts stays when charges and counters do.
LEMMA OpenStays ==
  ASSUME UNCHANGED <<charge, epoch>>
  PROVE  /\ [u \in Users |-> ChargedNow(u)]' = [u \in Users |-> ChargedNow(u)]
         /\ {t \in Tasks : charge[t] # NoCharge}' = {t \in Tasks : charge[t] # NoCharge}
  BY DEF ChargedNow

\* consume_report_slot counts a report that was not counted, on top of the others
\* or, in a new month or after the plan ran out, as the first.
LEMMA ConsumeCharges ==
  ASSUME TypeOK, Unstarted, EpochReached, NEW t \in Tasks, Consume(t)
  PROVE  Ledger!Charge(t) \/ Ledger!ChargeAfresh(t)
  <1> DEFINE u == Owner[t]
             e == epoch[u] + IF Resets(subs[u]) THEN 1 ELSE 0
             Running == {s \in Tasks : work[s] = "running"}
             Ever == {s \in Tasks : charge[s] # NoCharge}
             Used == [v \in Users |-> subs[v].used]
             Open == [v \in Users |-> ChargedNow(v)]
  <1>0. u \in Users /\ subs[u] \in Row /\ now \in Nat /\ epoch[u] \in Nat /\ e \in Nat
    BY ReportSlotsAssumption DEF TypeOK
  <1>1. /\ subs' = [subs EXCEPT ![u] = Consumed(subs[u], now)]
        /\ epoch' = [epoch EXCEPT ![u] = e]
        /\ charge' = [charge EXCEPT ![t] = [epoch |-> e, month |-> Month(now)]]
        /\ work' = work /\ charge[t] = NoCharge
    BY DEF Consume, Unstarted
  <1>2. charge'[t].epoch = e /\ charge'[t] # NoCharge
        /\ \A s \in Tasks : s # t => charge'[s] = charge[s]
    BY <1>0, <1>1 DEF TypeOK, NoCharge
  <1>3. Running' = Running /\ t \notin Ever /\ Ever' = Ever \cup {t}
    BY <1>1, <1>2
  <1>4. \A v \in Users : v # u => ChargedNow(v)' = ChargedNow(v) /\ subs'[v].used = subs[v].used
    <2> SUFFICES ASSUME NEW v \in Users, v # u
                 PROVE  ChargedNow(v)' = ChargedNow(v) /\ subs'[v].used = subs[v].used
      OBVIOUS
    <2>1. epoch'[v] = epoch[v] /\ subs'[v] = subs[v]
      BY <1>1 DEF TypeOK
    <2> QED  BY <1>2, <2>1 DEF ChargedNow
  <1>5. subs'[u].used = Renewed(subs[u], now).used + 1 /\ epoch'[u] = e
    BY <1>0, <1>1, ConsumedType DEF TypeOK
  <1>6. CASE Resets(subs[u])
    <2>1. subs'[u].used = 1
      BY <1>5, <1>6 DEF Renewed, NewMonth, FreshFree, Resets
    <2>2. epoch'[u] = epoch[u] + 1
      BY <1>5, <1>6
    <2>3. \A s \in Tasks : Owner[s] = u => charge[s].epoch # epoch[u] + 1
      BY <1>0 DEF EpochReached, NoCharge, TypeOK
    <2>4. ChargedNow(u)' = {t}
      BY <1>2, <1>5, <2>2, <2>3 DEF ChargedNow
    <2>5. Used' = [Used EXCEPT ![u] = 1] /\ Open' = [Open EXCEPT ![u] = {t}]
      BY <1>0, <1>4, <2>1, <2>4
    <2> QED  BY <1>3, <2>5 DEF Ledger!ChargeAfresh
  <1>7. CASE ~Resets(subs[u])
    <2>1. subs'[u].used = subs[u].used + 1
      BY <1>5, <1>7 DEF Renewed, Resets
    <2>2. epoch'[u] = epoch[u]
      BY <1>0, <1>5, <1>7
    <2>3. ChargedNow(u)' = ChargedNow(u) \cup {t}
      BY <1>1, <1>2, <1>5, <2>2 DEF ChargedNow
    <2>4. Used' = [Used EXCEPT ![u] = @ + 1] /\ Open' = [Open EXCEPT ![u] = @ \cup {t}]
      BY <1>0, <1>4, <2>1, <2>3
    <2> QED  BY <1>3, <2>4 DEF Ledger!Charge
  <1> QED  BY <1>6, <1>7

\* An attempt begins with a task of a charged report.
LEMMA StartBegins ==
  ASSUME TypeOK, Counts, NEW t \in Tasks, Start(t)
  PROVE  Ledger!Begin(t)
  <1> DEFINE Running == {s \in Tasks : work[s] = "running"}
  <1>1. /\ work[t] = "queued" /\ work' = [work EXCEPT ![t] = "running"]
        /\ UNCHANGED <<subs, epoch, charge>>
    BY DEF Start, Step
  <1>2. t \notin Running /\ Running' = Running \cup {t}
    BY <1>1 DEF TypeOK
  <1>3. charge[t] # NoCharge
    BY <1>1 DEF Counts
  <1> QED  BY <1>1, <1>2, <1>3, OpenStays DEF Ledger!Begin

\* It ends with success, with failure and perhaps a slot given back, or with the
\* death of the process it runs in.
LEMMA AttemptEnds ==
  ASSUME TypeOK, NEW t \in Tasks, work[t] = "running",
         Succeed(t) \/ Fail(t) \/ ChildLost(t) \/ Redeliver(t)
  PROVE  Ledger!End(t)
  <1> DEFINE Running == {s \in Tasks : work[s] = "running"}
             Used == [v \in Users |-> subs[v].used]
  <1>0. Owner[t] \in Users /\ subs[Owner[t]] \in Row /\ now \in Nat
    BY ReportSlotsAssumption DEF TypeOK
  <1>1. /\ work' = [work EXCEPT ![t] = work'[t]] /\ work'[t] # "running"
        /\ UNCHANGED <<epoch, charge>>
    BY DEF Succeed, Fail, ChildLost, Redeliver, Step, TypeOK
  <1>2. t \in Running /\ Running' = Running \ {t}
    BY <1>1 DEF TypeOK
  <1>3. \/ subs' = subs
        \/ /\ CanRefund(subs[Owner[t]], now)
           /\ subs' = [subs EXCEPT ![Owner[t]] = Refunded(subs[Owner[t]])]
    BY DEF Succeed, Fail, ChildLost, Redeliver
  <1>4. ASSUME CanRefund(subs[Owner[t]], now),
               subs' = [subs EXCEPT ![Owner[t]] = Refunded(subs[Owner[t]])]
        PROVE  Used[Owner[t]] > 0 /\ Used' = [Used EXCEPT ![Owner[t]] = @ - 1]
    <2>1. subs[Owner[t]].used > 0 /\ Refunded(subs[Owner[t]]).used = subs[Owner[t]].used - 1
      BY <1>0, <1>4, RefundedType DEF CanRefund
    <2> QED  BY <1>0, <1>4, <2>1 DEF TypeOK
  <1> QED  BY <1>1, <1>2, <1>3, <1>4, OpenStays DEF Ledger!End

\* Payments and cancellations zero a counter, or leave it to Stripe's events.
LEMMA PlanResets ==
  ASSUME TypeOK, EpochReached, NEW u \in Users, PlanChange(u)
  PROVE  Ledger!Reset(u) \/ UNCHANGED Ledger!vars
  <1> DEFINE Used == [v \in Users |-> subs[v].used]
             Open == [v \in Users |-> ChargedNow(v)]
             Running == {s \in Tasks : work[s] = "running"}
             Ever == {s \in Tasks : charge[s] # NoCharge}
  <1>1. charge' = charge /\ work' = work
    BY DEF PlanChange, Buy, Cancel, SyncStripe, EndStripe, Write
  <1>2. Ever' = Ever /\ Running' = Running
    BY <1>1
  <1>3. ASSUME NEW r, Write(u, r), r.used = 0, epoch' = [epoch EXCEPT ![u] = @ + 1]
        PROVE  Ledger!Reset(u)
    <2>1. epoch'[u] = epoch[u] + 1 /\ epoch[u] \in Nat
      BY <1>3 DEF TypeOK
    <2>2. \A s \in Tasks : Owner[s] = u => charge[s].epoch # epoch[u] + 1
      BY <2>1 DEF EpochReached, NoCharge, TypeOK
    <2>3. ChargedNow(u)' = {}
      BY <1>1, <2>1, <2>2 DEF ChargedNow
    <2>4. \A v \in Users : v # u => ChargedNow(v)' = ChargedNow(v)
      BY <1>1, <1>3 DEF ChargedNow, TypeOK
    <2>5. Open' = [Open EXCEPT ![u] = {}]
      BY <2>3, <2>4
    <2>6. Used' = [Used EXCEPT ![u] = 0]
      BY <1>3 DEF Write, TypeOK
    <2> QED  BY <1>2, <2>5, <2>6 DEF Ledger!Reset
  <1>4. ASSUME NEW r, Write(u, r), r.used = subs[u].used, epoch' = epoch
        PROVE  UNCHANGED Ledger!vars
    <2>1. Used' = Used
      BY <1>4 DEF Write, TypeOK
    <2> QED  BY <1>1, <1>2, <1>4, <2>1, OpenStays DEF Ledger!vars
  <1>5. ASSUME NEW p \in Paid, Buy(u, p) PROVE Ledger!Reset(u)
    BY <1>3, <1>5 DEF Buy, Activated
  <1>6. CASE Cancel(u)
    <2>1. Canceled(subs[u], now).used = 0
      BY DEF Canceled, NoRow
    <2> QED  BY <1>3, <1>6, <2>1 DEF Cancel
  <1>7. ASSUME NEW p, NEW s, NEW start, NEW end, SyncStripe(u, p, s, start, end)
        PROVE  UNCHANGED Ledger!vars
    BY <1>4, <1>7 DEF SyncStripe, Synced
  <1>8. ASSUME NEW end, EndStripe(u, end) PROVE UNCHANGED Ledger!vars
    BY <1>4, <1>8 DEF EndStripe, Ended
  <1> QED  BY <1>5, <1>6, <1>7, <1>8 DEF PlanChange

\* Every step of the program is one of the ledger's, or none.
LEMMA LedgerNext ==
  TypeOK /\ Unstarted /\ EpochReached /\ Counts /\ [Next]_vars => [Ledger!Next]_Ledger!vars
  <1> SUFFICES ASSUME TypeOK, Unstarted, EpochReached, Counts, [Next]_vars
               PROVE  [Ledger!Next]_Ledger!vars
    OBVIOUS
  <1> DEFINE Running == {s \in Tasks : work[s] = "running"}
  <1>1. ASSUME UNCHANGED <<subs, epoch, charge>>, Running' = Running
        PROVE  UNCHANGED Ledger!vars
    BY <1>1, OpenStays DEF Ledger!vars
  <1>2. CASE UNCHANGED <<subs, epoch, charge, work>>
    BY <1>1, <1>2
  <1>3. ASSUME NEW t \in Tasks, Consume(t) PROVE Ledger!Next
    BY <1>3, ConsumeCharges DEF Ledger!Next
  <1>4. ASSUME NEW t \in Tasks, Start(t) PROVE Ledger!Next
    BY <1>4, StartBegins DEF Ledger!Next
  <1>5. ASSUME NEW t \in Tasks, Succeed(t) \/ Fail(t) PROVE Ledger!Next
    <2>1. work[t] = "running"
      BY <1>5 DEF Succeed, Fail, Step
    <2> QED  BY <1>5, <2>1, AttemptEnds DEF Ledger!Next
  <1>6. ASSUME NEW t \in Tasks, ChildLost(t) \/ Redeliver(t) PROVE [Ledger!Next]_Ledger!vars
    <2>1. CASE work[t] = "running"
      BY <1>6, <2>1, AttemptEnds DEF Ledger!Next
    <2>2. CASE work[t] # "running"
      <3>1. UNCHANGED <<subs, epoch, charge>> /\ Running' = Running
        BY <1>6, <2>2 DEF ChildLost, Redeliver, TypeOK
      <3> QED  BY <1>1, <3>1
    <2> QED  BY <2>1, <2>2
  <1>7. ASSUME NEW t \in Tasks, Enqueue(t) \/ Reject(t) \/ Raise(t) \/ RecordFailure(t)
        PROVE  UNCHANGED Ledger!vars
    <2>1. work'[t] # "running" /\ \A s \in Tasks : s # t => work'[s] = work[s]
      BY <1>7 DEF Enqueue, Reject, Raise, RecordFailure, Step, TypeOK
    <2>2. CASE work[t] = "running"
      BY <1>7, <2>2 DEF Enqueue, Reject, Raise, RecordFailure, Step, Counts
    <2>3. CASE work[t] # "running"
      <3>1. UNCHANGED <<subs, epoch, charge>> /\ Running' = Running
        BY <1>7, <2>1, <2>3 DEF Enqueue, Reject, Raise, RecordFailure
      <3> QED  BY <1>1, <3>1
    <2> QED  BY <2>2, <2>3
  <1>8. ASSUME NEW u \in Users, PlanChange(u) PROVE [Ledger!Next]_Ledger!vars
    BY <1>8, PlanResets DEF Ledger!Next
  <1> QED
    BY <1>2, <1>3, <1>4, <1>5, <1>6, <1>7, <1>8
    DEF Next, vars, Endpoint, Worker, Fault, Admit, TurnAway, Refuse, LogHistory, Ack,
        Break, Tick

\* For any users, tasks, plans, limits and bounds, the endpoints, the worker and its
\* deaths, payments, cancellations, Stripe's events and the calendar implement the
\* ledger.
THEOREM LedgerKeptAlways == Spec => LedgerKept
  <1> DEFINE IInv == TypeOK /\ Unstarted /\ EpochReached /\ Counts
  <1>1. Init => IInv /\ Ledger!Init
    <2> SUFFICES ASSUME Init PROVE IInv /\ Ledger!Init
      OBVIOUS
    <2>1. Unstarted /\ EpochReached /\ Counts
      BY DEF Init, Unstarted, EpochReached, Counts
    <2>2. \A u \in Users : subs[u].used = 0 /\ ChargedNow(u) = {}
      BY DEF Init, NoRow, ChargedNow, NoCharge
    <2>3. {t \in Tasks : charge[t] # NoCharge} = {} /\ {t \in Tasks : work[t] = "running"} = {}
      BY DEF Init
    <2> QED  BY <2>1, <2>2, <2>3, TypeInit DEF Ledger!Init
  <1>2. IInv /\ [Next]_vars => IInv' /\ [Ledger!Next]_Ledger!vars
    BY TypeNext, UnstartedNext, EpochNext, CountsNext, LedgerNext
  <1> QED  BY <1>1, <1>2, PTL DEF Spec, LedgerKept, Ledger!Spec

\* The ledger counts as this module does.
LEMMA LedgerCounts == \A S : Ledger!Cardinality(S) = Cardinality(S)
  BY DEF Ledger!Cardinality, Cardinality

\* In a ledger only counted reports are open, and they cover the counter.
THEOREM LedgerCovers == Ledger!Spec => []Ledger!Covered
  <1> DEFINE used == [u \in Users |-> subs[u].used]
             open == [u \in Users |-> ChargedNow(u)]
             ever == {t \in Tasks : charge[t] # NoCharge}
             IInv == \A u \in Users : /\ used[u] \in Nat /\ open[u] \in SUBSET ever
                                      /\ used[u] <= Cardinality(open[u])
  <1>1. \A S \in SUBSET ever : Cardinality(S) \in Nat
    BY CountMono
  <1>2. Ledger!Init => IInv
    <2> SUFFICES ASSUME Ledger!Init PROVE IInv
      OBVIOUS
    <2>1. \A u \in Users : used[u] = 0 /\ open[u] = {}
      BY DEF Ledger!Init
    <2> QED  BY <2>1, FS_EmptySet
  <1>3. IInv /\ [Ledger!Next]_Ledger!vars => IInv'
    <2> SUFFICES ASSUME IInv, [Ledger!Next]_Ledger!vars,
                        NEW u \in Users
                 PROVE  used'[u] \in Nat /\ open'[u] \in SUBSET ever'
                          /\ used'[u] <= Cardinality(open'[u])
      OBVIOUS
    <2>0. /\ used[u] \in Nat /\ open[u] \in SUBSET ever /\ used[u] <= Cardinality(open[u])
          /\ Cardinality(open[u]) \in Nat /\ ever \subseteq Tasks /\ IsFiniteSet(open[u])
      BY <1>1, CountMono
    <2> HIDE DEF used, open, ever
    <2>1. ASSUME NEW t \in Tasks, Ledger!Charge(t)
          PROVE  used'[u] \in Nat /\ open'[u] \in SUBSET ever'
                   /\ used'[u] <= Cardinality(open'[u])
      <3>1. /\ t \notin ever /\ ever' = ever \cup {t}
            /\ used' = [used EXCEPT ![Owner[t]] = @ + 1]
            /\ open' = [open EXCEPT ![Owner[t]] = @ \cup {t}]
        BY <2>1 DEF Ledger!Charge, used, open, ever
      <3>2. CASE u = Owner[t]
        <4>1. used'[u] = used[u] + 1 /\ open'[u] = open[u] \cup {t}
          BY <3>1, <3>2 DEF used, open
        <4>2. t \notin open[u]
          BY <2>0, <3>1
        <4>3. Cardinality(open[u] \cup {t}) = Cardinality(open[u]) + 1
          BY <2>0, <4>2, FS_AddElement
        <4>4. Cardinality(open'[u]) = Cardinality(open[u]) + 1
          BY <4>1, <4>3
        <4>5. open'[u] \in SUBSET ever'
          BY <2>0, <3>1, <4>1
        <4> QED  BY <2>0, <4>1, <4>4, <4>5
      <3>3. CASE u # Owner[t]
        <4>1. used'[u] = used[u] /\ open'[u] = open[u]
          BY <3>1, <3>3 DEF used, open
        <4> QED  BY <2>0, <3>1, <4>1
      <3> QED  BY <3>2, <3>3
    <2>2. ASSUME NEW t \in Tasks, Ledger!ChargeAfresh(t)
          PROVE  used'[u] \in Nat /\ open'[u] \in SUBSET ever'
                   /\ used'[u] <= Cardinality(open'[u])
      <3>1. /\ t \notin ever /\ ever' = ever \cup {t}
            /\ used' = [used EXCEPT ![Owner[t]] = 1]
            /\ open' = [open EXCEPT ![Owner[t]] = {t}]
        BY <2>2 DEF Ledger!ChargeAfresh, used, open, ever
      <3>2. CASE u = Owner[t]
        <4>1. used'[u] = 1 /\ open'[u] = {t}
          BY <3>1, <3>2 DEF used, open
        <4>2. Cardinality({t}) = 1
          BY FS_Singleton
        <4> QED  BY <2>0, <3>1, <4>1, <4>2
      <3>3. CASE u # Owner[t]
        <4>1. used'[u] = used[u] /\ open'[u] = open[u]
          BY <3>1, <3>3 DEF used, open
        <4> QED  BY <2>0, <3>1, <4>1
      <3> QED  BY <3>2, <3>3
    <2>3. ASSUME NEW t \in Tasks, Ledger!End(t)
          PROVE  used'[u] \in Nat /\ open'[u] \in SUBSET ever'
                   /\ used'[u] <= Cardinality(open'[u])
      <3>1. /\ open' = open /\ ever' = ever
            /\ \/ used' = used
               \/ used[Owner[t]] > 0 /\ used' = [used EXCEPT ![Owner[t]] = @ - 1]
        BY <2>3 DEF Ledger!End, used, open, ever
      <3>2. used'[u] \in Nat /\ used'[u] <= used[u]
        BY <2>0, <3>1 DEF used
      <3> QED  BY <2>0, <3>1, <3>2
    <2>4. ASSUME NEW v \in Users, Ledger!Reset(v)
          PROVE  used'[u] \in Nat /\ open'[u] \in SUBSET ever'
                   /\ used'[u] <= Cardinality(open'[u])
      <3>1. /\ ever' = ever
            /\ used' = [used EXCEPT ![v] = 0] /\ open' = [open EXCEPT ![v] = {}]
        BY <2>4 DEF Ledger!Reset, used, open, ever
      <3>2. CASE u = v
        <4>1. used'[u] = 0 /\ open'[u] = {}
          BY <3>1, <3>2 DEF used, open
        <4> QED  BY <4>1, FS_EmptySet
      <3>3. CASE u # v
        <4>1. used'[u] = used[u] /\ open'[u] = open[u]
          BY <3>1, <3>3 DEF used, open
        <4> QED  BY <2>0, <3>1, <4>1
      <3> QED  BY <3>2, <3>3
    <2>5. ASSUME NEW t \in Tasks, Ledger!Begin(t)
          PROVE  used' = used /\ open' = open /\ ever' = ever
      BY <2>5 DEF Ledger!Begin, used, open, ever
    <2>6. CASE UNCHANGED Ledger!vars
      <3>1. used' = used /\ open' = open /\ ever' = ever
        BY <2>6 DEF Ledger!vars, used, open, ever
      <3> QED  BY <2>0, <3>1
    <2> QED  BY <2>0, <2>1, <2>2, <2>3, <2>4, <2>5, <2>6 DEF Ledger!Next
  <1>4. IInv => Ledger!Covered
    BY LedgerCounts DEF Ledger!Covered
  <1> QED  BY <1>2, <1>3, <1>4, PTL DEF Ledger!Spec

\* So, whatever mixture of payments, cancellations and Stripe events there is, and
\* whatever dates Stripe names, used_reports is at most the number of reports charged
\* since somebody last zeroed it.
THEOREM NeverOverchargedAlways == Spec => []NeverOvercharged
  <1>1. Ledger!Covered => NeverOvercharged
    BY LedgerCounts DEF Ledger!Covered, NeverOvercharged
  <1> QED  BY <1>1, LedgerKeptAlways, LedgerCovers, PTL DEF LedgerKept

---------------------------------------------------------------------------
(* No report is free. *)

\* No report of u may have given a slot back twice, or to a later counter.
Clean(u) ==
  \A t \in Tasks : Owner[t] = u => redelivered[t] = 0 /\ credited[t] \subseteq {charge[t]}

Uncredited(u) == {t \in ChargedNow(u) : credited[t] = {}}

\* The invariant for one user.
Counted(u) == Clean(u) => Cardinality(Uncredited(u)) <= subs[u].used

\* A charged report is not queued yet; a first attempt that has not failed has given
\* nothing back.
FirstAttempt(t) ==
  /\ request[t] = "charged" => work[t] = "none"
  /\ redelivered[t] = 0 /\ work[t] \in {"none", "queued", "running"} => credited[t] = {}

Unfailed == \A t \in Tasks : FirstAttempt(t)

\* A slot is given back with a failure only, and only a redelivery undoes one.
LEMMA UnfailedNext == TypeOK /\ Unstarted /\ Unfailed /\ [Next]_vars => Unfailed'
  <1> SUFFICES ASSUME TypeOK, Unstarted, Unfailed, [Next]_vars, NEW s \in Tasks
               PROVE  FirstAttempt(s)'
    BY DEF Unfailed
  <1>0. redelivered[s] \in Nat /\ FirstAttempt(s)
    BY ReportSlotsAssumption DEF TypeOK, Unfailed
  <1> USE DEF FirstAttempt
  <1>1. CASE UNCHANGED <<work, request, redelivered, credited>>
    BY <1>0, <1>1
  <1>2. ASSUME NEW t \in Tasks, Enqueue(t) PROVE FirstAttempt(s)'
    BY <1>0, <1>2 DEF Enqueue, TypeOK, RequestStages, WorkStages
  <1>3. ASSUME NEW t \in Tasks,
               Start(t) \/ Reject(t) \/ Raise(t) \/ Succeed(t) \/ RecordFailure(t) \/ ChildLost(t)
        PROVE  FirstAttempt(s)'
    BY <1>0, <1>3 DEF Start, Reject, Raise, Succeed, RecordFailure, ChildLost, Unacked, Step, TypeOK
  <1>4. ASSUME NEW t \in Tasks, Fail(t) PROVE FirstAttempt(s)'
    BY <1>0, <1>4 DEF Fail, Step, TypeOK
  <1>5. ASSUME NEW t \in Tasks, Redeliver(t) PROVE FirstAttempt(s)'
    BY <1>0, <1>5, ReportSlotsAssumption DEF Redeliver, Unacked, TypeOK
  <1>6. ASSUME NEW t \in Tasks, Consume(t) PROVE FirstAttempt(s)'
    <2>1. work[t] = "none"
      BY <1>6 DEF Unstarted, Consume
    <2> QED  BY <1>0, <1>6, <2>1 DEF Consume, TypeOK
  <1>7. ASSUME NEW t \in Tasks,
               Admit(t) \/ TurnAway(t) \/ Refuse(t) \/ LogHistory(t) \/ Break(t)
        PROVE  FirstAttempt(s)'
    BY <1>0, <1>7 DEF Admit, TurnAway, Refuse, LogHistory, Break, TypeOK
  <1> QED
    BY <1>1, <1>2, <1>3, <1>4, <1>5, <1>6, <1>7
    DEF Next, vars, Endpoint, Worker, Fault, Ack, Tick, PlanChange, Buy, Cancel,
        SyncStripe, EndStripe, Write

\* Nothing is lost when counter and charges stay and no slot is given back.
LEMMA CountedFrame ==
  ASSUME NEW u \in Users, Counted(u), UNCHANGED <<charge, credited>>,
         epoch'[u] = epoch[u], subs'[u].used = subs[u].used, Clean(u)' => Clean(u)
  PROVE  Counted(u)'
  <1>1. Uncredited(u)' = Uncredited(u)
    BY DEF Uncredited, ChargedNow
  <1> QED  BY <1>1 DEF Counted

\* A counter that is started anew has nothing charged to it.
LEMMA CountedZero ==
  ASSUME TypeOK, EpochReached, NEW u \in Users, charge' = charge,
         epoch'[u] = epoch[u] + 1, subs'[u].used = 0
  PROVE  Counted(u)'
  <1>1. \A t \in Tasks : Owner[t] = u => charge[t].epoch # epoch[u] + 1
    <2> SUFFICES ASSUME NEW t \in Tasks, Owner[t] = u PROVE charge[t].epoch # epoch[u] + 1
      OBVIOUS
    <2>1. epoch[u] \in Nat /\ (charge[t] = NoCharge \/ charge[t].epoch <= epoch[u])
          /\ (charge[t] = NoCharge \/ charge[t].epoch \in Nat)
      BY DEF TypeOK, EpochReached
    <2> QED  BY <2>1 DEF NoCharge
  <1>2. Uncredited(u)' = {}
    BY <1>1 DEF Uncredited, ChargedNow
  <1> QED  BY <1>2, FS_EmptySet DEF Counted

\* consume_report_slot counts the report it charges.
LEMMA CountedConsume ==
  ASSUME TypeOK, Unstarted, EpochReached, Unfailed, NEW t \in Tasks, Consume(t),
         NEW u \in Users, Counted(u), Clean(u)'
  PROVE  Cardinality(Uncredited(u)') <= subs'[u].used
  <1> DEFINE e == epoch[u] + IF Resets(subs[u]) THEN 1 ELSE 0
  <1>1. Owner[t] \in Users /\ now \in Nat /\ subs[u] \in Row /\ epoch[u] \in Nat
    BY ReportSlotsAssumption DEF TypeOK
  <1>2. /\ charge[t] = NoCharge /\ work[t] = "none"
        /\ credited' = credited /\ redelivered' = redelivered
    BY DEF Unstarted, Consume
  <1>3. \A s \in Tasks : s # t => charge'[s] = charge[s]
    BY DEF Consume, TypeOK
  <1>4. Owner[t] = u => credited[t] = {}
    BY <1>2 DEF Clean, Unfailed, FirstAttempt
  <1>5. Clean(u)
    BY <1>2, <1>3, <1>4 DEF Clean
  <1>6. Uncredited(u) \in SUBSET Tasks /\ Uncredited(u)' \in SUBSET Tasks
    BY DEF Uncredited, ChargedNow
  <1>7. /\ Cardinality(Uncredited(u)) \in Nat /\ Cardinality(Uncredited(u)') \in Nat
        /\ Cardinality(Uncredited(u)) <= subs[u].used /\ subs[u].used \in Nat
    BY <1>1, <1>5, <1>6, CountMono DEF Counted, Row
  <1>8. CASE u # Owner[t]
    <2>1. subs'[u] = subs[u] /\ epoch'[u] = epoch[u]
      BY <1>1, <1>8 DEF Consume, TypeOK
    <2>2. Uncredited(u)' = Uncredited(u)
      BY <1>2, <1>3, <1>8, <2>1 DEF Uncredited, ChargedNow
    <2> QED  BY <1>7, <2>1, <2>2
  <1>9. CASE u = Owner[t]
    <2>1. subs'[u] = Consumed(subs[u], now) /\ epoch'[u] = e
      BY <1>1, <1>9 DEF Consume, TypeOK
    <2>2. subs'[u].used = Renewed(subs[u], now).used + 1
      BY <1>1, <2>1, ConsumedType
    <2>3. CASE Resets(subs[u])
      <3>1. Renewed(subs[u], now).used = 0
        BY <2>3 DEF Renewed, NewMonth, FreshFree, Resets
      <3>2. epoch'[u] = epoch[u] + 1
        BY <2>1, <2>3
      <3>3. \A s \in Tasks : Owner[s] = u => charge[s].epoch # epoch[u] + 1
        BY <1>1 DEF EpochReached, NoCharge, TypeOK
      <3>4. Uncredited(u)' \ {t} \subseteq {}
        BY <1>3, <3>2, <3>3 DEF Uncredited, ChargedNow
      <3>5. Cardinality(Uncredited(u)') - 1 <= Cardinality({})
        BY <1>6, <3>4, CountRemove
      <3> QED  BY <1>7, <2>2, <3>1, <3>5, FS_EmptySet
    <2>4. CASE ~Resets(subs[u])
      <3>1. Renewed(subs[u], now) = subs[u]
        BY <2>4 DEF Renewed, Resets
      <3>2. epoch'[u] = epoch[u]
        BY <1>1, <2>1, <2>4
      <3>3. Uncredited(u)' \ {t} \subseteq Uncredited(u)
        BY <1>2, <1>3, <3>2 DEF Uncredited, ChargedNow
      <3>4. Cardinality(Uncredited(u)') - 1 <= Cardinality(Uncredited(u))
        BY <1>6, <3>3, CountRemove
      <3> QED  BY <1>7, <2>2, <3>1, <3>4
    <2> QED  BY <2>3, <2>4
  <1> QED  BY <1>8, <1>9

\* refund_report_slot takes a report off the counter that was on it.
LEMMA CountedFail ==
  ASSUME TypeOK, Unfailed, NEW t \in Tasks, Fail(t), NEW u \in Users, Counted(u), Clean(u)'
  PROVE  Cardinality(Uncredited(u)') <= subs'[u].used
  <1>1. Owner[t] \in Users /\ now \in Nat /\ subs[u] \in Row /\ epoch[u] \in Nat
    BY ReportSlotsAssumption DEF TypeOK
  <1>2. charge' = charge /\ epoch' = epoch /\ redelivered' = redelivered
    BY DEF Fail
  <1>3. /\ \A s \in Tasks : s # t => credited'[s] = credited[s]
        /\ credited[t] \subseteq credited'[t]
    BY DEF Fail, TypeOK
  <1>4. Clean(u)
    BY <1>2, <1>3 DEF Clean
  <1>5. Uncredited(u) \in SUBSET Tasks /\ Uncredited(u)' \in SUBSET Tasks
    BY DEF Uncredited, ChargedNow
  <1>6. /\ Cardinality(Uncredited(u)) \in Nat /\ Cardinality(Uncredited(u)') \in Nat
        /\ Cardinality(Uncredited(u)) <= subs[u].used /\ subs[u].used \in Nat
    BY <1>1, <1>4, <1>5, CountMono DEF Counted, Row
  <1>7. CASE u = Owner[t] /\ Known(t) /\ CanRefund(subs[u], now)
    <2> DEFINE x == [epoch |-> epoch[u], month |-> Month(now)]
    <2>1. subs'[u] = Refunded(subs[u]) /\ credited'[t] = credited[t] \cup {x}
      BY <1>1, <1>7 DEF Fail, TypeOK
    <2>2. subs'[u].used = subs[u].used - 1
      BY <1>1, <1>7, <2>1, RefundedType DEF Row
    <2>3. charge[t] = x
      BY <1>2, <1>7, <2>1 DEF Clean
    <2>4. credited[t] = {}
      BY <1>4, <1>7 DEF Clean, Unfailed, FirstAttempt, Fail, Step
    <2>5. t \in Uncredited(u) /\ t \notin Uncredited(u)'
      BY <1>7, <2>1, <2>3, <2>4 DEF Uncredited, ChargedNow
    <2>6. Uncredited(u)' \cup {t} \subseteq Uncredited(u)
      BY <1>2, <1>3, <2>5 DEF Uncredited, ChargedNow
    <2>7. Cardinality(Uncredited(u)') + 1 <= Cardinality(Uncredited(u))
      BY <1>5, <2>5, <2>6, CountAdd
    <2> QED  BY <1>6, <2>2, <2>7
  <1>8. CASE ~(u = Owner[t] /\ Known(t) /\ CanRefund(subs[u], now))
    <2>1. subs'[u] = subs[u]
      BY <1>1, <1>8 DEF Fail, TypeOK
    <2>2. Uncredited(u)' \subseteq Uncredited(u)
      BY <1>2, <1>3 DEF Uncredited, ChargedNow
    <2>3. Cardinality(Uncredited(u)') <= Cardinality(Uncredited(u))
      BY <1>5, <2>2, CountMono
    <2> QED  BY <1>6, <2>1, <2>3
  <1> QED  BY <1>7, <1>8

\* Whoever zeroes the counter outside consume starts a new one; the others keep both.
LEMMA CountedPlanChange ==
  ASSUME TypeOK, EpochReached, NEW v \in Users, PlanChange(v), NEW u \in Users, Counted(u)
  PROVE  Counted(u)'
  <1>1. UNCHANGED <<charge, credited, redelivered>>
    BY DEF PlanChange, Buy, Cancel, SyncStripe, EndStripe, Write
  <1>2. Clean(u)' => Clean(u)
    BY <1>1 DEF Clean
  <1>3. CASE u # v
    <2>1. subs'[u] = subs[u] /\ epoch'[u] = epoch[u]
      BY <1>3 DEF PlanChange, Buy, Cancel, SyncStripe, EndStripe, Write, TypeOK
    <2> QED  BY <1>1, <1>2, <2>1, CountedFrame
  <1>4. ASSUME u = v, NEW p \in Paid, Buy(v, p) PROVE Counted(u)'
    <2>1. subs'[u].used = 0 /\ epoch'[u] = epoch[u] + 1
      BY <1>4 DEF Buy, Write, Activated, TypeOK
    <2> QED  BY <1>1, <2>1, CountedZero
  <1>5. CASE u = v /\ Cancel(v)
    <2>1. Canceled(subs[u], now).used = 0
      BY DEF Canceled, NoRow
    <2>2. subs'[u].used = 0 /\ epoch'[u] = epoch[u] + 1
      BY <1>5, <2>1 DEF Cancel, Write, TypeOK
    <2> QED  BY <1>1, <2>2, CountedZero
  <1>6. ASSUME u = v, NEW p, NEW s, NEW start, NEW end, SyncStripe(v, p, s, start, end)
        PROVE  Counted(u)'
    <2>1. subs'[u].used = subs[u].used /\ epoch' = epoch
      BY <1>6 DEF SyncStripe, Write, Synced, TypeOK
    <2> QED  BY <1>1, <1>2, <2>1, CountedFrame
  <1>7. ASSUME u = v, NEW end, EndStripe(v, end) PROVE Counted(u)'
    <2>1. subs'[u].used = subs[u].used /\ epoch' = epoch
      BY <1>7 DEF EndStripe, Write, Ended, TypeOK
    <2> QED  BY <1>1, <1>2, <2>1, CountedFrame
  <1> QED  BY <1>3, <1>4, <1>5, <1>6, <1>7 DEF PlanChange

\* Every step keeps the invariant for every user.
LEMMA CountedNext ==
  ASSUME TypeOK, Unstarted, EpochReached, Unfailed, NoFreeReport, [Next]_vars
  PROVE  NoFreeReport'
  <1> SUFFICES ASSUME NEW u \in Users PROVE Counted(u)'
    BY DEF NoFreeReport, Counted, Clean, Uncredited
  <1>0. Counted(u)
    BY DEF NoFreeReport, Counted, Clean, Uncredited
  <1>1. ASSUME NEW t \in Tasks, Consume(t) PROVE Counted(u)'
    BY <1>0, <1>1, CountedConsume DEF Counted
  <1>2. ASSUME NEW t \in Tasks, Fail(t) PROVE Counted(u)'
    BY <1>0, <1>2, CountedFail DEF Counted
  <1>3. ASSUME NEW v \in Users, PlanChange(v) PROVE Counted(u)'
    BY <1>0, <1>3, CountedPlanChange
  <1>4. ASSUME NEW t \in Tasks, Redeliver(t) PROVE Counted(u)'
    <2>1. Clean(u)' => Clean(u)
      BY <1>4, ReportSlotsAssumption DEF Clean, Redeliver, TypeOK
    <2> QED  BY <1>0, <1>4, <2>1, CountedFrame DEF Redeliver
  <1>5. CASE UNCHANGED <<subs, charge, epoch, credited, redelivered>>
    <2>1. Clean(u)' => Clean(u)
      BY <1>5 DEF Clean
    <2> QED  BY <1>0, <1>5, <2>1, CountedFrame
  <1> QED
    BY <1>1, <1>2, <1>3, <1>4, <1>5
    DEF Next, vars, Endpoint, Worker, Fault, Admit, TurnAway, Refuse, Enqueue,
        LogHistory, Start, Reject, Raise, Succeed, RecordFailure, Ack, Break, ChildLost, Tick

\* No report is free: what was charged and not given back is counted, under every
\* mixture of payments, cancellations and Stripe events, for any number of reports.
THEOREM NoFreeReportAlways == Spec => []NoFreeReport
  <1> DEFINE IInv == TypeOK /\ Unstarted /\ EpochReached /\ Unfailed /\ NoFreeReport
  <1>1. Init => IInv
    <2> SUFFICES ASSUME Init PROVE IInv
      OBVIOUS
    <2>1. Unstarted /\ EpochReached /\ Unfailed
      BY DEF Init, Unstarted, EpochReached, Unfailed, FirstAttempt
    <2>2. ASSUME NEW u \in Users PROVE Cardinality(Uncredited(u)) <= subs[u].used
      <3>1. Uncredited(u) = {}
        BY DEF Init, Uncredited, ChargedNow, NoCharge
      <3>2. subs[u].used = 0
        BY DEF Init, NoRow
      <3> QED  BY <3>1, <3>2, FS_EmptySet
    <2>3. NoFreeReport
      BY <2>2 DEF NoFreeReport, Uncredited
    <2> QED  BY <2>1, <2>3, TypeInit
  <1>2. IInv /\ [Next]_vars => IInv'
    BY TypeNext, UnstartedNext, EpochNext, UnfailedNext, CountedNext
  <1>3. IInv => NoFreeReport
    OBVIOUS
  <1> QED  BY <1>1, <1>2, <1>3, PTL DEF Spec

---------------------------------------------------------------------------
(* A failed report gives its slot back. *)

\* As long as a report's counter is not started anew, the row's period is the month
\* the report was charged in.
DatedTask(t) ==
  charge[t] # NoCharge =>
    /\ charge[t].month <= Month(now)
    /\ charge[t].epoch = epoch[Owner[t]] => subs[Owner[t]].period = charge[t].month

Dated == \A t \in Tasks : DatedTask(t)

\* A row keeps its period, or its counter is started anew: only Stripe's events write
\* the one without the other.
LEMMA PeriodOrEpoch ==
  ASSUME "sync" \notin PlanEvents, TypeOK, [Next]_vars, NEW u \in Users
  PROVE  \/ epoch'[u] = epoch[u] + 1
         \/ epoch'[u] = epoch[u] /\ subs'[u].period = subs[u].period
  <1>0. now \in Nat /\ subs[u] \in Row
    BY ReportSlotsAssumption DEF TypeOK
  <1>1. ASSUME NEW t \in Tasks, Consume(t), u = Owner[t]
        PROVE  \/ epoch'[u] = epoch[u] + 1
               \/ epoch'[u] = epoch[u] /\ subs'[u].period = subs[u].period
    <2>1. /\ epoch'[u] = epoch[u] + IF Resets(subs[u]) THEN 1 ELSE 0
          /\ subs'[u] = Consumed(subs[u], now)
      BY <1>1 DEF Consume, TypeOK
    <2>2. Consumed(subs[u], now).period = Month(now)
      BY <1>0, ConsumedType
    <2>3. epoch[u] \in Nat
      BY DEF TypeOK
    <2> QED  BY <2>1, <2>2, <2>3 DEF Resets
  <1>2. ASSUME NEW t \in Tasks, Consume(t), u # Owner[t]
        PROVE  epoch'[u] = epoch[u] /\ subs'[u] = subs[u]
    BY <1>2 DEF Consume, TypeOK
  <1>3. ASSUME NEW t \in Tasks, Fail(t)
        PROVE  epoch'[u] = epoch[u] /\ subs'[u].period = subs[u].period
    BY <1>0, <1>3 DEF Fail, Refunded, Row, TypeOK
  <1>4. ASSUME NEW v \in Users, PlanChange(v)
        PROVE  \/ epoch'[u] = epoch[u] + 1
               \/ epoch'[u] = epoch[u] /\ subs'[u].period = subs[u].period
    BY <1>4 DEF PlanChange, Buy, Cancel, SyncStripe, EndStripe, Write, Ended, TypeOK
  <1>5. CASE UNCHANGED <<subs, epoch>>
    BY <1>5
  <1> QED
    BY <1>1, <1>2, <1>3, <1>4, <1>5
    DEF Next, vars, Endpoint, Worker, Fault, Admit, TurnAway, Refuse, Enqueue,
        LogHistory, Start, Reject, Raise, Succeed, RecordFailure, Ack, Break, ChildLost,
        Redeliver, Tick

\* The calendar does not run backwards.
LEMMA MonthNext == TypeOK /\ [Next]_vars => Month(now) <= Month(now')
  <1> SUFFICES ASSUME TypeOK, [Next]_vars PROVE Month(now) <= Month(now')
    OBVIOUS
  <1>1. now \in Nat /\ Month(now) \in Nat
    BY ReportSlotsAssumption, MonthType DEF TypeOK
  <1>2. now' = now \/ now' = now + 1
    BY DEF Next, vars, Endpoint, Worker, Fault, Admit, TurnAway, Consume, Refuse,
           Enqueue, LogHistory, Start, Reject, Raise, Succeed, Fail, RecordFailure, Ack, Break,
           ChildLost, Redeliver, Tick, PlanChange, Buy, Cancel, SyncStripe, EndStripe,
           Write
  <1> QED  BY <1>1, <1>2, MonthMonotone

\* A report is charged once, in the month in which its counter's period is.
LEMMA DatedNext ==
  ASSUME "sync" \notin PlanEvents
  PROVE  TypeOK /\ EpochReached /\ Dated /\ [Next]_vars => Dated'
  <1> SUFFICES ASSUME TypeOK, EpochReached, Dated, [Next]_vars, NEW s \in Tasks
               PROVE  DatedTask(s)'
    BY DEF Dated
  <1>0. /\ Owner[s] \in Users /\ epoch[Owner[s]] \in Nat /\ DatedTask(s)
        /\ charge[s] = NoCharge
             \/ /\ charge[s].epoch \in Nat /\ charge[s].month \in Nat
                /\ charge[s].epoch <= epoch[Owner[s]]
    BY ReportSlotsAssumption DEF TypeOK, EpochReached, Dated
  <1>m. Month(now) <= Month(now') /\ Month(now) \in Nat /\ Month(now') \in Nat
    <2>1. now \in Nat /\ now' \in Nat
      BY TypeNext, ReportSlotsAssumption DEF TypeOK
    <2> QED  BY <2>1, MonthNext, MonthType
  <1>1. CASE charge'[s] = charge[s]
    BY <1>0, <1>m, <1>1, PeriodOrEpoch DEF DatedTask
  <1>2. CASE Consume(s)
    <2>1. now \in Nat /\ subs[Owner[s]] \in Row
      BY <1>0, ReportSlotsAssumption DEF TypeOK
    <2>2. charge'[s].month = Month(now) /\ now' = now
          /\ subs'[Owner[s]] = Consumed(subs[Owner[s]], now)
      BY <1>0, <1>2 DEF Consume, TypeOK
    <2>3. Consumed(subs[Owner[s]], now).period = Month(now)
      BY <2>1, ConsumedType
    <2> QED  BY <1>m, <2>2, <2>3 DEF DatedTask
  <1>3. charge'[s] = charge[s] \/ Consume(s)
    <2>1. ASSUME NEW t \in Tasks, Consume(t), t # s PROVE charge'[s] = charge[s]
      BY <2>1 DEF Consume, TypeOK
    <2> QED
      BY <2>1
      DEF Next, vars, Endpoint, Worker, Fault, Admit, TurnAway, Refuse, Enqueue,
          LogHistory, Start, Reject, Raise, Succeed, Fail, RecordFailure, Ack, Break, ChildLost,
          Redeliver, Tick, PlanChange, Buy, Cancel, SyncStripe, EndStripe, Write
  <1> QED  BY <1>1, <1>2, <1>3

\* Is the counter a report was charged to still the one that runs, this month ?
Current(t) == charge[t] = [epoch |-> epoch[Owner[t]], month |-> Month(now)]

Repaid(t) ==
  Known(t) /\ Clean(Owner[t]) /\ work[t] \in {"failing", "failed"} /\ Current(t)
    => credited[t] # {}

\* What the run SlotNotRefunded refutes is true of the reports whose owner the worker
\* can resolve: one that failed has given its slot back, or its counter was started
\* anew or is another month's, or some report of the user came back or gave a slot to
\* a later counter.
RefundedWhenKnown == \A t \in Tasks : Repaid(t)

\* A counter that was started anew, or a month that is over, does not come back.
LEMMA CurrentBefore ==
  ASSUME TypeOK, EpochReached, Dated, [Next]_vars, "sync" \notin PlanEvents,
         NEW t \in Tasks, charge'[t] = charge[t], Current(t)'
  PROVE  Current(t)
  <1>1. Owner[t] \in Users
    BY ReportSlotsAssumption
  <1>2. charge[t] = [epoch |-> epoch'[Owner[t]], month |-> Month(now')]
    BY DEF Current, Month
  <1>3. Month(now) \in Nat /\ Month(now') \in Nat /\ epoch'[Owner[t]] \in Nat
    <2>1. now \in Nat /\ now' \in Nat /\ TypeOK'
      BY TypeNext, ReportSlotsAssumption DEF TypeOK
    <2> QED  BY <1>1, <2>1, MonthType DEF TypeOK
  <1>4. charge[t] # NoCharge
    BY <1>2, <1>3 DEF NoCharge
  <1>5. charge[t].epoch <= epoch[Owner[t]] /\ charge[t].month <= Month(now)
    BY <1>4 DEF EpochReached, Dated, DatedTask
  <1>6. epoch[Owner[t]] <= epoch'[Owner[t]] /\ epoch[Owner[t]] \in Nat
    BY <1>1, PeriodOrEpoch DEF TypeOK
  <1>7. Month(now) <= Month(now')
    BY MonthNext
  <1> QED  BY <1>2, <1>3, <1>5, <1>6, <1>7 DEF Current

\* Nor does a user whose reports came back get rid of that.
LEMMA CleanBefore ==
  ASSUME TypeOK, Unstarted, Unfailed, [Next]_vars, NEW u \in Users, Clean(u)'
  PROVE  Clean(u)
  <1> SUFFICES ASSUME NEW s \in Tasks, Owner[s] = u
               PROVE  redelivered[s] = 0 /\ credited[s] \subseteq {charge[s]}
    BY DEF Clean
  <1>1. /\ redelivered[s] \in Nat /\ redelivered'[s] = 0
        /\ credited'[s] \subseteq {charge'[s]}
    BY ReportSlotsAssumption DEF TypeOK, Clean
  <1>2. ASSUME NEW t \in Tasks, Consume(t)
        PROVE  redelivered[s] = 0 /\ credited[s] \subseteq {charge[s]}
    <2>1. redelivered' = redelivered /\ credited' = credited
      BY <1>2 DEF Consume
    <2>2. CASE s = t
      <3>1. work[s] = "none"
        BY <1>2, <2>2 DEF Consume, Unstarted
      <3> QED  BY <1>1, <2>1, <3>1 DEF Unfailed, FirstAttempt
    <2>3. CASE s # t
      <3>1. charge'[s] = charge[s]
        BY <1>2, <2>3 DEF Consume, TypeOK
      <3> QED  BY <1>1, <2>1, <3>1
    <2> QED  BY <2>2, <2>3
  <1>3. ASSUME NEW t \in Tasks, Fail(t)
        PROVE  redelivered[s] = 0 /\ credited[s] \subseteq {charge[s]}
    <2>1. credited[s] \subseteq credited'[s] /\ UNCHANGED <<redelivered, charge>>
      BY <1>3 DEF Fail, TypeOK
    <2> QED  BY <1>1, <2>1
  <1>4. ASSUME NEW t \in Tasks, Redeliver(t)
        PROVE  redelivered[s] = 0 /\ credited[s] \subseteq {charge[s]}
    BY <1>1, <1>4, ReportSlotsAssumption DEF Redeliver, TypeOK
  <1>5. CASE UNCHANGED <<charge, credited, redelivered>>
    BY <1>1, <1>5
  <1> QED
    BY <1>2, <1>3, <1>4, <1>5
    DEF Next, vars, Endpoint, Worker, Fault, Admit, TurnAway, Refuse, Enqueue,
        LogHistory, Start, Reject, Raise, Succeed, RecordFailure, Ack, Break, ChildLost, Tick,
        PlanChange, Buy, Cancel, SyncStripe, EndStripe, Write

\* The failing task finds a counter of this month that counts at least itself.
LEMMA FailRepays ==
  ASSUME TypeOK, NoFreeReport, Dated, NEW t \in Tasks, Fail(t),
         Known(t), Clean(Owner[t]), Current(t)
  PROVE  credited'[t] # {}
  <1> DEFINE u == Owner[t]
  <1>1. u \in Users /\ epoch[u] \in Nat /\ subs[u] \in Row
    BY ReportSlotsAssumption DEF TypeOK
  <1>2. CASE credited[t] # {}
    BY <1>2 DEF Fail, TypeOK
  <1>3. CASE credited[t] = {}
    <2>1. charge[t].epoch = epoch[u] /\ charge[t].month = Month(now) /\ charge[t] # NoCharge
      BY <1>1 DEF Current, NoCharge
    <2>2. subs[u].period = Month(now)
      BY <2>1 DEF Dated, DatedTask
    <2>3. t \in Uncredited(u) /\ Uncredited(u) \in SUBSET Tasks
      BY <1>3, <2>1 DEF Uncredited, ChargedNow
    <2>4. Cardinality({}) + 1 <= Cardinality(Uncredited(u))
      BY <2>3, CountAdd
    <2>5. Cardinality(Uncredited(u)) <= subs[u].used /\ Cardinality(Uncredited(u)) \in Nat
      BY <1>1, <2>3, CountMono DEF NoFreeReport, Clean, Uncredited
    <2>6. subs[u].used > 0
      BY <1>1, <2>4, <2>5, FS_EmptySet DEF Row
    <2>7. CanRefund(subs[u], now)
      BY <2>2, <2>6 DEF CanRefund, NoRow
    <2>8. credited' = [credited EXCEPT
                         ![t] = @ \cup {[epoch |-> epoch[u], month |-> Month(now)]}]
      BY <2>7 DEF Fail
    <2> QED  BY <2>8 DEF TypeOK
  <1> QED  BY <1>2, <1>3

\* What a task gave back it does not take again, and no other task ends for it.
LEMMA RepaidNext ==
  ASSUME TypeOK, Unstarted, EpochReached, Unfailed, NoFreeReport, Dated,
         RefundedWhenKnown, [Next]_vars, "sync" \notin PlanEvents
  PROVE  RefundedWhenKnown'
  <1> SUFFICES ASSUME NEW t \in Tasks, Known(t), Clean(Owner[t])', Current(t)',
                      work'[t] \in {"failing", "failed"}
               PROVE  credited'[t] # {}
    BY DEF RefundedWhenKnown, Repaid, Known
  <1>1. Owner[t] \in Users /\ Clean(Owner[t])
    BY ReportSlotsAssumption, CleanBefore
  <1>2. charge'[t] = charge[t]
    <2>1. ASSUME NEW s \in Tasks, Consume(s) PROVE charge'[t] = charge[t]
      <3>1. work' = work /\ work[s] = "none"
        BY <2>1 DEF Consume, Unstarted
      <3> QED  BY <2>1, <3>1 DEF Consume, TypeOK
    <2> QED
      BY <2>1
      DEF Next, vars, Endpoint, Worker, Fault, Admit, TurnAway, Refuse, Enqueue,
          LogHistory, Start, Reject, Raise, Succeed, Fail, RecordFailure, Ack, Break, ChildLost,
          Redeliver, Tick, PlanChange, Buy, Cancel, SyncStripe, EndStripe, Write
  <1>3. Current(t)
    BY <1>2, CurrentBefore
  <1>4. CASE Fail(t)
    BY <1>1, <1>3, <1>4, FailRepays
  <1>5. CASE ~Fail(t)
    <2>1. work[t] \in {"failing", "failed"}
      BY <1>5
      DEF Next, vars, Endpoint, Worker, Fault, Admit, TurnAway, Consume, Refuse, Enqueue,
          LogHistory, Start, Reject, Raise, Succeed, Fail, RecordFailure, Ack, Break, ChildLost,
          Redeliver, Tick, PlanChange, Buy, Cancel, SyncStripe, EndStripe, Write, Step,
          TypeOK
    <2>2. credited[t] \subseteq credited'[t]
      BY <1>5
      DEF Next, vars, Endpoint, Worker, Fault, Admit, TurnAway, Consume, Refuse, Enqueue,
          LogHistory, Start, Reject, Raise, Succeed, Fail, RecordFailure, Ack, Break, ChildLost,
          Redeliver, Tick, PlanChange, Buy, Cancel, SyncStripe, EndStripe, Write, TypeOK
    <2> QED  BY <1>1, <1>3, <2>1, <2>2 DEF RefundedWhenKnown, Repaid
  <1> QED  BY <1>4, <1>5

\* Every report that failed gives its slot back when the worker knows whose it is, for
\* any number of reports, payments, cancellations and dead workers: the failure that
\* keeps a slot is the one of a key the worker does not find (usage_tracker.py,
\* tasks.py).
THEOREM RefundedWhenKnownAlways ==
  ASSUME "sync" \notin PlanEvents
  PROVE  Spec => []RefundedWhenKnown
  <1> DEFINE IInv == /\ TypeOK /\ Unstarted /\ EpochReached /\ Unfailed
                     /\ Dated /\ RefundedWhenKnown
  <1>1. Init => IInv
    BY TypeInit
    DEF Init, Unstarted, EpochReached, Unfailed, FirstAttempt, Dated, DatedTask,
        RefundedWhenKnown, Repaid
  <1>2. IInv /\ NoFreeReport /\ [Next]_vars => IInv'
    BY TypeNext, UnstartedNext, EpochNext, UnfailedNext, DatedNext, RepaidNext
  <1>3. IInv => RefundedWhenKnown
    OBVIOUS
  <1> QED  BY <1>1, <1>2, <1>3, NoFreeReportAlways, PTL DEF Spec

---------------------------------------------------------------------------
(* The history of reports. *)

\* A row of the history never tells the opposite of what happened to the report, and
\* tells an end only to the user's own rows: it may say PENDING for ever.
HistoryTrue ==
  \A t \in Tasks :
    /\ work[t] = "succeeded" => history[t] # "FAILURE"
    /\ work[t] = "failed" => history[t] # "SUCCESS"
    /\ history[t] \in {"SUCCESS", "FAILURE"} => Known(t)
    /\ Channel[t] = "schedule" => history[t] = "none" /\ request[t] # "queued"

\* Under repeated attempts, the row that is inserted late and workers that die, the
\* last attempt has the last word (tasks.py, db/user_data.py).
THEOREM HistoryTrueAlways == Spec => []HistoryTrue
  <1>1. Init => HistoryTrue
    BY DEF Init, HistoryTrue
  <1>2. TypeOK /\ HistoryTrue /\ [Next]_vars => HistoryTrue'
    <2> SUFFICES ASSUME TypeOK, HistoryTrue, [Next]_vars PROVE HistoryTrue'
      OBVIOUS
    <2> USE DEF HistoryTrue, Known
    <2>1. ASSUME NEW t \in Tasks, Succeed(t) \/ RecordFailure(t) PROVE HistoryTrue'
      BY <2>1 DEF Succeed, RecordFailure, Record, Step, TypeOK
    <2>2. ASSUME NEW t \in Tasks, LogHistory(t) PROVE HistoryTrue'
      BY <2>2 DEF LogHistory, TypeOK
    <2>3. ASSUME NEW t \in Tasks,
                 Start(t) \/ Reject(t) \/ Raise(t) \/ Fail(t) \/ ChildLost(t) \/ Redeliver(t)
          PROVE  HistoryTrue'
      BY <2>3 DEF Start, Reject, Raise, Fail, ChildLost, Redeliver, Step, TypeOK
    <2>4. ASSUME NEW t \in Tasks, Enqueue(t) PROVE HistoryTrue'
      BY <2>4 DEF Enqueue, TypeOK
    <2>5. ASSUME NEW t \in Tasks,
                 Admit(t) \/ TurnAway(t) \/ Consume(t) \/ Refuse(t) \/ Break(t)
          PROVE  HistoryTrue'
      BY <2>5 DEF Admit, TurnAway, Consume, Refuse, Break, TypeOK
    <2>6. CASE UNCHANGED <<history, work, request>>
      BY <2>6
    <2> QED
      BY <2>1, <2>2, <2>3, <2>4, <2>5, <2>6
      DEF Next, vars, Endpoint, Worker, Fault, Ack, Tick, PlanChange, Buy, Cancel,
          SyncStripe, EndStripe, Write
  <1> QED  BY <1>1, <1>2, TypeCorrect, PTL DEF Spec
===========================================================================
