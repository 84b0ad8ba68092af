-------------------------- MODULE PaymentEscrowProofs --------------------------
(***************************************************************************)
(* Proofs about PaymentEscrow for every set of ids, parties, amounts, time *)
(* to live, window and cooldown: its type invariant, conservation of each  *)
(* deposit, the spacing of the emergency drains, the rules of the payouts, *)
(* the backing of what is owed by the token balances, and the refinement   *)
(* of EscrowPromise.                                                       *)
(***************************************************************************)
EXTENDS PaymentEscrow, SumTheorems, TLAPS

\* The drains that happened lie between ledger 1 and lastDrain, which is not
\* in the future; with it DrainsSpaced is inductive.
DrainHistory ==
    /\ lastDrain <= seq
    /\ \A d \in drains : d # 0 /\ d <= lastDrain

\* The inductive invariant.
IInv ==
    /\ TypeOK
    /\ Conservation
    /\ RefundedIffExpired
    /\ DrainHistory
    /\ DrainsSpaced

MoneyInv == Conservation /\ RefundedIffExpired
DrainInv == DrainHistory /\ DrainsSpaced

--------------------------------------------------------------------------------

\* saturating_add stays a natural number.
LEMMA SaturatingAddType ==
    ASSUME NEW a \in Nat, NEW b \in Nat
    PROVE  SaturatingAdd(a, b) \in Nat
BY ContractAssumption DEF SaturatingAdd

\* saturating_add keeps the order of its first argument.
LEMMA SaturatingAddMonotone ==
    ASSUME NEW a \in Nat, NEW b \in Nat, NEW c \in Nat, a <= b
    PROVE  SaturatingAdd(a, c) <= SaturatingAdd(b, c)
BY ContractAssumption DEF SaturatingAdd

\* A payment that leaves the escrow is still a payment.
LEMMA ReleasedType ==
    ASSUME NEW r \in Payment, NEW k \in Nat, NEW status \in Statuses
    PROVE  /\ Released(r, k, status) \in Payment
           /\ Released(r, k, status).released_amount = r.released_amount + k
           /\ Released(r, k, status).amount = r.amount
           /\ Released(r, k, status).status = status
           /\ Released(r, k, status).asset_type = r.asset_type
<1> DEFINE s == [r EXCEPT !.released_amount = r.released_amount + k]
<1>1. /\ s \in Payment
      /\ s.released_amount = r.released_amount + k
      /\ s.amount = r.amount
      /\ s.asset_type = r.asset_type
  BY DEF Payment
<1> HIDE DEF s
<1>2. /\ [s EXCEPT !.status = status] \in Payment
      /\ [s EXCEPT !.status = status].released_amount = s.released_amount
      /\ [s EXCEPT !.status = status].amount = s.amount
      /\ [s EXCEPT !.status = status].status = status
      /\ [s EXCEPT !.status = status].asset_type = s.asset_type
  BY <1>1 DEF Payment
<1>3. Released(r, k, status) = [s EXCEPT !.status = status]
  BY DEF Released, s
<1> QED BY <1>1, <1>2, <1>3

\* An existing payment is a record, with something between nothing and the
\* whole deposit left of it, and something left exactly while it is open.
LEMMA RemainingType ==
    ASSUME IInv, NEW p \in PaymentIds, Exists(p)
    PROVE  /\ payments[p] \in Payment
           /\ remaining_amount(p) \in Nat
           /\ ~Closed(p) => remaining_amount(p) > 0
<1>1. payments[p] \in Payment
  BY DEF IInv, TypeOK, Exists
<1>2. /\ payments[p].released_amount <= payments[p].amount
      /\ Closed(p) <=> payments[p].released_amount = payments[p].amount
  BY DEF IInv, Conservation
<1> QED BY <1>1, <1>2 DEF remaining_amount, Payment

\* A payout keeps the invariant when it pays at most what remains of an open
\* payment, closes it exactly when it pays everything, and the customer is
\* paid exactly by the payouts that end in Expired.
LEMMA PayoutKeepsInv ==
    ASSUME IInv, NEW p \in PaymentIds, Exists(p), ~Closed(p),
           NEW party \in {"merchant", "customer"}, NEW status \in Statuses,
           NEW k \in Nat, k > 0, k <= remaining_amount(p),
           status \in {"Released", "Expired"} <=> k = remaining_amount(p),
           party = "customer" <=> status = "Expired",
           transfer_from_contract(p, party, k, status)
    PROVE  IInv'
<1> USE DEF transfer_from_contract
<1>1. /\ payments[p] \in Payment
      /\ remaining_amount(p) \in Nat
  BY RemainingType
<1> DEFINE a == payments[p].asset_type
<1> DEFINE new == Released(payments[p], k, status)
<1>2. /\ payments' = [payments EXCEPT ![p] = new]
      /\ new \in Payment
  BY <1>1, ReleasedType
<1>3. paid' = [paid EXCEPT ![p] = [paid[p] EXCEPT ![party] = paid[p][party] + k]]
  OBVIOUS
<1>4. [paid[p] EXCEPT ![party] = paid[p][party] + k] \in [merchant : Nat, customer : Nat]
  BY DEF IInv, TypeOK
<1>5. TypeOK'
  <2>1. payments' \in [PaymentIds -> Payment \cup {NoPayment}]
    BY <1>2 DEF IInv, TypeOK
  <2>2. paid' \in [PaymentIds -> [merchant : Nat, customer : Nat]]
    BY <1>3, <1>4 DEF IInv, TypeOK
  <2>3. balance' \in [Assets -> Nat]
    BY <1>1 DEF IInv, TypeOK, Payment
  <2> QED BY <2>1, <2>2, <2>3 DEF IInv, TypeOK, drainVars
<1>6. \A q \in PaymentIds : q # p => payments'[q] = payments[q] /\ paid'[q] = paid[q]
  BY <1>2, <1>3 DEF IInv, TypeOK
<1>7. payments'[p] = new /\ paid'[p] = [paid[p] EXCEPT ![party] = paid[p][party] + k]
  BY <1>2, <1>3 DEF IInv, TypeOK
<1>8. new # NoPayment
  BY <1>2, ContractAssumption
<1>9. MoneyInv'
  <2> SUFFICES ASSUME NEW q \in PaymentIds
               PROVE  /\ IF Exists(q)' THEN
                            /\ paid'[q].merchant + paid'[q].customer
                                  = payments'[q].released_amount
                            /\ payments'[q].released_amount <= payments'[q].amount
                            /\ Closed(q)' <=> payments'[q].released_amount
                                                 = payments'[q].amount
                         ELSE paid'[q] = NothingPaid
                      /\ paid'[q].customer > 0 <=> Is(q, "Expired")'
    BY DEF MoneyInv, Conservation, RefundedIffExpired, NothingPaid
  <2>1. CASE q # p
    BY <2>1, <1>6 DEF IInv, Conservation, RefundedIffExpired, Exists, Is, Closed,
                      NothingPaid
  <2>2. CASE q = p
    <3>1. /\ new.released_amount = payments[p].released_amount + k
          /\ new.amount = payments[p].amount
          /\ new.status = status
      BY <1>1, ReleasedType
    <3>2. /\ paid[p].merchant \in Nat /\ paid[p].customer \in Nat
          /\ payments[p].released_amount \in Nat /\ payments[p].amount \in Nat
          /\ paid[p].merchant + paid[p].customer = payments[p].released_amount
          /\ ~(paid[p].customer > 0)
      BY <1>1 DEF IInv, TypeOK, Conservation, RefundedIffExpired, Closed, Payment
    <3>3. paid'[p].merchant + paid'[p].customer = payments[p].released_amount + k
      BY <3>2, <1>7 DEF IInv, TypeOK
    <3>4. paid'[p].customer > 0 <=> party = "customer"
      BY <3>2, <1>7 DEF IInv, TypeOK
    <3>5. remaining_amount(p) = payments[p].amount - payments[p].released_amount
      BY DEF remaining_amount
    <3>6. Exists(p)'
      BY <1>7, <1>8 DEF Exists
    <3>7. /\ Is(p, "Expired")' <=> status = "Expired"
          /\ Closed(p)' <=> status \in {"Released", "Expired"}
      BY <1>7, <3>1, <3>6 DEF Is, Closed, Exists
    <3> QED BY <1>7, <2>2, <3>1, <3>2, <3>3, <3>4, <3>5, <3>6, <3>7
  <2> QED BY <2>1, <2>2
<1>10. DrainInv'
  BY DEF IInv, DrainInv, DrainHistory, DrainsSpaced, drainVars, SaturatingAdd
<1> QED BY <1>5, <1>9, <1>10 DEF IInv, MoneyInv, DrainInv

--------------------------------------------------------------------------------

\* deposit keeps the inductive invariant.
LEMMA DepositKeepsInv ==
    ASSUME IInv, NEW p \in PaymentIds, NEW c \in Customers, NEW m \in Merchants,
           NEW k \in Amounts, NEW t \in Ttls, NEW a \in Assets,
           deposit(c, p, m, k, t, a)
    PROVE  IInv'
<1> USE DEF deposit
<1> DEFINE expiry == SaturatingAdd(seq, t)
<1> DEFINE windowEnd == SaturatingAdd(seq, MaxDisputeWindow)
<1> DEFINE new == [amount |-> k, released_amount |-> 0, merchant |-> m,
                   customer |-> c, status |-> "Pending", expiry |-> expiry,
                   dispute_window_end |->
                       IF expiry < windowEnd THEN expiry ELSE windowEnd,
                   asset_type |-> a]
<1>1. k \in Nat \ {0} /\ t \in Nat /\ seq \in Nat /\ MaxDisputeWindow \in Nat
  BY ContractAssumption DEF IInv, TypeOK
<1>2. expiry \in Nat /\ windowEnd \in Nat
  BY <1>1, SaturatingAddType
<1>3. payments' = [payments EXCEPT ![p] = new]
  OBVIOUS
<1> HIDE DEF expiry, windowEnd
<1>4. new \in Payment
  BY <1>1, <1>2 DEF Payment, Statuses
<1>5. new # NoPayment
  BY <1>4, ContractAssumption
<1>6. payments'[p] = new /\ \A q \in PaymentIds : q # p => payments'[q] = payments[q]
  BY <1>3 DEF IInv, TypeOK
<1>7. TypeOK'
  <2>1. payments' \in [PaymentIds -> Payment \cup {NoPayment}]
    BY <1>3, <1>4 DEF IInv, TypeOK
  <2>2. balance' \in [Assets -> Nat]
    BY <1>1 DEF IInv, TypeOK
  <2> QED BY <2>1, <2>2 DEF IInv, TypeOK, drainVars
<1>8. MoneyInv'
  <2>1. paid[p] = NothingPaid /\ paid' = paid
    BY DEF IInv, Conservation
  <2>2. ASSUME NEW q \in PaymentIds
        PROVE  /\ IF Exists(q)' THEN
                     /\ paid[q].merchant + paid[q].customer
                           = payments'[q].released_amount
                     /\ payments'[q].released_amount <= payments'[q].amount
                     /\ Closed(q)' <=> payments'[q].released_amount
                                          = payments'[q].amount
                  ELSE paid[q] = NothingPaid
               /\ paid[q].customer > 0 <=> Is(q, "Expired")'
    <3>1. CASE q # p
      BY <3>1, <1>6 DEF IInv, Conservation, RefundedIffExpired, Exists, Is, Closed
    <3>2. CASE q = p
      <4>1. /\ new.released_amount = 0 /\ new.amount = k /\ new.status = "Pending"
            /\ NothingPaid.merchant = 0 /\ NothingPaid.customer = 0
        BY DEF NothingPaid
      <4> HIDE DEF new
      <4>2. Exists(p)' /\ ~Closed(p)' /\ ~Is(p, "Expired")'
        BY <1>5, <1>6, <4>1 DEF Exists, Closed, Is
      <4> QED BY <1>1, <1>6, <2>1, <3>2, <4>1, <4>2
    <3> QED BY <3>1, <3>2
  <2> QED BY <2>1, <2>2 DEF MoneyInv, Conservation, RefundedIffExpired, NothingPaid
<1>9. DrainInv'
  BY DEF IInv, DrainInv, DrainHistory, DrainsSpaced, drainVars, SaturatingAdd
<1> QED BY <1>7, <1>8, <1>9 DEF IInv, MoneyInv, DrainInv

\* After deposit its payment is stored.
LEMMA DepositExists ==
    ASSUME IInv, NEW p \in PaymentIds, NEW c \in Customers, NEW m \in Merchants,
           NEW k \in Amounts, NEW t \in Ttls, NEW a \in Assets,
           deposit(c, p, m, k, t, a)
    PROVE  Exists(p)'
<1> DEFINE new == [amount |-> k, released_amount |-> 0, merchant |-> m,
                   customer |-> c, status |-> "Pending",
                   expiry |-> SaturatingAdd(seq, t),
                   dispute_window_end |->
                      IF SaturatingAdd(seq, t) < SaturatingAdd(seq, MaxDisputeWindow)
                      THEN SaturatingAdd(seq, t)
                      ELSE SaturatingAdd(seq, MaxDisputeWindow),
                   asset_type |-> a]
<1>1. t \in Nat /\ seq \in Nat /\ MaxDisputeWindow \in Nat /\ k \in Nat \ {0}
  BY ContractAssumption DEF IInv, TypeOK, deposit
<1>2. new \in Payment
  BY <1>1, SaturatingAddType DEF Payment, Statuses
<1>3. payments'[p] = new
  BY DEF deposit, IInv, TypeOK
<1> HIDE DEF new
<1>4. QED BY <1>2, <1>3, ContractAssumption DEF Exists

\* raise_dispute moves no money.
LEMMA DisputeKeepsInv ==
    ASSUME IInv, NEW p \in PaymentIds, NEW caller, dispute(caller, p)
    PROVE  IInv'
<1> USE DEF dispute
<1> DEFINE new == [payments[p] EXCEPT !.status = "Disputed"]
<1>1. Exists(p) /\ payments[p].status = "Pending"
  BY DEF Is
<1>2. payments[p] \in Payment
  BY <1>1, RemainingType
<1>3. payments' = [payments EXCEPT ![p] = new]
  OBVIOUS
<1>4. /\ new \in Payment /\ new.status = "Disputed"
      /\ new.amount = payments[p].amount
      /\ new.released_amount = payments[p].released_amount
  BY <1>2 DEF Payment, Statuses
<1>5. payments'[p] = new /\ \A q \in PaymentIds : q # p => payments'[q] = payments[q]
  BY <1>3 DEF IInv, TypeOK
<1> HIDE DEF new
<1>6. TypeOK'
  BY <1>3, <1>4 DEF IInv, TypeOK, drainVars
<1>7. \A q \in PaymentIds :
          /\ Exists(q)' <=> Exists(q)
          /\ Closed(q)' <=> Closed(q)
          /\ Is(q, "Expired")' <=> Is(q, "Expired")
          /\ Exists(q) => /\ payments'[q].amount = payments[q].amount
                          /\ payments'[q].released_amount = payments[q].released_amount
  BY <1>1, <1>4, <1>5, ContractAssumption DEF Exists, Closed, Is
<1>8. MoneyInv'
  BY <1>7 DEF IInv, MoneyInv, Conservation, RefundedIffExpired
<1>9. DrainInv'
  BY DEF IInv, DrainInv, DrainHistory, DrainsSpaced, drainVars, SaturatingAdd
<1> QED BY <1>6, <1>8, <1>9 DEF IInv, MoneyInv, DrainInv

\* emergency_drain waits out the cooldown.
LEMMA DrainKeepsInv ==
    ASSUME IInv, NEW s1, NEW s2, emergency_drain(s1, s2)
    PROVE  IInv'
<1> USE DEF emergency_drain
<1>1. TypeOK'
  BY DEF IInv, TypeOK, Assets
<1>2. MoneyInv'
  BY DEF IInv, MoneyInv, Conservation, RefundedIffExpired, Exists, Closed, Is,
         NothingPaid
<1>3. DrainHistory'
  BY DEF IInv, TypeOK, DrainHistory
<1>4. DrainsSpaced'
  <2> SUFFICES ASSUME NEW d \in drains \cup {seq}, NEW e \in drains \cup {seq}, d < e
               PROVE  e >= SaturatingAdd(d, Cooldown)
    BY DEF DrainsSpaced, SaturatingAdd
  <2>1. CASE e \in drains
    <3>1. d \in drains
      BY <2>1 DEF IInv, TypeOK, DrainHistory
    <3> QED BY <2>1, <3>1 DEF IInv, DrainsSpaced
  <2>2. CASE e = seq
    <3>1. d \in drains
      BY <2>2 DEF IInv, TypeOK
    <3>2. /\ d \in Nat /\ lastDrain \in Nat /\ seq \in Nat /\ Cooldown \in Nat
          /\ d <= lastDrain /\ lastDrain # 0
      BY <3>1, ContractAssumption DEF IInv, TypeOK, DrainHistory
    <3>3. seq >= SaturatingAdd(lastDrain, Cooldown)
      BY <3>2, SaturatingAddType DEF cooldown_active
    <3>4. /\ SaturatingAdd(d, Cooldown) <= SaturatingAdd(lastDrain, Cooldown)
          /\ SaturatingAdd(d, Cooldown) \in Nat
          /\ SaturatingAdd(lastDrain, Cooldown) \in Nat
      BY <3>2, SaturatingAddMonotone, SaturatingAddType
    <3> QED BY <2>2, <3>2, <3>3, <3>4
  <2> QED BY <2>1, <2>2
<1> QED BY <1>1, <1>2, <1>3, <1>4 DEF IInv, MoneyInv

--------------------------------------------------------------------------------
\* The calls that pay, described once: a payout of k from an open payment to
\* one party.  PaysOut holds of every call that reaches transfer_from_contract.
PaysOut(p, party, k, status) ==
    /\ Exists(p) /\ ~Closed(p)
    /\ k \in Nat /\ k > 0 /\ k <= remaining_amount(p)
    /\ status \in Statuses
    /\ status \in {"Released", "Expired"} <=> k = remaining_amount(p)
    /\ party = "customer" <=> status = "Expired"
    /\ party = "merchant" => require_releasable(p)
                               \/ (Is(p, "Disputed") /\ k = remaining_amount(p))
    /\ party = "customer" => require_expirable(p) \/ Is(p, "Disputed")
    /\ transfer_from_contract(p, party, k, status)

\* Every call on a payment is a deposit, a dispute or a payout.
LEMMA PaymentSteps ==
    ASSUME IInv, NEW p \in PaymentIds, PaymentStep(p)
    PROVE  \/ \E c \in Customers, m \in Merchants, k \in Amounts, t \in Ttls, a \in Assets :
                 deposit(c, p, m, k, t, a)
           \/ \E caller \in Addresses : dispute(caller, p)
           \/ \E party \in {"merchant", "customer"}, k \in Nat, status \in Statuses :
                 PaysOut(p, party, k, status)
<1> DEFINE rest == remaining_amount(p)
<1>1. ASSUME Exists(p), ~Closed(p)
      PROVE  rest \in Nat /\ rest > 0
  BY <1>1, RemainingType
<1>2. ASSUME NEW s, Is(p, s), s \in {"Pending", "Disputed"}
      PROVE  Exists(p) /\ ~Closed(p)
  BY <1>2 DEF Is, Exists, Closed
<1> HIDE DEF rest
<1>3. ASSUME NEW caller \in Addresses, release(caller, p)
      PROVE  PaysOut(p, "merchant", rest, "Released") /\ rest \in Nat
  BY <1>1, <1>2, <1>3 DEF release, require_releasable, PaysOut, Statuses, rest
<1>4. ASSUME NEW caller \in Addresses, NEW k \in Amounts, release_partial(caller, p, k)
      PROVE  \E s \in Statuses : PaysOut(p, "merchant", k, s) /\ k \in Nat
  <2>1. k \in Nat /\ k > 0 /\ k <= rest /\ Exists(p) /\ ~Closed(p) /\ require_releasable(p)
    BY <1>2, <1>4, ContractAssumption DEF release_partial, require_releasable, rest
  <2>2. CASE k = rest
    <3>1. transfer_from_contract(p, "merchant", k, "Released")
      BY <1>4, <2>2 DEF release_partial, rest
    <3> QED BY <2>1, <2>2, <3>1 DEF PaysOut, Statuses, rest
  <2>3. CASE k # rest
    <3>1. transfer_from_contract(p, "merchant", k, "Pending")
      BY <1>4, <2>3 DEF release_partial, rest
    <3> QED BY <2>1, <2>3, <3>1 DEF PaysOut, Statuses, rest
  <2> QED BY <2>2, <2>3
<1>5. ASSUME expire(p) \/ refund(p)
      PROVE  PaysOut(p, "customer", rest, "Expired") /\ rest \in Nat
  BY <1>1, <1>2, <1>5 DEF expire, refund, require_expirable, PaysOut, Statuses, rest
<1>6. ASSUME NEW caller \in Addresses, NEW winner \in Addresses,
             resolve_dispute(caller, p, winner)
      PROVE  /\ rest \in Nat
             /\ \/ PaysOut(p, "merchant", rest, "Released")
                \/ PaysOut(p, "customer", rest, "Expired")
  BY <1>1, <1>2, <1>6 DEF resolve_dispute, PaysOut, Statuses, rest
<1> QED BY <1>3, <1>4, <1>5, <1>6 DEF PaymentStep, Statuses

\* release, refund, resolve and expire keep the inductive invariant.
LEMMA PaysOutKeepsInv ==
    ASSUME IInv, NEW p \in PaymentIds, NEW party \in {"merchant", "customer"},
           NEW k \in Nat, NEW status \in Statuses, PaysOut(p, party, k, status)
    PROVE  IInv'
BY PayoutKeepsInv DEF PaysOut

\* The steps that move no money of a payment and are no drain.
LEMMA QuietStepKeepsInv ==
    ASSUME IInv, UNCHANGED <<money, drainVars>>, TypeOK', seq' \in {seq, seq + 1}
    PROVE  IInv'
<1>1. MoneyInv'
  BY DEF IInv, MoneyInv, Conservation, RefundedIffExpired, Exists, Closed, Is,
         NothingPaid, money
<1>2. DrainInv'
  BY DEF IInv, TypeOK, DrainInv, DrainHistory, DrainsSpaced, drainVars, SaturatingAdd
<1> QED BY <1>1, <1>2 DEF IInv, MoneyInv, DrainInv

\* Every step keeps the inductive invariant.
LEMMA NextKeepsInv == IInv /\ [Next]_vars => IInv'
<1> SUFFICES ASSUME IInv, [Next]_vars PROVE IInv'
  OBVIOUS
<1>1. ASSUME NEW p \in PaymentIds, PaymentStep(p) PROVE IInv'
  BY <1>1, PaymentSteps, DepositKeepsInv, DisputeKeepsInv, PaysOutKeepsInv
<1>2. ASSUME NEW s1, NEW s2, emergency_drain(s1, s2) PROVE IInv'
  BY <1>2, DrainKeepsInv
<1>3. ASSUME NEW caller, NEW on \in BOOLEAN, set_registry(caller, on) PROVE IInv'
  <2>1. UNCHANGED <<money, drainVars>> /\ seq' = seq
    BY <1>3 DEF set_registry
  <2>2. TypeOK'
    BY <1>3 DEF set_registry, IInv, TypeOK, money, drainVars
  <2> QED BY <2>1, <2>2, QuietStepKeepsInv
<1>4. ASSUME NEW caller, upgrade(caller) PROVE IInv'
  <2>1. UNCHANGED <<money, drainVars>> /\ seq' = seq
    BY <1>4 DEF upgrade
  <2>2. TypeOK'
    BY <1>4 DEF upgrade, IInv, TypeOK, money, drainVars
  <2> QED BY <2>1, <2>2, QuietStepKeepsInv
<1>5. CASE CloseLedger
  <2>1. UNCHANGED <<money, drainVars>> /\ seq' = seq + 1
    BY <1>5 DEF CloseLedger
  <2>2. TypeOK'
    BY <1>5 DEF CloseLedger, IInv, TypeOK, money, drainVars
  <2> QED BY <2>1, <2>2, QuietStepKeepsInv
<1>6. CASE RegistryChanges
  <2>1. UNCHANGED <<money, drainVars>> /\ seq' = seq
    BY <1>6 DEF RegistryChanges
  <2>2. TypeOK'
    BY <1>6 DEF RegistryChanges, IInv, TypeOK, money, drainVars
  <2> QED BY <2>1, <2>2, QuietStepKeepsInv
<1>7. CASE UNCHANGED vars
  <2>1. UNCHANGED <<money, drainVars>> /\ seq' = seq
    BY <1>7 DEF vars, money, drainVars
  <2>2. TypeOK'
    BY <1>7 DEF vars, IInv, TypeOK
  <2> QED BY <2>1, <2>2, QuietStepKeepsInv
<1> QED BY <1>1, <1>2, <1>3, <1>4, <1>5, <1>6, <1>7 DEF Next, ContractStep

\* It holds at first.
LEMMA InitInv == Init => IInv
<1> SUFFICES ASSUME Init PROVE IInv
  OBVIOUS
<1>1. TypeOK
  BY DEF Init, TypeOK
<1>2. Conservation /\ RefundedIffExpired
  BY DEF Init, Conservation, RefundedIffExpired, Exists, Is, NothingPaid
<1>3. DrainHistory /\ DrainsSpaced
  BY DEF Init, DrainHistory, DrainsSpaced
<1> QED BY <1>1, <1>2, <1>3 DEF IInv

\* Every reachable state satisfies the inductive invariant.
THEOREM Invariance == Spec => []IInv
BY InitInv, NextKeepsInv, PTL DEF Spec

\* Type correctness, for every value of the constants.
THEOREM TypeCorrect == Spec => []TypeOK
<1>1. IInv => TypeOK
  BY DEF IInv
<1> QED BY <1>1, Invariance, PTL

\* Conservation: no sequence of releases, expiries, refunds and resolved
\* disputes pays out more, or on closing less, than was deposited; and the
\* customer is refunded on exactly the payments that end Expired.
THEOREM MoneyConserved == Spec => [](Conservation /\ RefundedIffExpired)
<1>1. IInv => Conservation /\ RefundedIffExpired
  BY DEF IInv
<1> QED BY <1>1, Invariance, PTL

\* The cooldown between emergency drains holds in every execution.
THEOREM CooldownRespected == Spec => []DrainsSpaced
<1>1. IInv => DrainsSpaced
  BY DEF IInv
<1> QED BY <1>1, Invariance, PTL

--------------------------------------------------------------------------------
\* What each kind of step does to the records and to the sums paid.

\* What a payout does to the record of its payment and to the sums paid.
LEMMA PaysOutEffect ==
    ASSUME IInv, NEW p \in PaymentIds, NEW party \in {"merchant", "customer"},
           NEW k \in Nat, NEW status \in Statuses, PaysOut(p, party, k, status)
    PROVE  /\ payments[p] \in Payment
           /\ payments'[p] = Released(payments[p], k, status)
           /\ payments'[p] \in Payment
           /\ paid' = [paid EXCEPT ![p] = [paid[p] EXCEPT ![party] = paid[p][party] + k]]
           /\ \A q \in PaymentIds : q # p => payments'[q] = payments[q]
<1>1. payments[p] \in Payment
  BY RemainingType DEF PaysOut
<1>2. payments' = [payments EXCEPT ![p] = Released(payments[p], k, status)]
  BY DEF PaysOut, transfer_from_contract
<1>3. payments'[p] = Released(payments[p], k, status)
      /\ \A q \in PaymentIds : q # p => payments'[q] = payments[q]
  BY <1>2 DEF IInv, TypeOK
<1> QED BY <1>1, <1>3, ReleasedType DEF PaysOut, transfer_from_contract

\* A step is a deposit, a dispute or a payout of one payment, or it changes
\* neither the payments nor what they paid.
LEMMA StepKinds ==
    ASSUME IInv, [Next]_vars
    PROVE  \/ UNCHANGED <<payments, paid>>
           \/ \E p \in PaymentIds :
                 \/ \E c \in Customers, m \in Merchants, k \in Amounts, t \in Ttls, a \in Assets :
                        deposit(c, p, m, k, t, a)
                 \/ \E caller \in Addresses : dispute(caller, p)
                 \/ \E party \in {"merchant", "customer"}, k \in Nat, status \in Statuses :
                        PaysOut(p, party, k, status)
<1>1. ASSUME ~\E p \in PaymentIds : PaymentStep(p)
      PROVE  UNCHANGED <<payments, paid>>
  BY <1>1 DEF Next, ContractStep, emergency_drain, upgrade, set_registry, CloseLedger,
              RegistryChanges, money, vars
<1> QED BY <1>1, PaymentSteps

\* A payout of k to one party changes that party's share alone.
LEMMA ShareEffect ==
    ASSUME IInv, NEW p \in PaymentIds, NEW party \in {"merchant", "customer"},
           NEW k \in Nat, k > 0,
           paid' = [paid EXCEPT ![p] = [paid[p] EXCEPT ![party] = paid[p][party] + k]]
    PROVE  /\ \A q \in PaymentIds : q # p => paid'[q] = paid[q]
           /\ party = "merchant" => /\ paid'[p].merchant = paid[p].merchant + k
                                    /\ paid'[p].customer = paid[p].customer
           /\ party = "customer" => /\ paid'[p].customer = paid[p].customer + k
                                    /\ paid'[p].merchant = paid[p].merchant
           /\ paid[p].merchant \in Nat /\ paid[p].customer \in Nat
BY DEF IInv, TypeOK

\* A payment of which a step pays nothing obeys the rules.
LEMMA StillPaid ==
    ASSUME IInv, NEW q \in PaymentIds, paid'[q] = paid[q]
    PROVE  PayoutStep(q)
BY DEF IInv, TypeOK, PayoutStep

\* Every step obeys the rules of the payouts.
LEMMA NextPayout ==
    ASSUME IInv, [Next]_vars, NEW q \in PaymentIds
    PROVE  PayoutStep(q)
<1>1. CASE paid' = paid
  BY <1>1, StillPaid
<1>2. CASE \E p \in PaymentIds : \E party \in {"merchant", "customer"}, k \in Nat,
             status \in Statuses : PaysOut(p, party, k, status)
  <2>1. PICK p \in PaymentIds, party \in {"merchant", "customer"}, k \in Nat,
             status \in Statuses : PaysOut(p, party, k, status)
    BY <1>2
  <2>2. k > 0 /\ paid' = [paid EXCEPT ![p] = [paid[p] EXCEPT ![party] = paid[p][party] + k]]
    BY <2>1, PaysOutEffect DEF PaysOut
  <2>3. CASE q # p
    BY <2>2, <2>3, ShareEffect, StillPaid
  <2>4. CASE q = p /\ party = "merchant"
    <3>1. /\ paid'[q].merchant - paid[q].merchant = k
          /\ paid'[q].customer - paid[q].customer = 0
      <4>1. /\ paid'[q].merchant = paid[q].merchant + k /\ paid'[q].customer = paid[q].customer
            /\ paid[q].merchant \in Nat /\ paid[q].customer \in Nat
        BY <2>2, <2>4, ShareEffect, Zenon
      <4> QED BY <4>1
    <3> QED BY <2>1, <2>4, <3>1 DEF PayoutStep, PaysOut, require_releasable
  <2>5. CASE q = p /\ party = "customer"
    <3>1. /\ paid'[q].customer - paid[q].customer = k
          /\ paid'[q].merchant - paid[q].merchant = 0
      <4>1. /\ paid'[q].customer = paid[q].customer + k /\ paid'[q].merchant = paid[q].merchant
            /\ paid[q].merchant \in Nat /\ paid[q].customer \in Nat
        BY <2>2, <2>5, ShareEffect, Zenon
      <4> QED BY <4>1
    <3>2. k = remaining_amount(p)
      BY <2>1, <2>5 DEF PaysOut
    <3> QED BY <2>1, <2>5, <3>1, <3>2 DEF PayoutStep, PaysOut, require_expirable
  <2> QED BY <2>3, <2>4, <2>5
<1> QED BY <1>1, <1>2, StepKinds DEF deposit, dispute

\* Money never leaves for the merchant after expiry or for the customer before
\* it, except as the outcome of a dispute.
THEOREM PayoutsFollowRules == Spec => PayoutRules
<1>1. IInv /\ [Next]_vars => [\A p \in PaymentIds : PayoutStep(p)]_vars
  BY NextPayout
<1> QED BY <1>1, Invariance, PTL DEF Spec, PayoutRules

--------------------------------------------------------------------------------
\* The escrow stays backed: the sum of what is owed in an asset moves with the
\* balance of its token.

\* What a payment is owed is a number.
LEMMA OwedType ==
    ASSUME NEW a \in Assets
    PROVE  IInv => Owed(a) \in [PaymentIds -> Int]
<1>1. IInv => \A p \in PaymentIds : Exists(p) => remaining_amount(p) \in Int
  BY RemainingType
<1>2. QED BY <1>1 DEF Owed

\* TotalOwed is a sum over the ids.
LEMMA TotalIsSum ==
    ASSUME NEW a \in Assets
    PROVE  TotalOwed(a) = SumOver(Owed(a), PaymentIds)
BY DEF TotalOwed, Owed, SumFunction, SumOver, SumFunctionOnSet

\* A step that changes the record of p alone moves the sum by what it does to p.
LEMMA OwedMoves ==
    ASSUME IInv, NEW p \in PaymentIds, NEW a \in Assets, NEW k \in Int,
           \A q \in PaymentIds : q # p => payments'[q] = payments[q],
           Owed(a)'[p] = Owed(a)[p] + k
    PROVE  TotalOwed(a)' = TotalOwed(a) + k
<1>1. PICK f : f = Owed(a)
  OBVIOUS
<1>2. PICK g : g = Owed(a)'
  OBVIOUS
<1>3. f \in [PaymentIds -> Int] /\ TotalOwed(a) = SumOver(f, PaymentIds)
  BY <1>1, OwedType, TotalIsSum
<1>4. \A q \in PaymentIds \ {p} : f[q] = g[q]
  BY <1>1, <1>2 DEF Owed, Exists, remaining_amount
<1>5. g[p] = f[p] + k
  BY <1>1, <1>2
<1>6. g \in [PaymentIds -> Int]
  <2>1. g = [q \in PaymentIds |-> g[q]]
    BY <1>2 DEF Owed
  <2>2. \A q \in PaymentIds : g[q] \in Int
    BY <1>3, <1>4, <1>5
  <2>3. QED BY <2>1, <2>2
<1>7. TotalOwed(a)' = SumOver(g, PaymentIds)
  BY <1>2, <1>6 DEF TotalOwed, SumFunction, SumOver
<1>8. SumOver(g, PaymentIds) = SumOver(f, PaymentIds) + (g[p] - f[p])
  <2>1. \A q \in PaymentIds : f[q] \in Int /\ g[q] \in Int
    BY <1>3, <1>6
  <2>2. QED BY <1>4, <2>1, IdsAssumption, SumOfOneChange
<1>9. g[p] - f[p] = k
  BY <1>3, <1>5
<1>10. QED BY <1>1, <1>3, <1>7, <1>8, <1>9

\* What moves no money leaves the total.
LEMMA OwedStays ==
    ASSUME NEW a \in Assets, payments' = payments
    PROVE  TotalOwed(a)' = TotalOwed(a)
<1>1. Owed(a)' = Owed(a)
  BY DEF Owed, Exists, remaining_amount
<1>2. QED BY <1>1 DEF TotalOwed

\* The three kinds of steps that move money: a deposit, a payout, a drain.

\* deposit takes what the escrow owes from then on.
LEMMA DepositKeepsBacked ==
    ASSUME IInv, Backed, NEW p \in PaymentIds, NEW c \in Customers,
           NEW m \in Merchants, NEW k \in Amounts, NEW t \in Ttls, NEW a \in Assets,
           deposit(c, p, m, k, t, a)
    PROVE  Backed'
<1>1. IInv'
  BY DepositKeepsInv
<1>2. /\ k \in Nat \ {0} /\ ~Exists(p)
      /\ \A q \in PaymentIds : q # p => payments'[q] = payments[q]
      /\ payments'[p].amount = k /\ payments'[p].released_amount = 0
      /\ payments'[p].asset_type = a
      /\ balance' = [balance EXCEPT ![a] = @ + k] /\ treasury' = treasury
  BY ContractAssumption DEF deposit, IInv, TypeOK, drainVars
<1>3. Exists(p)'
  BY DepositExists
<1>4. SUFFICES ASSUME NEW b \in Assets
               PROVE  TotalOwed(b)'
                          = balance'[b] + (IF b = "USDC" THEN treasury' ELSE 0)
  BY DEF Backed
<1>5. TotalOwed(b) = balance[b] + (IF b = "USDC" THEN treasury ELSE 0)
  BY DEF Backed
<1>6. balance \in [Assets -> Nat] /\ treasury \in Nat
  BY DEF IInv, TypeOK
<1>7. Owed(b)[p] = 0 /\ Owed(b)'[p] = IF a = b THEN k ELSE 0
  BY <1>2, <1>3 DEF Owed, remaining_amount
<1>8. CASE a = b
  <2>1. TotalOwed(b)' = TotalOwed(b) + k
    BY <1>2, <1>7, <1>8, OwedMoves
  <2>2. balance'[b] = balance[b] + k
    BY <1>2, <1>6, <1>8
  <2>3. QED BY <1>2, <1>5, <1>6, <2>1, <2>2
<1>9. CASE a # b
  <2>1. TotalOwed(b)' = TotalOwed(b) + 0
    BY <1>2, <1>7, <1>9, OwedMoves
  <2>2. balance'[b] = balance[b]
    BY <1>2, <1>6, <1>9
  <2>3. QED BY <1>2, <1>5, <1>6, <2>1, <2>2
<1>10. QED BY <1>8, <1>9

\* A payout, with its fee, leaves both sides alike.
LEMMA PaysOutKeepsBacked ==
    ASSUME IInv, Backed, NEW p \in PaymentIds, NEW party \in {"merchant", "customer"},
           NEW k \in Nat, NEW status \in Statuses, PaysOut(p, party, k, status)
    PROVE  Backed'
<1>1. PICK a : a = payments[p].asset_type
  OBVIOUS
<1>2. /\ payments[p] \in Payment /\ payments'[p] \in Payment /\ a \in Assets
      /\ payments'[p] = Released(payments[p], k, status)
      /\ \A q \in PaymentIds : q # p => payments'[q] = payments[q]
  BY <1>1, PaysOutEffect DEF Payment
<1>3. /\ payments'[p].released_amount = payments[p].released_amount + k
      /\ payments'[p].amount = payments[p].amount
      /\ payments'[p].asset_type = a
  <2>1. PICK r \in Payment : r = payments[p]
    BY <1>2
  <2>2. payments'[p] = Released(r, k, status)
    BY <1>2, <2>1
  <2>3. /\ Released(r, k, status).released_amount = r.released_amount + k
        /\ Released(r, k, status).amount = r.amount
        /\ Released(r, k, status).asset_type = r.asset_type
    BY ReleasedType
  <2>4. QED BY <1>1, <2>1, <2>2, <2>3
<1>4. Exists(p) /\ Exists(p)'
  BY <1>2, ContractAssumption DEF PaysOut, Exists
<1>5. balance' = [balance EXCEPT ![a] = @ - k] /\ treasury' = treasury
  BY <1>1 DEF PaysOut, transfer_from_contract, drainVars
<1>6. SUFFICES ASSUME NEW b \in Assets
               PROVE  TotalOwed(b)'
                          = balance'[b] + (IF b = "USDC" THEN treasury' ELSE 0)
  BY DEF Backed
<1>7. TotalOwed(b) = balance[b] + (IF b = "USDC" THEN treasury ELSE 0)
  BY DEF Backed
<1>8. balance \in [Assets -> Nat] /\ treasury \in Nat
  BY DEF IInv, TypeOK
<1>9. payments[p].amount \in Int /\ payments[p].released_amount \in Int
  BY <1>2 DEF Payment
<1>10. CASE a = b
  <2>1. Owed(b)[p] = payments[p].amount - payments[p].released_amount
    BY <1>1, <1>4, <1>10 DEF Owed, remaining_amount
  <2>2. Owed(b)'[p] = payments[p].amount - (payments[p].released_amount + k)
    BY <1>3, <1>4, <1>10 DEF Owed, remaining_amount
  <2>3. Owed(b)'[p] = Owed(b)[p] + (0 - k) /\ 0 - k \in Int
    BY <1>9, <2>1, <2>2
  <2>4. TotalOwed(b)' = TotalOwed(b) + (0 - k)
    BY <1>2, <2>3, OwedMoves
  <2>5. balance'[b] = balance[b] - k
    BY <1>5, <1>8, <1>10
  <2>6. QED BY <1>5, <1>7, <1>8, <2>4, <2>5
<1>11. CASE a # b
  <2>1. Owed(b)[p] = 0 /\ Owed(b)'[p] = 0
    BY <1>1, <1>3, <1>11 DEF Owed
  <2>2. TotalOwed(b)' = TotalOwed(b) + 0
    BY <1>2, <2>1, OwedMoves
  <2>3. balance'[b] = balance[b]
    BY <1>5, <1>8, <1>11
  <2>4. QED BY <1>5, <1>7, <1>8, <2>2, <2>3
<1>12. QED BY <1>10, <1>11

\* raise_dispute leaves the total.
LEMMA DisputeKeepsBacked ==
    ASSUME IInv, Backed, NEW p \in PaymentIds, NEW caller, dispute(caller, p)
    PROVE  Backed'
<1>1. /\ payments[p] \in Payment /\ Exists(p)
      /\ payments'[p] = [payments[p] EXCEPT !.status = "Disputed"]
      /\ \A q \in PaymentIds : q # p => payments'[q] = payments[q]
      /\ balance' = balance /\ treasury' = treasury
  BY RemainingType DEF dispute, Is, IInv, TypeOK, drainVars
<1>2. /\ payments'[p].amount = payments[p].amount
      /\ payments'[p].released_amount = payments[p].released_amount
      /\ payments'[p].asset_type = payments[p].asset_type
      /\ payments'[p] \in Payment
  BY <1>1 DEF Payment, Statuses
<1>3. Exists(p)'
  BY <1>2, ContractAssumption DEF Exists
<1>4. \A b \in Assets : TotalOwed(b)' = TotalOwed(b)
  <2>1. TAKE b \in Assets
  <2>2. Owed(b)' = Owed(b)
    BY <1>1, <1>2, <1>3 DEF Owed, Exists, remaining_amount
  <2>3. QED BY <2>2 DEF TotalOwed
<1>5. QED BY <1>1, <1>4 DEF Backed

\* A drain moves the whole USDC balance to the treasury and nothing else.
LEMMA DrainKeepsBacked ==
    ASSUME IInv, Backed, NEW s1, NEW s2, emergency_drain(s1, s2)
    PROVE  Backed'
<1>1. /\ balance' = [balance EXCEPT !["USDC"] = 0]
      /\ treasury' = treasury + balance["USDC"] /\ payments' = payments
  BY DEF emergency_drain
<1>2. balance \in [Assets -> Nat] /\ treasury \in Nat /\ "USDC" \in Assets
  BY DEF IInv, TypeOK, Assets
<1>3. SUFFICES ASSUME NEW b \in Assets
               PROVE  TotalOwed(b)'
                          = balance'[b] + (IF b = "USDC" THEN treasury' ELSE 0)
  BY DEF Backed
<1>4. TotalOwed(b)' = balance[b] + (IF b = "USDC" THEN treasury ELSE 0)
  BY <1>1, OwedStays DEF Backed
<1>5. QED BY <1>1, <1>2, <1>4

\* Every step keeps the balance backed.
LEMMA NextKeepsBacked == IInv /\ Backed /\ [Next]_vars => Backed'
<1> SUFFICES ASSUME IInv, Backed, [Next]_vars PROVE Backed'
  OBVIOUS
<1>1. ASSUME UNCHANGED <<payments, balance, treasury>> PROVE Backed'
  BY <1>1, OwedStays DEF Backed
<1>2. ASSUME NEW p \in PaymentIds, PaymentStep(p) PROVE Backed'
  BY <1>2, PaymentSteps, DepositKeepsBacked, DisputeKeepsBacked, PaysOutKeepsBacked
<1>3. ASSUME NEW s1, NEW s2, emergency_drain(s1, s2) PROVE Backed'
  BY <1>3, DrainKeepsBacked
<1>4. ASSUME ~\E p \in PaymentIds : PaymentStep(p),
             ~\E s1, s2 \in Addresses : emergency_drain(s1, s2)
      PROVE  UNCHANGED <<payments, balance, treasury>>
  BY <1>4 DEF Next, ContractStep, upgrade, set_registry, CloseLedger, RegistryChanges,
              money, drainVars, vars
<1>5. QED BY <1>1, <1>2, <1>3, <1>4

\* The empty escrow is backed.
LEMMA InitBacked == Init => Backed
<1> SUFFICES ASSUME Init PROVE Backed
  OBVIOUS
<1>1. SUFFICES ASSUME NEW a \in Assets
               PROVE  TotalOwed(a) = balance[a] + (IF a = "USDC" THEN treasury ELSE 0)
  BY DEF Backed
<1>2. Owed(a) = [p \in PaymentIds |-> 0]
  BY DEF Init, Owed, Exists
<1>3. PICK f : f = [p \in PaymentIds |-> 0]
  OBVIOUS
<1>4. SumOver(f, PaymentIds) = 0
  <2>1. \A p \in PaymentIds : f[p] = 0
    BY <1>3
  <2>2. QED BY <2>1, IdsAssumption, SumOfZeros
<1>5. balance[a] = 0 /\ treasury = 0
  BY DEF Init
<1>6. QED BY <1>2, <1>3, <1>4, <1>5, TotalIsSum

\* The escrow is backed in every execution: what the contract owes in an asset
\* is what its token balance holds plus, for USDC, what drains took away.
THEOREM FullyBacked == Spec => []Backed
<1>1. Init => Backed
  BY InitBacked
<1>2. IInv /\ Backed /\ [Next]_vars => Backed'
  BY NextKeepsBacked
<1>3. QED BY <1>1, <1>2, Invariance, PTL DEF Spec

--------------------------------------------------------------------------------
\* The refinement of EscrowPromise.

\* The initial states are initial for the promise.
LEMMA InitRefines == Init => Promise!Init
<1> SUFFICES ASSUME Init PROVE Promise!Init
  OBVIOUS
<1>1. \A p \in PaymentIds : ~Exists(p)
  BY DEF Init, Exists
<1>2. Left = [p \in PaymentIds |-> 0]
  BY <1>1 DEF Left
<1>3. Phase = [p \in PaymentIds |-> "none"]
  BY <1>1 DEF Phase, Closed, Is
<1> QED BY <1>2, <1>3 DEF Init, Promise!Init

\* A step that changes the record of p alone changes Left and Phase at p alone.
LEMMA LocalEffect ==
    ASSUME NEW p \in PaymentIds,
           \A q \in PaymentIds : q # p => payments'[q] = payments[q]
    PROVE  /\ Left' = [Left EXCEPT ![p] = Left'[p]]
           /\ Phase' = [Phase EXCEPT ![p] = Phase'[p]]
<1>1. \A q \in PaymentIds : q # p => Left'[q] = Left[q]
  BY DEF Left, Exists, remaining_amount
<1>2. \A q \in PaymentIds : q # p => Phase'[q] = Phase[q]
  BY DEF Phase, Closed, Is, Exists
<1>3. /\ Left = [q \in PaymentIds |-> Left[q]] /\ Left' = [q \in PaymentIds |-> Left'[q]]
      /\ Phase = [q \in PaymentIds |-> Phase[q]] /\ Phase' = [q \in PaymentIds |-> Phase'[q]]
  BY DEF Left, Phase
<1> QED BY <1>1, <1>2, <1>3

\* deposit is the promise's deposit.
LEMMA DepositRefines ==
    ASSUME IInv, NEW p \in PaymentIds, NEW c \in Customers, NEW m \in Merchants,
           NEW k \in Amounts, NEW t \in Ttls, NEW a \in Assets,
           deposit(c, p, m, k, t, a)
    PROVE  Promise!Lock(p)
<1>1. IInv'
  BY DepositKeepsInv
<1>2. /\ k \in Nat \ {0} /\ ~Exists(p) /\ paid' = paid
      /\ \A q \in PaymentIds : q # p => payments'[q] = payments[q]
      /\ payments'[p].amount = k /\ payments'[p].released_amount = 0
      /\ payments'[p].status = "Pending"
  BY ContractAssumption DEF deposit, IInv, TypeOK
<1>3. Exists(p)'
  BY DepositExists
<1>4. Phase[p] = "none" /\ Phase'[p] = "open" /\ Left'[p] = k
  BY <1>2, <1>3 DEF Phase, Closed, Is, Left, Exists, remaining_amount
<1> QED BY <1>2, <1>4, LocalEffect DEF Promise!Lock

\* raise_dispute is a stutter of the promise.
LEMMA DisputeRefines ==
    ASSUME IInv, NEW p \in PaymentIds, NEW caller, dispute(caller, p)
    PROVE  UNCHANGED <<Left, paid, Phase>>
<1>1. Exists(p) /\ payments[p].status = "Pending"
  BY DEF dispute, Is
<1>2. payments[p] \in Payment
  BY <1>1, RemainingType
<1>3. /\ payments'[p] = [payments[p] EXCEPT !.status = "Disputed"]
      /\ \A q \in PaymentIds : q # p => payments'[q] = payments[q]
  BY DEF dispute, IInv, TypeOK
<1>4. /\ payments'[p] \in Payment /\ payments'[p].status = "Disputed"
      /\ payments'[p].amount = payments[p].amount
      /\ payments'[p].released_amount = payments[p].released_amount
  BY <1>2, <1>3 DEF Payment, Statuses
<1>5. Exists(p)' /\ ~Closed(p)' /\ ~Closed(p)
  BY <1>1, <1>4, ContractAssumption DEF Exists, Closed, Is
<1>6. Left'[p] = Left[p] /\ Phase'[p] = Phase[p]
  BY <1>1, <1>4, <1>5 DEF Left, Phase, remaining_amount
<1>7. Left' = Left /\ Phase' = Phase
  <2>1. /\ Left = [q \in PaymentIds |-> Left[q]]
        /\ Phase = [q \in PaymentIds |-> Phase[q]]
    BY DEF Left, Phase
  <2> QED BY <1>3, <1>6, <2>1, LocalEffect
<1> QED BY <1>7 DEF dispute

\* Each payout is the promise's payout.
LEMMA PaysOutRefines ==
    ASSUME IInv, NEW p \in PaymentIds, NEW party \in {"merchant", "customer"},
           NEW k \in Nat, NEW status \in Statuses, PaysOut(p, party, k, status)
    PROVE  Promise!PayMerchant(p) \/ Promise!Return(p)
<1> DEFINE rest == remaining_amount(p)
<1>1. /\ payments[p] \in Payment /\ payments'[p] \in Payment
      /\ payments'[p].released_amount = payments[p].released_amount + k
      /\ payments'[p].amount = payments[p].amount /\ payments'[p].status = status
      /\ paid' = [paid EXCEPT ![p] = [paid[p] EXCEPT ![party] = paid[p][party] + k]]
      /\ \A q \in PaymentIds : q # p => payments'[q] = payments[q]
  BY PaysOutEffect, ReleasedType
<1>2. /\ Exists(p) /\ ~Closed(p) /\ k > 0 /\ k <= rest /\ rest \in Nat
      /\ status \in {"Released", "Expired"} <=> k = rest
      /\ party = "customer" <=> status = "Expired"
  BY RemainingType DEF PaysOut
<1>3. Exists(p)' /\ (Closed(p)' <=> status \in {"Released", "Expired"})
  BY <1>1, ContractAssumption DEF Exists, Closed, Is
<1>4. Left[p] = rest /\ Left'[p] = rest - k
  BY <1>1, <1>2, <1>3 DEF Left, remaining_amount, Payment
<1>5. Phase[p] = "open" /\ Phase'[p] = IF k = rest THEN "closed" ELSE "open"
  BY <1>2, <1>3 DEF Phase
<1>6. /\ Left' = [Left EXCEPT ![p] = Left'[p]]
      /\ Phase' = [Phase EXCEPT ![p] = Phase'[p]]
  BY <1>1, LocalEffect
<1> HIDE DEF rest
<1>7. CASE party = "merchant"
  <2>1. Left'[p] \in 0 .. (Left[p] - 1) /\ k = Left[p] - Left'[p]
    BY <1>2, <1>4
  <2>2. paid' = [paid EXCEPT ![p].merchant = paid[p].merchant + (Left[p] - Left'[p])]
    BY <1>1, <1>7, <2>1
  <2>3. Phase' = [Phase EXCEPT ![p] = IF Left'[p] = 0 THEN "closed" ELSE "open"]
    BY <1>2, <1>4, <1>5, <1>6
  <2> QED BY <1>5, <1>6, <2>1, <2>2, <2>3 DEF Promise!PayMerchant
<1>8. CASE party = "customer"
  <2>1. k = rest /\ Left'[p] = 0 /\ Phase'[p] = "closed"
    BY <1>2, <1>4, <1>5, <1>8
  <2>2. paid' = [paid EXCEPT ![p].customer = paid[p].customer + Left[p]]
    BY <1>1, <1>4, <1>8, <2>1
  <2> QED BY <1>5, <1>6, <2>1, <2>2 DEF Promise!Return
<1> QED BY <1>7, <1>8

\* Every step is a step of the promise or a stutter.
LEMMA NextRefines == IInv /\ [Next]_vars => [Promise!Next]_(Promise!vars)
<1> SUFFICES ASSUME IInv, [Next]_vars PROVE [Promise!Next]_(Promise!vars)
  OBVIOUS
<1>1. ASSUME UNCHANGED <<payments, paid>> PROVE UNCHANGED Promise!vars
  BY <1>1 DEF Promise!vars, Left, Phase, Closed, Is, Exists, remaining_amount
<1>2. ASSUME NEW p \in PaymentIds, NEW caller, dispute(caller, p)
      PROVE  UNCHANGED Promise!vars
  BY <1>2, DisputeRefines DEF Promise!vars
<1>3. ASSUME NEW p \in PaymentIds, Promise!Lock(p) \/ Promise!PayMerchant(p) \/ Promise!Return(p)
      PROVE  Promise!Next
  BY <1>3 DEF Promise!Next
<1> QED BY <1>1, <1>2, <1>3, StepKinds, DepositRefines, PaysOutRefines

\* The contract keeps the promise of EscrowPromise.
THEOREM RefinesPromise == Spec => KeepsPromise
BY InitRefines, NextRefines, Invariance, PTL DEF Spec, KeepsPromise, Promise!Spec
================================================================================
