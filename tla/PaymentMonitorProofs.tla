-------------------------- MODULE PaymentMonitorProofs --------------------------
(***************************************************************************)
(* Theorems about payment rows under the scans of the monitor and the      *)
(* refunds, for any payments, transactions, instances and bounds.          *)
(***************************************************************************)
EXTENDS PaymentMonitor, TLAPS

--------------------------------------------------------------------------------
(* Types                                                                   *)

\* Writing one row keeps the table well typed, whatever the row was.
LEMMA SaveRowType ==
  ASSUME payments \in [Payments -> Row \cup {NoRow}],
         NEW p, NEW s \in PaymentStatus, NEW t \in 0 .. MaxTxs, SaveRow(p, s, t)
  PROVE  payments' \in [Payments -> Row \cup {NoRow}]
  <1>1. [status |-> s, txHash |-> t] \in Row
    BY DEF Row
  <1> QED
    BY <1>1 DEF SaveRow

\* A step of a scan keeps the types.
LEMMA ScanStepType ==
  ASSUME TypeOK, NEW m \in Instances, ScanStep(m)
  PROVE  TypeOK'
  <1> USE MonitorAssumption DEF MonitorAssumption
  <1>0. /\ scan \in [Instances -> Scan] /\ scan[m] \in Scan
        /\ cursor \in [Instances -> 0 .. MaxTxs] /\ cursor[m] \in 0 .. MaxTxs
        /\ Len(horizon) \in Nat /\ Len(horizon) <= MaxTxs
        /\ IdleScan \in Scan
    BY DEF TypeOK, Scan, IdleScan
  <1>1. CASE ScanFetch(m)
    <2> DEFINE last == IF cursor[m] + PageLimit < Len(horizon)
                       THEN cursor[m] + PageLimit ELSE Len(horizon)
               r == [IdleScan EXCEPT !.pc = "txs", !.upto = last]
    <2>1. last \in 0 .. MaxTxs
      BY <1>0
    <2>2. r \in Scan
      BY <2>1, <1>0 DEF Scan
    <2>3. scan' = [scan EXCEPT ![m] = r]
      BY <1>1 DEF ScanFetch
    <2>4. scan' \in [Instances -> Scan]
      BY <1>0, <2>2, <2>3
    <2> QED
      BY <1>1, <2>4 DEF ScanFetch, TypeOK, requestVars
  <1>2. CASE ScanTx(m)
    <2>0. \/ scan' = scan
          \/ \E p \in Payments :
                 scan' = [scan EXCEPT ![m] = [scan[m] EXCEPT !.pc = "verify", !.payment = p]]
      BY <1>2, ZenonT(60) DEF ScanTx, PendingWithMemo
    <2>a. \A p \in Payments : [scan[m] EXCEPT !.pc = "verify", !.payment = p] \in Scan
      BY <1>0 DEF Scan
    <2>1. scan' \in [Instances -> Scan]
      BY <1>0, <2>0, <2>a
    <2>b. cursor[m] + 1 \in 0 .. MaxTxs
      BY <1>0, <1>2 DEF ScanTx, Scan
    <2>2. cursor' \in [Instances -> 0 .. MaxTxs]
      BY <1>0, <1>2, <2>b DEF ScanTx
    <2> QED
      BY <1>2, <2>1, <2>2 DEF ScanTx, TypeOK, requestVars
  <1>3. CASE VerifyPayment(m)
    <2>0. \/ scan' = [scan EXCEPT ![m] = [scan[m] EXCEPT !.pc = "invoke"]]
          \/ scan' = [scan EXCEPT ![m] = [scan[m] EXCEPT !.pc = "txs", !.payment = NoRow]]
      BY <1>3 DEF VerifyPayment, GoTo, NextTx
    <2>a. /\ [scan[m] EXCEPT !.pc = "invoke"] \in Scan
          /\ [scan[m] EXCEPT !.pc = "txs", !.payment = NoRow] \in Scan
      BY <1>0 DEF Scan
    <2>1. scan' \in [Instances -> Scan]
      BY <1>0, <2>0, <2>a
    <2>2. failures' \in 0 .. MaxFailures
      BY <1>3 DEF VerifyPayment, Throws, TypeOK
    <2> QED
      BY <1>3, <2>1, <2>2 DEF VerifyPayment, TypeOK, requestVars
  <1>4. CASE InvokeConfirm(m)
    <2>1. scan' \in [Instances -> Scan]
      BY <1>0, <1>4 DEF InvokeConfirm, GoTo, TypeOK, Scan
    <2> QED
      BY <1>4, <2>1 DEF InvokeConfirm, TypeOK, requestVars
  <1>5. CASE SaveConfirmed(m)
    <2>1. scan' \in [Instances -> Scan]
      BY <1>0, <1>5 DEF SaveConfirmed, GoTo, TypeOK, Scan
    <2>2. payments' \in [Payments -> Row \cup {NoRow}]
      BY <1>0, <1>5, SaveRowType DEF SaveConfirmed, TypeOK, PaymentStatus
    <2> QED
      BY <1>5, <2>1, <2>2 DEF SaveConfirmed, TypeOK, requestVars
  <1>6. CASE DispatchConfirmed(m)
    <2>1. scan' \in [Instances -> Scan]
      BY <1>0, <1>6 DEF DispatchConfirmed, NextTx, TypeOK, Scan
    <2>2. confirmed' \in [Payments -> Nat]
      <3> DEFINE q == scan[m].payment
      <3>1. confirmed \in [Payments -> Nat]
        BY DEF TypeOK
      <3>2. confirmed' = [confirmed EXCEPT ![q] = confirmed[q] + 1]
        BY <1>6 DEF DispatchConfirmed
      <3> HIDE DEF q
      <3>3. confirmed' = [p \in Payments |-> IF p = q THEN confirmed[p] + 1 ELSE confirmed[p]]
        BY <3>1, <3>2
      <3> QED
        BY <3>1, <3>3
    <2>3. entity' \in [Settleable -> Entity \cup {NoRow}]
      <3>1. PICK e : e = [linked |-> FALSE, txHash |-> cursor[m]]
        OBVIOUS
      <3>2. e \in Entity
        BY <1>0, <3>1 DEF Entity
      <3>3. entity' = [p \in Settleable |-> IF p = scan[m].payment THEN e ELSE entity[p]]
        BY <1>6, <3>1 DEF DispatchConfirmed
      <3> QED
        BY <3>2, <3>3 DEF TypeOK
    <2> QED
      BY <1>6, <2>1, <2>2, <2>3 DEF DispatchConfirmed, TypeOK
  <1>7. CASE CatchConfirm(m)
    <2>1. scan' \in [Instances -> Scan]
      BY <1>0, <1>7 DEF CatchConfirm, NextTx, TypeOK, Scan
    <2>2. failures' \in 0 .. MaxFailures
      BY <1>7 DEF CatchConfirm, Throws, TypeOK
    <2> QED
      BY <1>7, <2>1, <2>2 DEF CatchConfirm, TypeOK, requestVars
  <1>8. CASE ExpireFind(m)
    <2>1. scan' \in [Instances -> Scan]
      BY <1>0, <1>8 DEF ExpireFind, PendingAndLate, TypeOK, Scan
    <2> QED
      BY <1>8, <2>1 DEF ExpireFind, TypeOK, requestVars
  <1>9. CASE InvokeExpire(m)
    <2>0. PICK p \in scan[m].expired :
             scan' = [scan EXCEPT ![m] = [scan[m] EXCEPT !.pc = "saveExpired", !.payment = p]]
      BY <1>9 DEF InvokeExpire
    <2>1. scan' \in [Instances -> Scan]
      BY <1>0, <2>0 DEF Scan
    <2> QED
      BY <1>9, <2>1 DEF InvokeExpire, TypeOK, requestVars
  <1>10. CASE SaveExpired(m)
    <2>1. scan' \in [Instances -> Scan]
      BY <1>0, <1>10 DEF SaveExpired, Scan
    <2>2. payments' \in [Payments -> Row \cup {NoRow}]
      <3>1. SaveRow(scan[m].payment, "expired", 0)
        BY <1>10 DEF SaveExpired
      <3>2. "expired" \in PaymentStatus /\ 0 \in 0 .. MaxTxs
        BY DEF PaymentStatus
      <3>3. payments \in [Payments -> Row \cup {NoRow}]
        BY DEF TypeOK
      <3> QED
        BY <3>1, <3>2, <3>3, SaveRowType
    <2> QED
      BY <1>10, <2>1, <2>2 DEF SaveExpired, TypeOK, requestVars
  <1>11. CASE ScanEnd(m)
    BY <1>0, <1>11 DEF ScanEnd, TypeOK, requestVars
  <1>12. CASE ScanThrows(m)
    <2>1. failures' \in 0 .. MaxFailures
      BY <1>12 DEF ScanThrows, Throws, TypeOK
    <2> QED
      BY <1>0, <1>12, <2>1 DEF ScanThrows, TypeOK, requestVars
  <1> QED
    BY <1>1, <1>2, <1>3, <1>4, <1>5, <1>6, <1>7, <1>8, <1>9, <1>10, <1>11, <1>12 DEF ScanStep

\* A step of a refund keeps the types.
LEMMA RefundStepType ==
  ASSUME TypeOK, NEW h \in Handlers, RefundStep(h)
  PROVE  TypeOK'
  <1> USE MonitorAssumption DEF MonitorAssumption
  <1>0. refunds \in [Handlers -> Refund] /\ refunds[h] \in Refund /\ IdleRefund \in Refund
    BY DEF TypeOK, Refund, IdleRefund
  <1>1. CASE \E p \in Payments : RefundLoad(h, p)
    <2> PICK p \in Payments : RefundLoad(h, p)
      BY <1>1
    <2>1. payments[p] \in Row
      BY DEF RefundLoad, HasStatus, Exists, TypeOK
    <2>2. refunds' \in [Handlers -> Refund]
      BY <2>1 DEF RefundLoad, TypeOK, Refund, Row
    <2> QED
      BY <2>2 DEF RefundLoad, TypeOK, monitorVars, serviceVars
  <1>2. CASE RefundSend(h)
    <2>a. \/ refunds' = [refunds EXCEPT ![h] = [refunds[h] EXCEPT !.pc = "save"]]
          \/ refunds' = [refunds EXCEPT ![h] = IdleRefund]
      BY <1>2 DEF RefundSend
    <2>b. refunds' \in [Handlers -> Refund]
      BY <1>0, <2>a DEF Refund
    <2>1. failures' \in 0 .. MaxFailures
      BY <1>2 DEF RefundSend, Throws, TypeOK
    <2>2. sent' \in [Payments -> Nat]
      <3> DEFINE q == refunds[h].payment
      <3>1. sent \in [Payments -> Nat]
        BY DEF TypeOK
      <3>2. sent' = [sent EXCEPT ![q] = sent[q] + 1]
        BY <1>2 DEF RefundSend
      <3> HIDE DEF q
      <3>3. sent' = [p \in Payments |-> IF p = q THEN sent[p] + 1 ELSE sent[p]]
        BY <3>1, <3>2
      <3> QED
        BY <3>1, <3>3
    <2> QED
      BY <1>2, <2>1, <2>2, <2>b DEF RefundSend, TypeOK, monitorVars, serviceVars
  <1>3. CASE RefundSave(h)
    <2>1. refunds' \in [Handlers -> Refund]
      BY <1>0, <1>3 DEF RefundSave, TypeOK
    <2>2. refunds[h].txHash \in 0 .. MaxTxs
      BY <1>0 DEF Refund
    <2>3. payments' \in [Payments -> Row \cup {NoRow}]
      BY <1>3, <2>2, SaveRowType DEF RefundSave, TypeOK, PaymentStatus
    <2> QED
      BY <1>3, <2>1, <2>3 DEF RefundSave, TypeOK, monitorVars, serviceVars
  <1>4. CASE RefundThrows(h)
    <2>1. refunds' \in [Handlers -> Refund] /\ failures' \in 0 .. MaxFailures
      BY <1>0, <1>4 DEF RefundThrows, Throws, TypeOK
    <2> QED
      BY <1>4, <2>1 DEF RefundThrows, TypeOK, monitorVars, serviceVars
  <1> QED
    BY <1>1, <1>2, <1>3, <1>4 DEF RefundStep

\* So does a step of confirmPayment.
LEMMA ConfirmStepType ==
  ASSUME TypeOK, NEW c \in Confirmers, ConfirmStep(c)
  PROVE  TypeOK'
  <1> USE MonitorAssumption DEF MonitorAssumption
  <1>0. confirms \in [Confirmers -> Confirm] /\ confirms[c] \in Confirm /\ DoneConfirm \in Confirm
    BY DEF TypeOK, Confirm, DoneConfirm
  <1>1. CASE \E p \in Confirmable : ConfirmAsk(c, p)
    <2> PICK p \in Payments : ConfirmAsk(c, p)
      BY <1>1
    <2>1. payments[p] \in Row
      BY DEF ConfirmAsk, Exists, TypeOK
    <2>2. PICK k : k = [pc |-> "save", payment |-> p, txHash |-> payments[p].txHash]
      OBVIOUS
    <2>3. k \in Confirm
      BY <2>1, <2>2 DEF Confirm, Row
    <2>4. confirms' = [confirms EXCEPT ![c] = k]
      BY <2>2 DEF ConfirmAsk
    <2>5. confirms' \in [Confirmers -> Confirm]
      BY <1>0, <2>3, <2>4
    <2> QED
      BY <2>5 DEF ConfirmAsk, TypeOK, monitorVars
  <1>2. CASE ConfirmSave(c)
    <2>1. confirms' \in [Confirmers -> Confirm]
      BY <1>0, <1>2 DEF ConfirmSave
    <2>2. confirms[c].txHash \in 0 .. MaxTxs
      BY <1>0 DEF Confirm
    <2>3. PICK a \in {"confirmed", "expired"} : SaveRow(confirms[c].payment, a, confirms[c].txHash)
      BY <1>2 DEF ConfirmSave
    <2>4. a \in PaymentStatus
      BY DEF PaymentStatus
    <2>5. payments' \in [Payments -> Row \cup {NoRow}]
      BY <2>2, <2>3, <2>4, SaveRowType DEF TypeOK
    <2> QED
      BY <1>2, <2>1, <2>5 DEF ConfirmSave, TypeOK, monitorVars
  <1>3. CASE ConfirmThrows(c)
    <2>1. confirms' \in [Confirmers -> Confirm] /\ failures' \in 0 .. MaxFailures
      BY <1>0, <1>3 DEF ConfirmThrows, Throws, TypeOK
    <2> QED
      BY <1>3, <2>1 DEF ConfirmThrows, TypeOK, monitorVars
  <1> QED
    BY <1>1, <1>2, <1>3 DEF ConfirmStep

\* So does a step of the settlement service.
LEMMA SettlementStepType ==
  ASSUME TypeOK, NEW p \in Settleable, SettlementStep(p)
  PROVE  TypeOK'
  <1> USE MonitorAssumption DEF MonitorAssumption
  <1>0. entity \in [Settleable -> Entity \cup {NoRow}] /\ p \in Payments
    BY DEF TypeOK
  <1>1. CASE SettlementLoad(p)
    <2>1. payments[p] \in Row
      BY <1>0, <1>1 DEF SettlementLoad, Exists, TypeOK
    <2>2. PICK b : b = (payments[p].status # "confirmed" \/ (entity[p] # NoRow /\ entity[p].linked))
      OBVIOUS
    <2>3. b \in BOOLEAN
      BY <1>0, <2>2 DEF Entity
    <2>4. PICK e : e = [linked |-> b, txHash |-> payments[p].txHash]
      OBVIOUS
    <2>5. e \in Entity
      BY <2>1, <2>3, <2>4 DEF Entity, Row
    <2>6. entity' = [entity EXCEPT ![p] = e]
      BY <1>1, <2>2, <2>4 DEF SettlementLoad
    <2>7. entity' \in [Settleable -> Entity \cup {NoRow}]
      BY <1>0, <2>5, <2>6
    <2> QED
      BY <1>1, <2>7 DEF SettlementLoad, TypeOK, monitorVars
  <1>2. CASE \E s \in {"settling", "settled", "failed"} : SettlementSave(p, s)
    <2>1. PICK s \in {"settling", "settled", "failed"} : SettlementSave(p, s)
      BY <1>2
    <2>2. entity[p] \in Entity
      BY <1>0, <2>1 DEF SettlementSave
    <2>3. entity[p].txHash \in 0 .. MaxTxs /\ s \in PaymentStatus
      BY <2>2 DEF Entity, PaymentStatus
    <2>4. payments' \in [Payments -> Row \cup {NoRow}]
      BY <2>1, <2>3, SaveRowType DEF SettlementSave, TypeOK
    <2>5. PICK e : e = [entity[p] EXCEPT !.linked = TRUE]
      OBVIOUS
    <2>6. e \in Entity
      BY <2>2, <2>5 DEF Entity
    <2>7. entity' = [entity EXCEPT ![p] = e]
      BY <2>1, <2>5 DEF SettlementSave
    <2>8. entity' \in [Settleable -> Entity \cup {NoRow}]
      BY <1>0, <2>6, <2>7
    <2> QED
      BY <2>1, <2>4, <2>8 DEF SettlementSave, TypeOK, monitorVars
  <1> QED
    BY <1>1, <1>2 DEF SettlementStep

\* New rows are pending, and only rows that did not exist are new.
LEMMA InsertType ==
  ASSUME TypeOK, NEW new, InsertRows(new)
  PROVE  TypeOK'
  <1>1. [status |-> "pending", txHash |-> 0] \in Row
    BY MonitorAssumption DEF Row, PaymentStatus, MonitorAssumption
  <1>2. payments' \in [Payments -> Row \cup {NoRow}]
    BY <1>1 DEF InsertRows, TypeOK
  <1> QED
    BY <1>2 DEF InsertRows, TypeOK, monitorVars, requestVars

\* Every step keeps the types.
LEMMA TypeStep == TypeOK /\ [Next]_vars => TypeOK'
  <1> SUFFICES ASSUME TypeOK, [Next]_vars PROVE TypeOK'
    OBVIOUS
  <1> USE MonitorAssumption DEF MonitorAssumption
  <1>1. ASSUME NEW p \in Payments, create(p) PROVE TypeOK'
    BY <1>1, InsertType DEF create
  <1>2. ASSUME NEW new \in SUBSET Payments, createBatch(new) PROVE TypeOK'
    BY <1>2, InsertType DEF createBatch
  <1>3. ASSUME NEW tx \in TxKinds, CustomerPays(tx) PROVE TypeOK'
    <2>1. horizon' \in Seq(TxKinds) /\ Len(horizon') <= MaxTxs
      BY <1>3 DEF CustomerPays, TypeOK
    <2> QED
      BY <1>3, <2>1 DEF CustomerPays, TypeOK, monitorVars, serviceVars
  <1>4. ASSUME NEW p \in Payments, PassExpiry(p) PROVE TypeOK'
    BY <1>4 DEF PassExpiry, TypeOK, monitorVars, serviceVars
  <1>5. ASSUME NEW m \in Instances, ScanStep(m) PROVE TypeOK'
    BY <1>5, ScanStepType
  <1>6. ASSUME NEW m \in Instances, Restart(m) PROVE TypeOK'
    <2>1. scan' \in [Instances -> Scan] /\ cursor' \in [Instances -> 0 .. MaxTxs]
      BY <1>6 DEF Restart, TypeOK, Scan, IdleScan
    <2>2. restarts' \in 0 .. MaxRestarts
      BY <1>6 DEF Restart, TypeOK
    <2> QED
      BY <1>6, <2>1, <2>2 DEF Restart, TypeOK, requestVars
  <1>7. ASSUME NEW p \in Settleable, SettlementStep(p) PROVE TypeOK'
    BY <1>7, SettlementStepType
  <1>10. ASSUME NEW c \in Confirmers, ConfirmStep(c) PROVE TypeOK'
    BY <1>10, ConfirmStepType
  <1>8. ASSUME NEW h \in Handlers, RefundStep(h) PROVE TypeOK'
    BY <1>8, RefundStepType
  <1>9. CASE UNCHANGED vars
    BY <1>9 DEF vars, TypeOK
  <1> QED
    BY <1>1, <1>2, <1>3, <1>4, <1>5, <1>6, <1>7, <1>8, <1>9, <1>10 DEF Next

\* At the start nothing exists.
LEMMA TypeInitially == Init => TypeOK
  <1> SUFFICES ASSUME Init PROVE TypeOK
    OBVIOUS
  <1> USE MonitorAssumption DEF MonitorAssumption
  <1>1. /\ scan \in [Instances -> Scan] /\ refunds \in [Handlers -> Refund]
        /\ confirms \in [Confirmers -> Confirm] /\ entity \in [Settleable -> Entity \cup {NoRow}]
    BY DEF Init, Scan, Refund, Confirm, IdleScan, IdleRefund, IdleConfirm
  <1>2. horizon \in Seq(TxKinds) /\ Len(horizon) = 0
    BY DEF Init
  <1> QED
    BY <1>1, <1>2 DEF Init, TypeOK

\* Rows, transactions, cursors and requests have their types in every reachable
\* state, and the counters stay within their bounds.
THEOREM TypeCorrect == Spec => []TypeOK
  BY TypeInitially, TypeStep, PTL DEF Spec

--------------------------------------------------------------------------------
(* Refunds                                                                 *)

\* A refund works on a payment it loaded; the row it is about to save, and every
\* row saved as refunded, is of a payment whose transfer the network took.
SentInv ==
    /\ \A h \in Handlers : refunds[h].pc # "idle" => refunds[h].payment \in Payments
    /\ \A h \in Handlers : refunds[h].pc = "save" => sent[refunds[h].payment] > 0
    /\ RefundedWasSent

\* What saving another status than refunded leaves of the rows.
LEMMA SaveOther ==
  ASSUME SentInv, TypeOK, NEW p, NEW s, NEW t, s # "refunded", SaveRow(p, s, t),
         UNCHANGED <<refunds, sent>>
  PROVE  SentInv'
  <1>1. \A q \in Payments : payments'[q] = IF q = p THEN [status |-> s, txHash |-> t]
                                           ELSE payments[q]
    BY DEF SaveRow, TypeOK
  <1>2. \A q \in Payments : HasStatus(q, "refunded")' => HasStatus(q, "refunded")
    BY <1>1 DEF HasStatus, Exists
  <1> QED
    BY <1>2 DEF SentInv, RefundedWasSent

\* Every step keeps it.
LEMMA SentStep == TypeOK /\ SentInv /\ [Next]_vars => SentInv'
  <1> SUFFICES ASSUME TypeOK, SentInv, [Next]_vars PROVE SentInv'
    OBVIOUS
  <1>1. ASSUME UNCHANGED <<payments, refunds, sent>> PROVE SentInv'
    BY <1>1 DEF SentInv, RefundedWasSent, HasStatus, Exists
  <1>2. ASSUME NEW new, InsertRows(new) PROVE SentInv'
    <2>1. \A q \in Payments : HasStatus(q, "refunded")' => HasStatus(q, "refunded")
      BY <1>2 DEF InsertRows, HasStatus, Exists, TypeOK
    <2> QED
      BY <1>2, <2>1 DEF InsertRows, requestVars, SentInv, RefundedWasSent
  <1>3. ASSUME NEW m \in Instances, ScanStep(m) PROVE SentInv'
    <2>1. CASE SaveConfirmed(m)
      BY <2>1, SaveOther DEF SaveConfirmed, requestVars
    <2>2. CASE SaveExpired(m)
      BY <2>2, SaveOther DEF SaveExpired, requestVars
    <2> QED
      BY <1>1, <1>3, <2>1, <2>2
         DEF ScanStep, ScanFetch, ScanTx, VerifyPayment, InvokeConfirm, DispatchConfirmed,
             CatchConfirm, ExpireFind, InvokeExpire, ScanEnd, ScanThrows, requestVars
  <1>4. ASSUME NEW p \in Settleable, SettlementStep(p) PROVE SentInv'
    BY <1>1, <1>4, SaveOther DEF SettlementStep, SettlementLoad, SettlementSave
  <1>5. ASSUME NEW h \in Handlers, RefundStep(h) PROVE SentInv'
    <2>0. refunds \in [Handlers -> Refund] /\ sent \in [Payments -> Nat]
      BY DEF TypeOK
    <2>1. CASE \E p \in Payments : RefundLoad(h, p)
      <3> PICK p \in Payments : RefundLoad(h, p)
        BY <2>1
      <3>1. \A g \in Handlers :
               refunds'[g] = IF g = h THEN [pc |-> "send", payment |-> p,
                                            txHash |-> payments[p].txHash]
                             ELSE refunds[g]
        BY <2>0 DEF RefundLoad
      <3> QED
        BY <3>1 DEF RefundLoad, SentInv, RefundedWasSent, HasStatus, Exists
    <2>2. CASE RefundSend(h)
      <3> DEFINE q == refunds[h].payment
      <3>1. q \in Payments
        BY <2>2 DEF RefundSend, SentInv
      <3>2. \A p \in Payments : sent'[p] = IF p = q THEN sent[p] + 1 ELSE sent[p]
        BY <2>0, <2>2, <3>1 DEF RefundSend
      <3>3. \A p \in Payments : sent'[p] >= sent[p] /\ sent'[q] > 0
        BY <2>0, <3>1, <3>2
      <3>4. \A g \in Handlers : g # h => refunds'[g] = refunds[g]
        BY <2>0, <2>2 DEF RefundSend
      <3>5. /\ refunds'[h].pc = "save" => refunds'[h].payment = q
            /\ refunds'[h].pc \in {"save", "idle"}
        BY <2>0, <2>2 DEF RefundSend, IdleRefund, Refund
      <3>6. payments' = payments
        BY <2>2 DEF RefundSend
      <3> QED
        BY <3>1, <3>2, <3>3, <3>4, <3>5, <3>6, <2>0
           DEF SentInv, RefundedWasSent, HasStatus, Exists
    <2>3. CASE RefundSave(h)
      <3>1. \A p \in Payments : p # refunds[h].payment => payments'[p] = payments[p]
        BY <2>3 DEF RefundSave, SaveRow, TypeOK
      <3>2. sent[refunds[h].payment] > 0 /\ sent' = sent
        BY <2>3 DEF RefundSave, SentInv
      <3>3. \A g \in Handlers : refunds'[g] = IF g = h THEN IdleRefund ELSE refunds[g]
        BY <2>0, <2>3 DEF RefundSave
      <3> QED
        BY <3>1, <3>2, <3>3 DEF SentInv, RefundedWasSent, HasStatus, Exists, IdleRefund
    <2>4. CASE RefundThrows(h)
      <3>1. \A g \in Handlers : refunds'[g] = IF g = h THEN IdleRefund ELSE refunds[g]
        BY <2>0, <2>4 DEF RefundThrows
      <3> QED
        BY <3>1, <2>4 DEF RefundThrows, SentInv, RefundedWasSent, HasStatus, Exists, IdleRefund
    <2> QED
      BY <1>5, <2>1, <2>2, <2>3, <2>4 DEF RefundStep
  <1>6. ASSUME NEW c \in Confirmers, ConfirmStep(c) PROVE SentInv'
    <2>1. CASE ConfirmSave(c)
      BY <2>1, SaveOther DEF ConfirmSave
    <2> QED
      BY <1>1, <1>6, <2>1 DEF ConfirmStep, ConfirmAsk, ConfirmThrows
  <1> QED
    BY <1>1, <1>2, <1>3, <1>4, <1>5, <1>6
       DEF Next, create, createBatch, CustomerPays, PassExpiry, Restart, requestVars, vars

\* A payment is refunded in the table only after the network took the transfer,
\* whatever awaits throw and whatever the scans and the settlement service write.
THEOREM RefundsWereSent == Spec => []RefundedWasSent
  <1>1. Init => SentInv
    BY DEF Init, SentInv, RefundedWasSent, HasStatus, Exists, IdleRefund
  <1>2. SentInv => RefundedWasSent
    BY DEF SentInv
  <1> QED
    BY <1>1, <1>2, SentStep, TypeCorrect, PTL DEF Spec

--------------------------------------------------------------------------------
(* Rows that exist                                                         *)

\* A row that is there stays, and is not made pending again.
Decided == \A p \in Payments : Exists(p) => Exists(p)' /\ (HasStatus(p, "pending")' => HasStatus(p, "pending"))

\* So does every save.
LEMMA SaveDecides ==
  ASSUME TypeOK, NEW p, NEW s \in PaymentStatus \ {"pending"}, NEW t \in 0 .. MaxTxs, SaveRow(p, s, t)
  PROVE  Decided
  <1>1. \A q \in Payments : payments'[q] = IF q = p THEN [status |-> s, txHash |-> t] ELSE payments[q]
    BY DEF SaveRow, TypeOK
  <1>2. [status |-> s, txHash |-> t] # NoRow
    BY MonitorAssumption DEF MonitorAssumption, Row
  <1> QED
    BY <1>1, <1>2 DEF Decided, Exists, HasStatus

\* Every step does.
LEMMA StepDecides == TypeOK /\ [Next]_vars => Decided
  <1> SUFFICES ASSUME TypeOK, [Next]_vars PROVE Decided
    OBVIOUS
  <1>1. CASE UNCHANGED payments
    BY <1>1 DEF Decided, Exists, HasStatus
  <1>2. ASSUME NEW new, InsertRows(new) PROVE Decided
    BY <1>2 DEF InsertRows, Decided, Exists, HasStatus
  <1>3. ASSUME NEW m \in Instances, ScanStep(m) PROVE Decided
    <2>1. cursor[m] \in 0 .. MaxTxs /\ 0 \in 0 .. MaxTxs
      BY MonitorAssumption DEF TypeOK, MonitorAssumption
    <2>2. CASE SaveConfirmed(m)
      BY <2>1, <2>2, SaveDecides DEF SaveConfirmed, PaymentStatus
    <2>3. CASE SaveExpired(m)
      <3>1. SaveRow(scan[m].payment, "expired", 0) /\ "expired" \in PaymentStatus \ {"pending"}
        BY <2>3 DEF SaveExpired, PaymentStatus
      <3> QED
        BY <2>1, <3>1, SaveDecides
    <2> QED
      BY <1>1, <1>3, <2>2, <2>3
         DEF ScanStep, ScanFetch, ScanTx, VerifyPayment, InvokeConfirm, DispatchConfirmed,
             CatchConfirm, ExpireFind, InvokeExpire, ScanEnd, ScanThrows
  <1>4. ASSUME NEW p \in Settleable, SettlementStep(p) PROVE Decided
    <2>1. ASSUME NEW s \in {"settling", "settled", "failed"}, SettlementSave(p, s) PROVE Decided
      <3>1. entity[p].txHash \in 0 .. MaxTxs /\ s \in PaymentStatus \ {"pending"}
        BY <2>1 DEF SettlementSave, TypeOK, Entity, PaymentStatus
      <3> QED
        BY <2>1, <3>1, SaveDecides DEF SettlementSave
    <2> QED
      BY <1>1, <1>4, <2>1 DEF SettlementStep, SettlementLoad
  <1>6. ASSUME NEW c \in Confirmers, ConfirmStep(c) PROVE Decided
    <2>1. CASE ConfirmSave(c)
      <3>1. confirms[c].txHash \in 0 .. MaxTxs
        BY DEF TypeOK, Confirm
      <3>2. PICK a \in {"confirmed", "expired"} : SaveRow(confirms[c].payment, a, confirms[c].txHash)
        BY <2>1 DEF ConfirmSave
      <3>3. a \in PaymentStatus \ {"pending"}
        BY DEF PaymentStatus
      <3> QED
        BY <3>1, <3>2, <3>3, SaveDecides
    <2> QED
      BY <1>1, <1>6, <2>1 DEF ConfirmStep, ConfirmAsk, ConfirmThrows
  <1>5. ASSUME NEW h \in Handlers, RefundStep(h) PROVE Decided
    <2>1. CASE RefundSave(h)
      <3>1. refunds[h].txHash \in 0 .. MaxTxs
        BY DEF TypeOK, Refund
      <3>2. SaveRow(refunds[h].payment, "refunded", refunds[h].txHash) /\ "refunded" \in PaymentStatus \ {"pending"}
        BY <2>1 DEF RefundSave, PaymentStatus
      <3> QED
        BY <3>1, <3>2, SaveDecides
    <2> QED
      BY <1>1, <1>5, <2>1 DEF RefundStep, RefundLoad, RefundSend, RefundThrows
  <1> QED
    BY <1>1, <1>2, <1>3, <1>4, <1>5, <1>6
       DEF Next, create, createBatch, CustomerPays, PassExpiry, Restart, vars

--------------------------------------------------------------------------------
(* Scans that do not overlap                                               *)

\* Nobody was told of a payment that is pending or does not exist; nobody is
\* told twice.
RowFits(p) ==
    /\ payments[p] = NoRow \/ HasStatus(p, "pending") => confirmed[p] = 0
    /\ confirmed[p] <= 1

\* Nobody was told of the payment a scan is about to confirm, and once it is saved
\* the payment is not pending.
ScanFits(r) ==
    r.pc \in {"verify", "invoke", "save", "notify"} =>
        /\ r.payment \in Payments /\ Exists(r.payment) /\ confirmed[r.payment] = 0
        /\ r.pc = "notify" => ~HasStatus(r.payment, "pending")

\* One scan at a time.
OneScan == \A m, n \in Instances : scan[m].pc # "idle" /\ scan[n].pc # "idle" => m = n

ScanInv ==
    /\ OneScan
    /\ \A p \in Payments : RowFits(p)
    /\ \A m \in Instances : ScanFits(scan[m])

\* Whatever others save, no payment becomes pending again, so a scan at rest keeps it.
LEMMA OthersKeep ==
  ASSUME TypeOK, ScanInv, Decided, UNCHANGED confirmed
  PROVE  /\ \A p \in Payments : RowFits(p)'
         /\ \A r : ScanFits(r) => ScanFits(r)'
         /\ scan' = scan => ScanInv'
  <1>1. \A p \in Payments : RowFits(p)'
    BY DEF ScanInv, RowFits, Decided, Exists, HasStatus
  <1>2. \A r : ScanFits(r) => ScanFits(r)'
    BY DEF ScanFits, Decided
  <1> QED
    BY <1>1, <1>2 DEF ScanInv, OneScan

\* A step that moves one scan to a place that fits.
LEMMA ScanMoves ==
  ASSUME TypeOK, ScanInv, Decided, NEW m \in Instances, NEW r,
         scan' = [scan EXCEPT ![m] = r], ScanFits(r)',
         r.pc = "idle" \/ \A n \in Instances \ {m} : scan[n].pc = "idle",
         UNCHANGED confirmed
  PROVE  ScanInv'
  <1>1. \A n \in Instances : scan'[n] = IF n = m THEN r ELSE scan[n]
    BY DEF TypeOK
  <1>2. OneScan'
    BY <1>1 DEF OneScan, ScanInv
  <1>3. \A n \in Instances : ScanFits(scan[n])'
    <2> SUFFICES ASSUME NEW n \in Instances PROVE ScanFits(scan[n])'
      OBVIOUS
    <2>1. CASE n = m
      BY <1>1, <2>1 DEF ScanFits
    <2>2. CASE n # m
      <3>1. ScanFits(scan[n]) /\ scan'[n] = scan[n]
        BY <1>1, <2>2 DEF ScanInv
      <3>2. PICK q : q = scan[n]
        OBVIOUS
      <3>3. ScanFits(q)'
        BY <3>1, <3>2, OthersKeep
      <3> QED
        BY <3>1, <3>2, <3>3 DEF ScanFits
    <2> QED
      BY <2>1, <2>2
  <1> QED
    BY <1>2, <1>3, OthersKeep DEF ScanInv

\* Every step of the only scan keeps the invariant.
LEMMA ScanStepKeeps ==
  ASSUME ~ScansOverlap, TypeOK, ScanInv, Decided, NEW m \in Instances, ScanStep(m)
  PROVE  ScanInv'
  <1> USE MonitorAssumption DEF MonitorAssumption
  <1>0. /\ scan \in [Instances -> Scan] /\ scan[m] \in Scan /\ confirmed \in [Payments -> Nat]
    BY DEF TypeOK
  <1>f. ScanFits(scan[m])
    BY DEF ScanInv
  <1>a. scan[m].pc # "idle" => \A n \in Instances \ {m} : scan[n].pc = "idle"
    BY DEF ScanInv, OneScan
  <1>t. ASSUME NEW r, scan' = [scan EXCEPT ![m] = r], confirmed' = confirmed,
               r.pc \in {"idle", "txs", "expire", "saveExpired"},
               r.pc = "idle" \/ \A n \in Instances \ {m} : scan[n].pc = "idle"
        PROVE  ScanInv'
    <2>1. ScanFits(r)'
      BY <1>t DEF ScanFits
    <2> QED
      BY <1>t, <2>1, ScanMoves
  <1>1. CASE ScanFetch(m)
    <2> DEFINE r == [IdleScan EXCEPT !.pc = "txs",
                        !.upto = IF cursor[m] + PageLimit < Len(horizon)
                                 THEN cursor[m] + PageLimit ELSE Len(horizon)]
    <2>1. scan' = [scan EXCEPT ![m] = r] /\ confirmed' = confirmed
      BY <1>1 DEF ScanFetch
    <2>2. \A n \in Instances \ {m} : scan[n].pc = "idle"
      BY <1>1 DEF ScanFetch
    <2>3. r.pc = "txs"
      BY DEF IdleScan
    <2> QED
      BY <1>t, <2>1, <2>2, <2>3
  <1>2. CASE ScanTx(m)
    <2>1. confirmed' = confirmed /\ scan[m].pc = "txs"
      BY <1>2 DEF ScanTx
    <2>2. CASE scan' = scan
      BY <2>1, <2>2, OthersKeep
    <2>3. ASSUME NEW p \in Payments, HasStatus(p, "pending"),
                 scan' = [scan EXCEPT ![m] = [scan[m] EXCEPT !.pc = "verify", !.payment = p]]
          PROVE  ScanInv'
      <3>1. PICK r : r = [scan[m] EXCEPT !.pc = "verify", !.payment = p]
        OBVIOUS
      <3>2. r.pc = "verify" /\ r.payment = p
        BY <1>0, <3>1 DEF Scan
      <3>3. Exists(p) /\ confirmed[p] = 0
        BY <2>3 DEF HasStatus, ScanInv, RowFits
      <3>4. ScanFits(r)
        BY <3>2, <3>3 DEF ScanFits
      <3>5. ScanFits(r)'
        BY <2>1, <3>4, OthersKeep
      <3>6. scan' = [scan EXCEPT ![m] = r]
        BY <2>3, <3>1
      <3> QED
        BY <1>a, <2>1, <3>5, <3>6, ScanMoves
    <2> QED
      BY <1>2, <2>2, <2>3, ZenonT(30) DEF ScanTx, PendingWithMemo
  <1>3. ASSUME NEW c \in {"invoke", "save"}, GoTo(m, c), scan[m].pc \in {"verify", "invoke"},
               confirmed' = confirmed
        PROVE  ScanInv'
    <2>1. PICK r : r = [scan[m] EXCEPT !.pc = c]
      OBVIOUS
    <2>2. r.pc = c /\ r.payment = scan[m].payment
      BY <1>0, <2>1 DEF Scan
    <2>3. scan' = [scan EXCEPT ![m] = r]
      BY <1>3, <2>1 DEF GoTo
    <2>4. ScanFits(r)
      BY <1>3, <1>f, <2>2 DEF ScanFits
    <2>5. ScanFits(r)'
      BY <1>3, <2>4, OthersKeep
    <2> QED
      BY <1>3, <1>a, <2>3, <2>5, ScanMoves
  <1>4. ASSUME NextTx(m), scan[m].pc # "idle", confirmed' = confirmed
        PROVE  ScanInv'
    <2>1. PICK r : r = [scan[m] EXCEPT !.pc = "txs", !.payment = NoRow]
      OBVIOUS
    <2>2. r.pc = "txs"
      BY <1>0, <2>1 DEF Scan
    <2>3. scan' = [scan EXCEPT ![m] = r]
      BY <1>4, <2>1 DEF NextTx
    <2> QED
      BY <1>4, <1>a, <1>t, <2>2, <2>3
  <1>5. CASE SaveConfirmed(m)
    <2>1. PICK p : p = scan[m].payment
      OBVIOUS
    <2>2. p \in Payments /\ Exists(p) /\ confirmed[p] = 0 /\ scan[m].pc = "save"
      BY <1>5, <1>f, <2>1 DEF SaveConfirmed, ScanFits
    <2>3. PICK r : r = [scan[m] EXCEPT !.pc = "notify"]
      OBVIOUS
    <2>4. r.pc = "notify" /\ r.payment = p
      BY <1>0, <2>1, <2>3 DEF Scan
    <2>5. /\ SaveRow(p, "confirmed", cursor[m]) /\ scan' = [scan EXCEPT ![m] = r]
          /\ confirmed' = confirmed
      BY <1>5, <2>1, <2>3 DEF SaveConfirmed, GoTo
    <2>6. Exists(p)' /\ ~HasStatus(p, "pending")'
      <3>1. payments'[p].status = "confirmed"
        BY <2>2, <2>5 DEF SaveRow, TypeOK
      <3> QED
        BY <2>2, <3>1 DEF Decided, HasStatus
    <2>7. ScanFits(r)'
      BY <2>2, <2>4, <2>5, <2>6 DEF ScanFits
    <2> QED
      BY <1>a, <2>2, <2>5, <2>7, ScanMoves
  <1>6. CASE DispatchConfirmed(m)
    <2>1. PICK p : p = scan[m].payment
      OBVIOUS
    <2>2. /\ p \in Payments /\ Exists(p) /\ ~HasStatus(p, "pending") /\ confirmed[p] = 0
          /\ scan[m].pc = "notify"
      BY <1>6, <1>f, <2>1 DEF DispatchConfirmed, ScanFits
    <2>3. PICK r : r = [scan[m] EXCEPT !.pc = "txs", !.payment = NoRow]
      OBVIOUS
    <2>4. r.pc = "txs"
      BY <1>0, <2>3 DEF Scan
    <2>5. /\ confirmed' = [confirmed EXCEPT ![p] = @ + 1] /\ scan' = [scan EXCEPT ![m] = r]
          /\ payments' = payments
      BY <1>6, <2>1, <2>3 DEF DispatchConfirmed, NextTx
    <2>6. \A n \in Instances : scan'[n] = IF n = m THEN r ELSE scan[n]
      BY <1>0, <2>5
    <2>7. \A q \in Payments : confirmed'[q] = IF q = p THEN 1 ELSE confirmed[q]
      BY <1>0, <2>2, <2>5
    <2>8. OneScan'
      BY <1>a, <2>2, <2>6 DEF OneScan
    <2>9. \A n \in Instances : ScanFits(scan[n])'
      BY <1>a, <2>2, <2>4, <2>6 DEF ScanFits
    <2>10. \A q \in Payments : RowFits(q)'
      BY <2>2, <2>5, <2>7 DEF ScanInv, RowFits, HasStatus, Exists
    <2> QED
      BY <2>8, <2>9, <2>10 DEF ScanInv
  <1>7. CASE ExpireFind(m)
    <2>1. PICK r : r = [scan[m] EXCEPT !.pc = "expire", !.expired = PendingAndLate]
      OBVIOUS
    <2>2. r.pc = "expire"
      BY <1>0, <2>1 DEF Scan
    <2>3. scan' = [scan EXCEPT ![m] = r] /\ scan[m].pc = "txs" /\ confirmed' = confirmed
      BY <1>7, <2>1 DEF ExpireFind
    <2> QED
      BY <1>a, <1>t, <2>2, <2>3
  <1>8. CASE InvokeExpire(m)
    <2>1. PICK p \in scan[m].expired :
             scan' = [scan EXCEPT ![m] = [scan[m] EXCEPT !.pc = "saveExpired", !.payment = p]]
      BY <1>8 DEF InvokeExpire
    <2>2. PICK r : r = [scan[m] EXCEPT !.pc = "saveExpired", !.payment = p]
      OBVIOUS
    <2>3. r.pc = "saveExpired"
      BY <1>0, <2>2 DEF Scan
    <2>4. scan' = [scan EXCEPT ![m] = r] /\ scan[m].pc = "expire" /\ confirmed' = confirmed
      BY <1>8, <2>1, <2>2 DEF InvokeExpire
    <2> QED
      BY <1>a, <1>t, <2>3, <2>4
  <1>9. CASE SaveExpired(m)
    <2>1. PICK r : r = [scan[m] EXCEPT !.pc = "expire", !.payment = NoRow,
                                       !.expired = @ \ {scan[m].payment}]
      OBVIOUS
    <2>2. r.pc = "expire"
      BY <1>0, <2>1 DEF Scan
    <2>3. scan' = [scan EXCEPT ![m] = r] /\ scan[m].pc = "saveExpired" /\ confirmed' = confirmed
      BY <1>9, <2>1 DEF SaveExpired
    <2> QED
      BY <1>a, <1>t, <2>2, <2>3
  <1>10. CASE ScanEnd(m) \/ ScanThrows(m)
    <2>1. scan' = [scan EXCEPT ![m] = IdleScan] /\ confirmed' = confirmed
      BY <1>10 DEF ScanEnd, ScanThrows
    <2>2. IdleScan.pc = "idle"
      BY DEF IdleScan
    <2> QED
      BY <1>t, <2>1, <2>2
  <1>11. CASE VerifyPayment(m)
    BY <1>11, <1>3, <1>4 DEF VerifyPayment
  <1>12. CASE InvokeConfirm(m)
    BY <1>12, <1>3 DEF InvokeConfirm
  <1>13. CASE CatchConfirm(m)
    BY <1>13, <1>4 DEF CatchConfirm
  <1> QED
    BY <1>1, <1>2, <1>5, <1>6, <1>7, <1>8, <1>9, <1>10, <1>11, <1>12, <1>13 DEF ScanStep

\* Every step keeps the invariant of the scans.
LEMMA ScanInvStep ==
  ASSUME ~ScansOverlap
  PROVE  TypeOK /\ ScanInv /\ [Next]_vars => ScanInv'
  <1> SUFFICES ASSUME TypeOK, ScanInv, [Next]_vars PROVE ScanInv'
    OBVIOUS
  <1>d. Decided
    BY StepDecides
  <1>1. ASSUME UNCHANGED <<scan, confirmed>> PROVE ScanInv'
    BY <1>1, <1>d, OthersKeep
  <1>2. ASSUME NEW m \in Instances, ScanStep(m) PROVE ScanInv'
    BY <1>2, <1>d, ScanStepKeeps
  <1>3. ASSUME NEW m \in Instances, Restart(m) PROVE ScanInv'
    <2>1. ScanFits(IdleScan)' /\ IdleScan.pc = "idle"
      BY DEF ScanFits, IdleScan
    <2> QED
      BY <1>3, <1>d, <2>1, ScanMoves DEF Restart
  <1>4. ASSUME NEW h \in Handlers, RefundStep(h) PROVE UNCHANGED <<scan, confirmed>>
    BY <1>4 DEF RefundStep, RefundLoad, RefundSend, RefundSave, RefundThrows, monitorVars
  <1>5. ASSUME NEW p \in Settleable, SettlementStep(p) PROVE UNCHANGED <<scan, confirmed>>
    BY <1>5 DEF SettlementStep, SettlementLoad, SettlementSave, monitorVars
  <1>6. ASSUME NEW c \in Confirmers, ConfirmStep(c) PROVE UNCHANGED <<scan, confirmed>>
    BY <1>6 DEF ConfirmStep, ConfirmAsk, ConfirmSave, ConfirmThrows, monitorVars
  <1> QED
    BY <1>1, <1>2, <1>3, <1>4, <1>5, <1>6
       DEF Next, create, createBatch, InsertRows, CustomerPays, PassExpiry, monitorVars, vars

\* It holds at first.
LEMMA ScanInitially == Init => ScanInv
  BY DEF Init, ScanInv, OneScan, RowFits, ScanFits, HasStatus, Exists, IdleScan

\* As long as a scan ends before the next one begins, a merchant is told at most
\* once that a payment is confirmed, whatever confirmPayment, refunds and the
\* settlement service save meanwhile: a restart forgets the cursor, but the row
\* the first pass saved is no longer pending.
THEOREM ConfirmsOnce == ASSUME ~ScansOverlap PROVE Spec => []ConfirmedOnce
  <1>1. ScanInv => ConfirmedOnce
    BY DEF ScanInv, RowFits, ConfirmedOnce
  <1> QED
    BY <1>1, ScanInitially, ScanInvStep, TypeCorrect, PTL DEF Spec

--------------------------------------------------------------------------------
(* What was decided                                                        *)

\* A scan at r with its cursor at c has nothing that undoes p with transaction t.
ScanClear(r, c, p, t) == p \notin r.expired /\ (r.payment = p => r.pc = "notify" /\ c = t)

ScansClear(p, t) == \A m \in Instances : ScanClear(scan[m], cursor[m], p, t)
RefundsClear(p, t) == \A h \in Handlers : refunds[h].payment = p => refunds[h].txHash = t
ConfirmsClear(p, t) == \A c \in Confirmers : confirms[c].payment = p => confirms[c].txHash = t
EntityClear(p, t) == p \in Settleable /\ entity[p] # NoRow => entity[p].txHash = t

RowDecided(p, t) == Exists(p) /\ payments[p].status # "pending" /\ payments[p].txHash = t

\* DecidedForGood, with the transaction named.
ForGood(p, t) ==
    RowDecided(p, t) /\ ScansClear(p, t) /\ RefundsClear(p, t) /\ ConfirmsClear(p, t)
    /\ EntityClear(p, t)

LEMMA GoodIsClear ==
  \A p \in Payments : \A t : ForGood(p, t) <=> DecidedForGood(p) /\ payments[p].txHash = t
  BY DEF ForGood, DecidedForGood, HeldFromBefore, RowDecided, ScansClear, ScanClear, RefundsClear,
         ConfirmsClear, EntityClear

\* What DecidedStays allows of the row.
RowStays(p, t) ==
    /\ RowDecided(p, t)'
    /\ \/ payments'[p].status \in {payments[p].status, "settling", "settled", "failed", "refunded"}
       \/ confirms' # confirms

\* A save of what was loaded with the transaction the row has.
LEMMA SaveStays ==
  ASSUME TypeOK, NEW p \in Payments, NEW t, RowDecided(p, t),
         NEW q, NEW s \in PaymentStatus \ {"pending"}, NEW u, SaveRow(q, s, u),
         q = p => u = t /\ (s \in {"settling", "settled", "failed", "refunded"} \/ confirms' # confirms)
  PROVE  RowStays(p, t)
  <1>1. payments'[p] = IF p = q THEN [status |-> s, txHash |-> u] ELSE payments[p]
    BY DEF SaveRow, TypeOK
  <1>2. CASE p = q
    <2>1. payments[p] \in Row /\ t \in 0 .. MaxTxs
      BY DEF RowDecided, Exists, TypeOK, Row
    <2>2. [status |-> s, txHash |-> t] # NoRow
      BY <2>1, MonitorAssumption DEF MonitorAssumption, Row
    <2>3. payments'[p] = [status |-> s, txHash |-> t]
      BY <1>1, <1>2
    <2> QED
      BY <1>2, <2>2, <2>3 DEF RowStays, RowDecided, Exists
  <1>3. CASE p # q
    BY <1>1, <1>3 DEF RowStays, RowDecided, Exists
  <1> QED
    BY <1>2, <1>3

\* No step changes a row that is decided for good, other than as it may.
LEMMA RowKept ==
  ASSUME TypeOK, NEW p \in Payments, NEW t, ForGood(p, t), Next
  PROVE  RowStays(p, t)
  <1>0. RowDecided(p, t) /\ ScansClear(p, t) /\ RefundsClear(p, t) /\ ConfirmsClear(p, t)
        /\ EntityClear(p, t)
    BY DEF ForGood
  <1>1. ASSUME payments'[p] = payments[p] PROVE RowStays(p, t)
    BY <1>0, <1>1 DEF RowStays, RowDecided, Exists
  <1>2. ASSUME NEW new, InsertRows(new) PROVE RowStays(p, t)
    BY <1>0, <1>1, <1>2 DEF InsertRows, RowDecided
  <1>3. ASSUME NEW m \in Instances, ScanStep(m) PROVE RowStays(p, t)
    <2>0. ScanClear(scan[m], cursor[m], p, t)
      BY <1>0 DEF ScansClear
    <2>1. ASSUME NEW s, NEW u, SaveRow(scan[m].payment, s, u), scan[m].pc # "notify"
          PROVE  RowStays(p, t)
      <3>1. scan[m].payment # p
        BY <2>0, <2>1 DEF ScanClear
      <3>2. payments'[p] = payments[p]
        BY <2>1, <3>1 DEF SaveRow, TypeOK
      <3> QED
        BY <1>1, <3>2
    <2> QED
      BY <1>1, <1>3, <2>1
         DEF ScanStep, ScanFetch, ScanTx, VerifyPayment, InvokeConfirm, SaveConfirmed,
             DispatchConfirmed, CatchConfirm, ExpireFind, InvokeExpire, SaveExpired, ScanEnd, ScanThrows
  <1>4. ASSUME NEW h \in Handlers, RefundStep(h) PROVE RowStays(p, t)
    <2>1. CASE RefundSave(h)
      <3>1. SaveRow(refunds[h].payment, "refunded", refunds[h].txHash)
        BY <2>1 DEF RefundSave
      <3>2. refunds[h].payment = p => refunds[h].txHash = t
        BY <1>0 DEF RefundsClear
      <3>3. "refunded" \in PaymentStatus \ {"pending"}
        BY DEF PaymentStatus
      <3> QED
        BY <1>0, <3>1, <3>2, <3>3, SaveStays
    <2> QED
      BY <1>1, <1>4, <2>1 DEF RefundStep, RefundLoad, RefundSend, RefundThrows
  <1>5. ASSUME NEW q \in Settleable, SettlementStep(q) PROVE RowStays(p, t)
    <2>1. ASSUME NEW s \in {"settling", "settled", "failed"}, SettlementSave(q, s)
          PROVE  RowStays(p, t)
      <3>1. SaveRow(q, s, entity[q].txHash) /\ entity[q] # NoRow
        BY <2>1 DEF SettlementSave
      <3>2. q = p => entity[q].txHash = t
        BY <1>0, <3>1 DEF EntityClear
      <3>3. s \in PaymentStatus \ {"pending"}
        BY DEF PaymentStatus
      <3> QED
        BY <1>0, <3>1, <3>2, <3>3, SaveStays
    <2> QED
      BY <1>1, <1>5, <2>1 DEF SettlementStep, SettlementLoad
  <1>6. ASSUME NEW c \in Confirmers, ConfirmStep(c) PROVE RowStays(p, t)
    <2>1. CASE ConfirmSave(c)
      <3>1. PICK s \in {"confirmed", "expired"} :
                SaveRow(confirms[c].payment, s, confirms[c].txHash)
        BY <2>1 DEF ConfirmSave
      <3>2. confirms[c].payment = p => confirms[c].txHash = t
        BY <1>0 DEF ConfirmsClear
      <3>3. s \in PaymentStatus \ {"pending"}
        BY DEF PaymentStatus
      <3>4. confirms'[c] = DoneConfirm /\ confirms[c].pc = "save"
        BY <2>1 DEF ConfirmSave, TypeOK
      <3>5. confirms' # confirms
        BY <3>4 DEF DoneConfirm
      <3> QED
        BY <1>0, <3>1, <3>2, <3>3, <3>5, SaveStays
    <2> QED
      BY <1>1, <1>6, <2>1 DEF ConfirmStep, ConfirmAsk, ConfirmThrows
  <1> QED
    BY <1>1, <1>2, <1>3, <1>4, <1>5, <1>6
       DEF Next, create, createBatch, CustomerPays, PassExpiry, Restart

\* A scan does not take up again what is decided: it looks for pending rows only.
LEMMA ScansStayClear ==
  ASSUME TypeOK, NEW p \in Payments, NEW t, RowDecided(p, t), ScansClear(p, t),
         NEW m \in Instances, ScanStep(m) \/ Restart(m)
  PROVE  ScansClear(p, t)'
  <1> USE MonitorAssumption DEF MonitorAssumption
  <1>0. /\ scan \in [Instances -> Scan] /\ scan[m] \in Scan /\ cursor \in [Instances -> 0 .. MaxTxs]
        /\ ScanClear(scan[m], cursor[m], p, t) /\ p # NoRow
    BY DEF TypeOK, ScansClear
  <1>o. \A n \in Instances \ {m} : scan'[n] = scan[n] /\ cursor'[n] = cursor[n]
    BY <1>0
       DEF ScanStep, ScanFetch, ScanTx, VerifyPayment, InvokeConfirm, SaveConfirmed,
           DispatchConfirmed, CatchConfirm, ExpireFind, InvokeExpire, SaveExpired, ScanEnd, ScanThrows,
           GoTo, NextTx, Restart
  <1>r. ASSUME NEW r, scan' = [scan EXCEPT ![m] = r], p \notin r.expired, r.payment # p
        PROVE  ScansClear(p, t)'
    <2>1. scan'[m] = r
      BY <1>0, <1>r
    <2> QED
      BY <1>r, <1>o, <2>1 DEF ScansClear, ScanClear
  <1>1. CASE ScanFetch(m)
    <2>1. PICK u : u = IF cursor[m] + PageLimit < Len(horizon)
                       THEN cursor[m] + PageLimit ELSE Len(horizon)
      OBVIOUS
    <2>2. PICK r : r = [IdleScan EXCEPT !.pc = "txs", !.upto = u]
      OBVIOUS
    <2>3. r.expired = {} /\ r.payment = NoRow
      BY <2>2 DEF IdleScan
    <2>4. scan' = [scan EXCEPT ![m] = r]
      BY <1>1, <2>1, <2>2 DEF ScanFetch
    <2> QED
      BY <1>0, <1>r, <2>3, <2>4
  <1>2. CASE ScanTx(m)
    <2>0. scan[m].payment # p
      BY <1>0, <1>2 DEF ScanTx, ScanClear
    <2>1. CASE scan' = scan
      BY <1>0, <1>o, <2>0, <2>1 DEF ScansClear, ScanClear
    <2>2. ASSUME NEW q \in Payments, HasStatus(q, "pending"),
                 scan' = [scan EXCEPT ![m] = [scan[m] EXCEPT !.pc = "verify", !.payment = q]]
          PROVE  ScansClear(p, t)'
      <3>1. PICK r : r = [scan[m] EXCEPT !.pc = "verify", !.payment = q]
        OBVIOUS
      <3>2. r.payment = q /\ r.expired = scan[m].expired
        BY <1>0, <3>1 DEF Scan
      <3>3. q # p
        BY <2>2 DEF RowDecided, HasStatus
      <3> QED
        BY <1>0, <1>r, <2>2, <3>1, <3>2, <3>3 DEF ScanClear
    <2> QED
      BY <1>2, <2>1, <2>2, ZenonT(30) DEF ScanTx, PendingWithMemo
  <1>3. ASSUME NEW c, GoTo(m, c), scan[m].pc # "notify" PROVE ScansClear(p, t)'
    <2>1. PICK r : r = [scan[m] EXCEPT !.pc = c]
      OBVIOUS
    <2>2. r.payment = scan[m].payment /\ r.expired = scan[m].expired
      BY <1>0, <2>1 DEF Scan
    <2> QED
      BY <1>0, <1>3, <1>r, <2>1, <2>2 DEF GoTo, ScanClear
  <1>4. ASSUME NextTx(m) PROVE ScansClear(p, t)'
    <2>1. PICK r : r = [scan[m] EXCEPT !.pc = "txs", !.payment = NoRow]
      OBVIOUS
    <2>2. r.payment = NoRow /\ r.expired = scan[m].expired
      BY <1>0, <2>1 DEF Scan
    <2> QED
      BY <1>0, <1>4, <1>r, <2>1, <2>2 DEF NextTx, ScanClear
  <1>5. CASE ExpireFind(m)
    <2>1. PICK r : r = [scan[m] EXCEPT !.pc = "expire", !.expired = PendingAndLate]
      OBVIOUS
    <2>2. r.payment = scan[m].payment /\ r.expired = PendingAndLate
      BY <1>0, <2>1 DEF Scan
    <2>3. p \notin PendingAndLate
      BY DEF PendingAndLate, RowDecided, HasStatus
    <2>4. scan[m].payment # p /\ scan' = [scan EXCEPT ![m] = r]
      BY <1>0, <1>5, <2>1 DEF ExpireFind, ScanClear
    <2> QED
      BY <1>r, <2>2, <2>3, <2>4
  <1>6. CASE InvokeExpire(m)
    <2>1. PICK q \in scan[m].expired :
             scan' = [scan EXCEPT ![m] = [scan[m] EXCEPT !.pc = "saveExpired", !.payment = q]]
      BY <1>6 DEF InvokeExpire
    <2>2. PICK r : r = [scan[m] EXCEPT !.pc = "saveExpired", !.payment = q]
      OBVIOUS
    <2>3. r.payment = q /\ r.expired = scan[m].expired
      BY <1>0, <2>2 DEF Scan
    <2> QED
      BY <1>0, <1>r, <2>1, <2>2, <2>3 DEF ScanClear
  <1>7. CASE SaveExpired(m)
    <2>1. PICK r : r = [scan[m] EXCEPT !.pc = "expire", !.payment = NoRow,
                                       !.expired = @ \ {scan[m].payment}]
      OBVIOUS
    <2>2. r.payment = NoRow /\ r.expired \subseteq scan[m].expired
      BY <1>0, <2>1 DEF Scan
    <2>3. scan' = [scan EXCEPT ![m] = r]
      BY <1>7, <2>1 DEF SaveExpired
    <2> QED
      BY <1>0, <1>r, <2>2, <2>3 DEF ScanClear
  <1>8. CASE ScanEnd(m) \/ ScanThrows(m) \/ Restart(m)
    <2>1. scan' = [scan EXCEPT ![m] = IdleScan]
      BY <1>8 DEF ScanEnd, ScanThrows, Restart
    <2>2. IdleScan.expired = {} /\ IdleScan.payment = NoRow
      BY DEF IdleScan
    <2> QED
      BY <1>0, <1>r, <2>1, <2>2
  <1>9. CASE VerifyPayment(m) \/ InvokeConfirm(m) \/ SaveConfirmed(m)
    BY <1>9, <1>3, <1>4 DEF VerifyPayment, InvokeConfirm, SaveConfirmed
  <1>10. CASE DispatchConfirmed(m) \/ CatchConfirm(m)
    BY <1>10, <1>4 DEF DispatchConfirmed, CatchConfirm
  <1> QED
    BY <1>1, <1>2, <1>5, <1>6, <1>7, <1>8, <1>9, <1>10 DEF ScanStep

\* A refund loads the transaction of the row.
LEMMA RefundsStayClear ==
  ASSUME TypeOK, NEW p \in Payments, NEW t, RowDecided(p, t), RefundsClear(p, t),
         NEW h \in Handlers, RefundStep(h)
  PROVE  RefundsClear(p, t)'
  <1>0. /\ refunds \in [Handlers -> Refund] /\ refunds[h] \in Refund /\ p # NoRow
        /\ refunds[h].payment = p => refunds[h].txHash = t
    BY MonitorAssumption DEF TypeOK, RefundsClear, MonitorAssumption
  <1>r. ASSUME NEW r, refunds' = [refunds EXCEPT ![h] = r], r.payment = p => r.txHash = t
        PROVE  RefundsClear(p, t)'
    BY <1>0, <1>r DEF RefundsClear
  <1>1. CASE \E q \in Payments : RefundLoad(h, q)
    <2>1. PICK q \in Payments : RefundLoad(h, q)
      BY <1>1
    <2>2. PICK r : r = [pc |-> "send", payment |-> q, txHash |-> payments[q].txHash]
      OBVIOUS
    <2>3. r.payment = p => r.txHash = t
      BY <2>2 DEF RowDecided
    <2> QED
      BY <1>r, <2>1, <2>2, <2>3 DEF RefundLoad
  <1>2. ASSUME refunds' = [refunds EXCEPT ![h] = IdleRefund] PROVE RefundsClear(p, t)'
    BY <1>0, <1>2, <1>r DEF IdleRefund
  <1>3. ASSUME refunds' = [refunds EXCEPT ![h] = [refunds[h] EXCEPT !.pc = "save"]]
        PROVE  RefundsClear(p, t)'
    <2>1. PICK r : r = [refunds[h] EXCEPT !.pc = "save"]
      OBVIOUS
    <2>2. r.payment = refunds[h].payment /\ r.txHash = refunds[h].txHash
      BY <1>0, <2>1 DEF Refund
    <2> QED
      BY <1>0, <1>3, <1>r, <2>1, <2>2
  <1> QED
    BY <1>1, <1>2, <1>3 DEF RefundStep, RefundSend, RefundSave, RefundThrows

\* So does confirmPayment.
LEMMA ConfirmsStayClear ==
  ASSUME TypeOK, NEW p \in Payments, NEW t, RowDecided(p, t), ConfirmsClear(p, t),
         NEW c \in Confirmers, ConfirmStep(c)
  PROVE  ConfirmsClear(p, t)'
  <1>0. confirms \in [Confirmers -> Confirm] /\ p # NoRow
    BY MonitorAssumption DEF TypeOK, MonitorAssumption
  <1>r. ASSUME NEW r, confirms' = [confirms EXCEPT ![c] = r], r.payment = p => r.txHash = t
        PROVE  ConfirmsClear(p, t)'
    BY <1>0, <1>r DEF ConfirmsClear
  <1>1. CASE \E q \in Confirmable : ConfirmAsk(c, q)
    <2>1. PICK q \in Confirmable : ConfirmAsk(c, q)
      BY <1>1
    <2>2. PICK r : r = [pc |-> "save", payment |-> q, txHash |-> payments[q].txHash]
      OBVIOUS
    <2>3. r.payment = p => r.txHash = t
      BY <2>2 DEF RowDecided
    <2> QED
      BY <1>r, <2>1, <2>2, <2>3 DEF ConfirmAsk
  <1>2. CASE ConfirmSave(c) \/ ConfirmThrows(c)
    <2>1. confirms' = [confirms EXCEPT ![c] = DoneConfirm]
      BY <1>2 DEF ConfirmSave, ConfirmThrows
    <2> QED
      BY <1>0, <1>r, <2>1 DEF DoneConfirm
  <1> QED
    BY <1>1, <1>2 DEF ConfirmStep

\* The settlement service loads the transaction of the row, or gets it from the scan
\* that saved it.
LEMMA EntityStaysClear ==
  ASSUME TypeOK, NEW p \in Payments, NEW t, RowDecided(p, t), ScansClear(p, t), EntityClear(p, t),
         \/ \E m \in Instances : DispatchConfirmed(m)
         \/ \E q \in Settleable : SettlementStep(q)
  PROVE  EntityClear(p, t)'
  <1> SUFFICES ASSUME p \in Settleable, entity'[p] # NoRow PROVE entity'[p].txHash = t
    BY DEF EntityClear
  <1>0. /\ entity \in [Settleable -> Entity \cup {NoRow}]
        /\ entity[p] # NoRow => entity[p].txHash = t
    BY DEF TypeOK, EntityClear
  <1>k. ASSUME entity'[p] = entity[p] PROVE entity'[p].txHash = t
    BY <1>0, <1>k
  <1>1. ASSUME NEW m \in Instances, DispatchConfirmed(m) PROVE entity'[p].txHash = t
    <2>1. scan[m].payment = p => cursor[m] = t
      BY DEF ScansClear, ScanClear
    <2>2. entity'[p] = IF p = scan[m].payment THEN [linked |-> FALSE, txHash |-> cursor[m]]
                       ELSE entity[p]
      BY <1>1 DEF DispatchConfirmed
    <2> QED
      BY <1>k, <2>1, <2>2
  <1>2. ASSUME NEW q \in Settleable, SettlementLoad(q) PROVE entity'[p].txHash = t
    <2>1. PICK b : b = (payments[q].status # "confirmed" \/ (entity[q] # NoRow /\ entity[q].linked))
      OBVIOUS
    <2>2. entity' = [entity EXCEPT ![q] = [linked |-> b, txHash |-> payments[q].txHash]]
      BY <1>2, <2>1 DEF SettlementLoad
    <2>3. CASE q = p
      <3>1. entity'[p] = [linked |-> b, txHash |-> payments[p].txHash]
        BY <1>0, <2>2, <2>3
      <3> QED
        BY <3>1 DEF RowDecided
    <2>4. CASE q # p
      BY <1>k, <1>0, <2>2, <2>4
    <2> QED
      BY <2>3, <2>4
  <1>3. ASSUME NEW q \in Settleable, NEW s, SettlementSave(q, s) PROVE entity'[p].txHash = t
    <2>1. /\ entity' = [entity EXCEPT ![q] = [entity[q] EXCEPT !.linked = TRUE]]
          /\ entity[q] # NoRow
      BY <1>3 DEF SettlementSave
    <2>2. CASE q = p
      <3>1. entity[p] \in Entity /\ entity[p].txHash = t
        BY <1>0, <2>1, <2>2
      <3>2. PICK e : e = [entity[p] EXCEPT !.linked = TRUE]
        OBVIOUS
      <3>3. e.txHash = t
        BY <3>1, <3>2 DEF Entity
      <3>4. entity'[p] = e
        BY <1>0, <2>1, <2>2, <3>2
      <3> QED
        BY <3>3, <3>4
    <2>3. CASE q # p
      BY <1>k, <1>0, <2>1, <2>3
    <2> QED
      BY <2>2, <2>3
  <1> QED
    BY <1>1, <1>2, <1>3 DEF SettlementStep

\* What DecidedStays says of a step.
StaysDecided ==
    \A p \in Payments :
        DecidedForGood(p) =>
            /\ DecidedForGood(p)'
            /\ payments'[p].txHash = payments[p].txHash
            /\ payments'[p].status \in {payments[p].status, "settling", "settled", "failed",
                                       "refunded"}
                   \/ confirms' # confirms

\* It holds of every step.
LEMMA DecidedSteps == TypeOK /\ [Next]_vars => [StaysDecided]_vars
  <1> SUFFICES ASSUME TypeOK, Next, NEW p \in Payments, DecidedForGood(p)
               PROVE  /\ DecidedForGood(p)'
                      /\ payments'[p].txHash = payments[p].txHash
                      /\ payments'[p].status \in {payments[p].status, "settling", "settled",
                                                 "failed", "refunded"}
                             \/ confirms' # confirms
    BY DEF StaysDecided
  <1>t. PICK t : t = payments[p].txHash
    OBVIOUS
  <1>g. ForGood(p, t)
    BY <1>t, GoodIsClear
  <1>0. RowDecided(p, t) /\ ScansClear(p, t) /\ RefundsClear(p, t) /\ ConfirmsClear(p, t)
        /\ EntityClear(p, t)
    BY <1>g DEF ForGood
  <1>1. RowStays(p, t)
    BY <1>g, RowKept
  <1>2. ScansClear(p, t)'
    <2>1. ASSUME UNCHANGED <<scan, cursor>> PROVE ScansClear(p, t)'
      BY <1>0, <2>1 DEF ScansClear
    <2>2. ASSUME NEW m \in Instances, ScanStep(m) \/ Restart(m) PROVE ScansClear(p, t)'
      BY <1>0, <2>2, ScansStayClear
    <2> QED
      BY <2>1, <2>2
         DEF Next, create, createBatch, InsertRows, CustomerPays, PassExpiry, RefundStep, RefundLoad,
             RefundSend, RefundSave, RefundThrows, ConfirmStep, ConfirmAsk, ConfirmSave, ConfirmThrows,
             SettlementStep, SettlementLoad, SettlementSave, monitorVars
  <1>s. ASSUME NEW m \in Instances, ScanStep(m) \/ Restart(m)
        PROVE  UNCHANGED <<refunds, confirms>> /\ (DispatchConfirmed(m) \/ UNCHANGED entity)
    BY <1>s
       DEF ScanStep, ScanFetch, ScanTx, VerifyPayment, InvokeConfirm, SaveConfirmed,
           DispatchConfirmed, CatchConfirm, ExpireFind, InvokeExpire, SaveExpired, ScanEnd, ScanThrows,
           Restart, requestVars
  <1>3. RefundsClear(p, t)'
    <2>1. ASSUME UNCHANGED refunds PROVE RefundsClear(p, t)'
      BY <1>0, <2>1 DEF RefundsClear
    <2>2. ASSUME NEW h \in Handlers, RefundStep(h) PROVE RefundsClear(p, t)'
      BY <1>0, <2>2, RefundsStayClear
    <2> QED
      BY <1>s, <2>1, <2>2
         DEF Next, create, createBatch, InsertRows, CustomerPays, PassExpiry, ConfirmStep, ConfirmAsk,
             ConfirmSave, ConfirmThrows, SettlementStep, SettlementLoad, SettlementSave, requestVars
  <1>4. ConfirmsClear(p, t)'
    <2>1. ASSUME UNCHANGED confirms PROVE ConfirmsClear(p, t)'
      BY <1>0, <2>1 DEF ConfirmsClear
    <2>2. ASSUME NEW c \in Confirmers, ConfirmStep(c) PROVE ConfirmsClear(p, t)'
      BY <1>0, <2>2, ConfirmsStayClear
    <2> QED
      BY <1>s, <2>1, <2>2
         DEF Next, create, createBatch, InsertRows, CustomerPays, PassExpiry, RefundStep, RefundLoad,
             RefundSend, RefundSave, RefundThrows, SettlementStep, SettlementLoad, SettlementSave,
             requestVars, serviceVars
  <1>5. EntityClear(p, t)'
    <2>1. ASSUME UNCHANGED entity PROVE EntityClear(p, t)'
      BY <1>0, <2>1 DEF EntityClear
    <2>2. ASSUME NEW q \in Settleable, SettlementStep(q) PROVE EntityClear(p, t)'
      BY <1>0, <2>2, EntityStaysClear
    <2>3. ASSUME NEW m \in Instances, DispatchConfirmed(m) PROVE EntityClear(p, t)'
      BY <1>0, <2>3, EntityStaysClear
    <2> QED
      BY <1>s, <2>1, <2>2, <2>3
         DEF Next, create, createBatch, InsertRows, CustomerPays, PassExpiry, RefundStep, RefundLoad,
             RefundSend, RefundSave, RefundThrows, ConfirmStep, ConfirmAsk, ConfirmSave, ConfirmThrows,
             requestVars, serviceVars
  <1>6. DecidedForGood(p)' /\ payments'[p].txHash = t
    <2>1. RowDecided(p, t)'
      BY <1>1 DEF RowStays
    <2> QED
      BY <2>1, <1>2, <1>3, <1>4, <1>5
         DEF DecidedForGood, HeldFromBefore, RowDecided, ScansClear, ScanClear, RefundsClear,
             ConfirmsClear, EntityClear
  <1> QED
    BY <1>t, <1>1, <1>6 DEF RowStays

\* Scans may overlap, instances restart and awaits fail: a decided payment is undone
\* only by an entity loaded before the decision, and when the last such entity is
\* saved or dropped its transaction stays, it is not pending again, and none but
\* confirmPayment confirms or expires it once more.
THEOREM DecidedRowsStay == Spec => DecidedStays
  <1>1. Spec => [][StaysDecided]_vars
    BY DecidedSteps, TypeCorrect, PTL DEF Spec
  <1> QED
    BY <1>1, PTL DEF DecidedStays, StaysDecided

--------------------------------------------------------------------------------
(* Paid and expired                                                        *)

\* The transaction at place i pays for p.
PaysFor(i, p) == horizon[i].memo = p /\ horizon[i].pays

\* The scan r, whose cursor is at c, is about to confirm p for that transaction.
Confirming(r, c, p, i) == r.pc \in {"verify", "invoke", "save"} /\ r.payment = p /\ c = i

\* What an instance has read was dealt with: the payment it paid for is no longer pending.
Seen(m) ==
    \A p \in Payments, i \in 1 .. Len(horizon) :
        i <= cursor[m] /\ PaysFor(i, p) =>
            ~HasStatus(p, "pending") \/ Confirming(scan[m], cursor[m], p, i)

KnownPayers ==
    \A i \in 1 .. Len(horizon) : horizon[i].memo \in Payments => Exists(horizon[i].memo)
CursorFits(m) == cursor[m] <= Len(horizon) /\ scan[m].upto <= Len(horizon)

SeenInv ==
    /\ KnownPayers
    /\ \A m \in Instances : CursorFits(m)
    /\ failures = 0 => \A m \in Instances : Seen(m)

\* An instance that reads nothing new, and confirmed nothing, has still dealt with what it read.
LEMMA SeenStays ==
  ASSUME TypeOK, KnownPayers, Decided, NEW m \in Instances, Seen(m), horizon' = horizon,
         cursor'[m] = cursor[m],
         scan'[m] = scan[m] \/ scan[m].pc \notin {"verify", "invoke", "save"}
  PROVE  Seen(m)'
  <1> SUFFICES ASSUME NEW p \in Payments, NEW i \in 1 .. Len(horizon), i <= cursor[m], PaysFor(i, p)
               PROVE  ~HasStatus(p, "pending")' \/ Confirming(scan'[m], cursor[m], p, i)
    BY DEF Seen, PaysFor
  <1>1. Exists(p)
    BY DEF KnownPayers, PaysFor
  <1>2. ~HasStatus(p, "pending") \/ Confirming(scan[m], cursor[m], p, i)
    BY DEF Seen
  <1> QED
    BY <1>1, <1>2 DEF Decided, Confirming

\* A step of one scan, in which nothing failed, deals with what it reads.
LEMMA SeenSteps ==
  ASSUME TypeOK, SeenInv, Decided, failures = 0, failures' = 0, NEW m \in Instances, ScanStep(m)
  PROVE  Seen(m)'
  <1>0. /\ scan \in [Instances -> Scan] /\ scan[m] \in Scan /\ cursor \in [Instances -> 0 .. MaxTxs]
        /\ KnownPayers /\ Seen(m) /\ horizon' = horizon
    BY DEF TypeOK, SeenInv, ScanStep, ScanFetch, ScanTx, VerifyPayment, InvokeConfirm, SaveConfirmed,
           DispatchConfirmed, CatchConfirm, ExpireFind, InvokeExpire, SaveExpired, ScanEnd, ScanThrows,
           requestVars
  <1>n. ~Throws
    BY DEF Throws
  <1>1. CASE \/ ScanFetch(m) \/ DispatchConfirmed(m) \/ ExpireFind(m) \/ InvokeExpire(m) \/ SaveExpired(m)
             \/ ScanEnd(m)
    <2>1. cursor' = cursor /\ scan[m].pc \notin {"verify", "invoke", "save"}
      BY <1>1 DEF ScanFetch, DispatchConfirmed, ExpireFind, InvokeExpire, SaveExpired, ScanEnd
    <2> QED
      BY <1>0, <2>1, SeenStays
  <1>2. CASE ScanTx(m)
    <2>1. PICK c : c = cursor[m] + 1
      OBVIOUS
    <2>2. cursor'[m] = c /\ scan[m].pc = "txs" /\ payments' = payments
      BY <1>0, <1>2, <2>1 DEF ScanTx
    <2>3. ASSUME NEW p \in Payments, PaysFor(c, p), HasStatus(p, "pending")
          PROVE  Confirming(scan'[m], c, p, c)
      <3>1. PendingWithMemo(horizon[c]) = {p}
        BY <2>3 DEF PendingWithMemo, PaysFor
      <3>2. scan' = [scan EXCEPT ![m] = [scan[m] EXCEPT !.pc = "verify", !.payment = p]]
        BY <1>2, <2>1, <3>1 DEF ScanTx
      <3>3. PICK r : r = [scan[m] EXCEPT !.pc = "verify", !.payment = p]
        OBVIOUS
      <3>4. r.pc = "verify" /\ r.payment = p
        BY <1>0, <3>3 DEF Scan
      <3>5. scan'[m] = r
        BY <1>0, <3>2, <3>3
      <3> QED
        BY <3>4, <3>5 DEF Confirming
    <2>4. ASSUME NEW p \in Payments, NEW i \in 1 .. Len(horizon), i <= cursor[m], PaysFor(i, p)
          PROVE  ~HasStatus(p, "pending")
      BY <1>0, <2>2, <2>4 DEF Seen, Confirming
    <2>5. ASSUME NEW p \in Payments, NEW i \in 1 .. Len(horizon), i <= c, PaysFor(i, p)
          PROVE  ~HasStatus(p, "pending")' \/ Confirming(scan'[m], c, p, i)
      <3>1. i <= cursor[m] \/ i = c
        BY <1>0, <2>1, <2>5
      <3>2. ~HasStatus(p, "pending") \/ Confirming(scan'[m], c, p, i)
        BY <2>3, <2>4, <2>5, <3>1
      <3> QED
        BY <2>2, <3>2 DEF HasStatus, Exists
    <2> QED
      BY <1>0, <2>2, <2>5 DEF Seen, PaysFor
  <1>3. ASSUME NEW c \in {"invoke", "save"}, GoTo(m, c), scan[m].pc \in {"verify", "invoke"},
               cursor' = cursor, payments' = payments
        PROVE  Seen(m)'
    <2>1. PICK r : r = [scan[m] EXCEPT !.pc = c]
      OBVIOUS
    <2>2. r.pc = c /\ r.payment = scan[m].payment
      BY <1>0, <2>1 DEF Scan
    <2>3. scan'[m] = r
      BY <1>0, <1>3, <2>1 DEF GoTo
    <2>4. \A p, i : Confirming(scan[m], cursor[m], p, i) => Confirming(scan'[m], cursor'[m], p, i)
      BY <1>3, <2>2, <2>3 DEF Confirming
    <2> QED
      BY <1>0, <1>3, <2>4 DEF Seen, PaysFor, HasStatus, Exists
  <1>4. CASE VerifyPayment(m)
    <2>1. CASE GoTo(m, "invoke")
      BY <1>3, <1>4, <2>1 DEF VerifyPayment
    <2>2. CASE ~horizon[cursor[m]].pays /\ NextTx(m)
      <3>1. cursor' = cursor /\ payments' = payments
        BY <1>4 DEF VerifyPayment
      <3>2. \A p, i : PaysFor(i, p) => ~Confirming(scan[m], cursor[m], p, i)
        BY <2>2 DEF PaysFor, Confirming
      <3> QED
        BY <1>0, <3>1, <3>2 DEF Seen, PaysFor, HasStatus, Exists
    <2> QED
      BY <1>4, <1>n, <2>1, <2>2 DEF VerifyPayment
  <1>5. CASE InvokeConfirm(m)
    BY <1>3, <1>5 DEF InvokeConfirm
  <1>6. CASE SaveConfirmed(m)
    <2>1. PICK q : q = scan[m].payment
      OBVIOUS
    <2>2. /\ SaveRow(q, "confirmed", cursor[m]) /\ cursor' = cursor
      BY <1>6, <2>1 DEF SaveConfirmed
    <2>3. q \in Payments => ~HasStatus(q, "pending")'
      BY <2>2 DEF SaveRow, HasStatus, TypeOK
    <2>4. ASSUME NEW p \in Payments, NEW i \in 1 .. Len(horizon), i <= cursor[m], PaysFor(i, p)
          PROVE  ~HasStatus(p, "pending")'
      <3>1. Exists(p)
        BY <1>0, <2>4 DEF KnownPayers, PaysFor
      <3>2. ~HasStatus(p, "pending") \/ p = q
        BY <1>0, <2>1, <2>4 DEF Seen, Confirming
      <3> QED
        BY <2>3, <3>1, <3>2 DEF Decided
    <2> QED
      BY <1>0, <2>2, <2>4 DEF Seen, PaysFor
  <1>7. CASE CatchConfirm(m) \/ ScanThrows(m)
    BY <1>7, <1>n DEF CatchConfirm, ScanThrows
  <1> QED
    BY <1>1, <1>2, <1>4, <1>5, <1>6, <1>7 DEF ScanStep

\* Cursors and the ends of pages stay within what there is to read.
LEMMA CursorSteps ==
  ASSUME TypeOK, NEW m \in Instances, CursorFits(m), ScanStep(m)
  PROVE  CursorFits(m)'
  <1>0. /\ scan \in [Instances -> Scan] /\ scan[m] \in Scan /\ cursor \in [Instances -> 0 .. MaxTxs]
        /\ Len(horizon) \in Nat /\ horizon' = horizon
    BY DEF TypeOK, ScanStep, ScanFetch, ScanTx, VerifyPayment, InvokeConfirm, SaveConfirmed,
           DispatchConfirmed, CatchConfirm, ExpireFind, InvokeExpire, SaveExpired, ScanEnd, ScanThrows,
           requestVars
  <1>1. scan[m] = [pc |-> scan[m].pc, upto |-> scan[m].upto, payment |-> scan[m].payment,
                   expired |-> scan[m].expired]
    BY <1>0 DEF Scan
  <1>2. CASE ScanFetch(m)
    <2>1. PICK l : l = IF cursor[m] + PageLimit < Len(horizon) THEN cursor[m] + PageLimit ELSE Len(horizon)
      OBVIOUS
    <2>2. PICK r : r = [IdleScan EXCEPT !.pc = "txs", !.upto = l]
      OBVIOUS
    <2>3. r.upto = l
      BY <2>2 DEF IdleScan
    <2>4. scan'[m] = r /\ cursor' = cursor
      BY <1>0, <1>2, <2>1, <2>2 DEF ScanFetch
    <2>5. l <= Len(horizon)
      BY <1>0, <2>1, MonitorAssumption DEF MonitorAssumption
    <2> QED
      BY <1>0, <2>3, <2>4, <2>5 DEF CursorFits
  <1>3. CASE ScanTx(m)
    <2>1. cursor'[m] = cursor[m] + 1 /\ cursor[m] < scan[m].upto
      BY <1>0, <1>3 DEF ScanTx
    <2>2. \/ scan' = scan
          \/ \E p : scan' = [scan EXCEPT ![m] = [scan[m] EXCEPT !.pc = "verify", !.payment = p]]
      BY <1>3, ZenonT(30) DEF ScanTx
    <2>3. scan'[m].upto = scan[m].upto
      <3>1. scan[m] \in Scan /\ m \in DOMAIN scan
        BY <1>0
      <3>2. CASE scan' = scan
        BY <3>2
      <3>3. CASE \E p : scan' = [scan EXCEPT ![m] = [scan[m] EXCEPT !.pc = "verify", !.payment = p]]
        <4>1. PICK p : scan' = [scan EXCEPT ![m] = [scan[m] EXCEPT !.pc = "verify", !.payment = p]]
          BY <3>3
        <4>2. PICK r : r = [scan[m] EXCEPT !.pc = "verify", !.payment = p]
          OBVIOUS
        <4>3. r.upto = scan[m].upto
          BY <3>1, <4>2 DEF Scan
        <4>4. scan'[m] = r
          BY <3>1, <4>1, <4>2
        <4> QED
          BY <4>3, <4>4
      <3> QED
        BY <2>2, <3>2, <3>3
    <2>4. cursor[m] \in Nat /\ scan[m].upto \in Nat
      BY <1>0 DEF Scan
    <2> QED
      BY <1>0, <2>1, <2>3, <2>4 DEF CursorFits
  <1>4. CASE ~ScanFetch(m) /\ ~ScanTx(m)
    <2>1. cursor' = cursor
      BY <1>4 DEF ScanStep, VerifyPayment, InvokeConfirm, SaveConfirmed, DispatchConfirmed, CatchConfirm,
                  ExpireFind, InvokeExpire, SaveExpired, ScanEnd, ScanThrows
    <2>2. scan'[m].upto \in {scan[m].upto, 0}
      <3>1. ASSUME NEW c, GoTo(m, c) PROVE scan'[m].upto = scan[m].upto
        BY <1>0, <3>1 DEF GoTo, Scan
      <3>2. ASSUME NEW c, NEW p, scan' = [scan EXCEPT ![m] = [scan[m] EXCEPT !.pc = c, !.payment = p]]
            PROVE  scan'[m].upto = scan[m].upto
        BY <1>0, <3>2 DEF Scan
      <3>3. NextTx(m) => scan'[m].upto = scan[m].upto
        BY <1>0 DEF NextTx, Scan
      <3>4. ExpireFind(m) => scan'[m].upto = scan[m].upto
        BY <1>0 DEF ExpireFind, Scan
      <3>5. InvokeExpire(m) => scan'[m].upto = scan[m].upto
        <4>1. ASSUME InvokeExpire(m)
              PROVE  \E p : scan' = [scan EXCEPT ![m] = [scan[m] EXCEPT !.pc = "saveExpired", !.payment = p]]
          BY <4>1 DEF InvokeExpire
        <4> QED
          BY <3>2, <4>1
      <3>6. SaveExpired(m) => scan'[m].upto = scan[m].upto
        BY <1>0 DEF SaveExpired, Scan
      <3>7. ScanEnd(m) \/ ScanThrows(m) => scan'[m].upto = 0
        BY <1>0 DEF ScanEnd, ScanThrows, IdleScan
      <3> QED
        BY <1>4, <3>1, <3>3, <3>4, <3>5, <3>6, <3>7
           DEF ScanStep, VerifyPayment, InvokeConfirm, SaveConfirmed, DispatchConfirmed, CatchConfirm
    <2> QED
      BY <1>0, <2>1, <2>2 DEF CursorFits
  <1> QED
    BY <1>2, <1>3, <1>4

\* Every step keeps it.
LEMMA SeenStep == TypeOK /\ SeenInv /\ [Next]_vars => SeenInv'
  <1> SUFFICES ASSUME TypeOK, SeenInv, [Next]_vars PROVE SeenInv'
    OBVIOUS
  <1>0. /\ scan \in [Instances -> Scan] /\ cursor \in [Instances -> 0 .. MaxTxs] /\ failures \in Nat
        /\ Len(horizon) \in Nat /\ horizon \in Seq(TxKinds)
    BY MonitorAssumption DEF TypeOK, MonitorAssumption
  <1>d. Decided
    BY StepDecides
  <1>1. ASSUME horizon' = horizon PROVE KnownPayers'
    BY <1>1, <1>d DEF SeenInv, KnownPayers, Decided
  <1>f. failures' = failures \/ failures' = failures + 1
    BY DEF Next, create, createBatch, InsertRows, CustomerPays, PassExpiry, ScanStep, ScanFetch, ScanTx,
           VerifyPayment, InvokeConfirm, SaveConfirmed, DispatchConfirmed, CatchConfirm, ExpireFind,
           InvokeExpire, SaveExpired, ScanEnd, ScanThrows, Restart, ConfirmStep, ConfirmAsk,
           ConfirmSave, ConfirmThrows, SettlementStep, SettlementLoad, SettlementSave, RefundStep,
           RefundLoad, RefundSend, RefundSave, RefundThrows, Throws, vars
  <1>g. failures' = 0 => failures = 0
    BY <1>0, <1>f
  <1>2. ASSUME UNCHANGED <<horizon, cursor, scan>> PROVE SeenInv'
    <2>1. \A m \in Instances : CursorFits(m)'
      BY <1>2 DEF SeenInv, CursorFits
    <2>2. failures' = 0 => \A m \in Instances : Seen(m)'
      BY <1>2, <1>d, <1>g, SeenStays DEF SeenInv
    <2> QED
      BY <1>1, <1>2, <2>1, <2>2 DEF SeenInv
  <1>3. ASSUME NEW tx \in TxKinds, CustomerPays(tx) PROVE SeenInv'
    <2>1. /\ horizon' = Append(horizon, tx)
          /\ tx.memo # NoMemo => Exists(tx.memo)
          /\ UNCHANGED <<payments, cursor, scan, failures>>
      BY <1>3 DEF CustomerPays, monitorVars
    <2>2. /\ Len(horizon') = Len(horizon) + 1 /\ horizon'[Len(horizon) + 1] = tx
          /\ \A i \in 1 .. Len(horizon) : horizon'[i] = horizon[i]
      <3>1. PICK h : h = horizon
        OBVIOUS
      <3>2. h \in Seq(TxKinds) /\ horizon' = Append(h, tx)
        BY <1>0, <2>1, <3>1
      <3>3. Len(Append(h, tx)) = Len(h) + 1
        BY ONLY <3>2
      <3>4. Append(h, tx)[Len(h) + 1] = tx /\ \A i \in 1 .. Len(h) : Append(h, tx)[i] = h[i]
        BY <3>2
      <3> QED
        BY <3>1, <3>2, <3>3, <3>4
    <2>3. KnownPayers'
      <3>1. ASSUME NEW i \in 1 .. Len(horizon'), horizon'[i].memo \in Payments
            PROVE  Exists(horizon'[i].memo)
        <4>1. CASE i \in 1 .. Len(horizon)
          BY <2>2, <3>1, <4>1 DEF SeenInv, KnownPayers
        <4>2. CASE i = Len(horizon) + 1
          <5>1. horizon'[i] = tx
            BY <2>2, <4>2
          <5>2. tx.memo \in Payments /\ tx.memo # NoMemo
            BY <3>1, <5>1, MonitorAssumption DEF MonitorAssumption
          <5> QED
            BY <2>1, <5>1, <5>2
        <4> QED
          BY <1>0, <2>2, <3>1, <4>1, <4>2
      <3> QED
        BY <2>1, <3>1 DEF KnownPayers, Exists
    <2>4. \A m \in Instances : CursorFits(m)'
      <3> SUFFICES ASSUME NEW m \in Instances PROVE CursorFits(m)'
        OBVIOUS
      <3>1. cursor[m] \in Nat /\ scan[m].upto \in Nat /\ CursorFits(m)
        BY <1>0 DEF Scan, SeenInv
      <3> QED
        BY <1>0, <2>1, <2>2, <3>1 DEF CursorFits
    <2>5. ASSUME failures' = 0, NEW m \in Instances PROVE Seen(m)'
      <3>1. Seen(m) /\ cursor[m] \in Nat /\ cursor[m] <= Len(horizon)
        BY <1>0, <1>g, <2>5 DEF SeenInv, CursorFits
      <3>2. ASSUME NEW p \in Payments, NEW i \in 1 .. Len(horizon'), i <= cursor[m], PaysFor(i, p)'
            PROVE  ~HasStatus(p, "pending") \/ Confirming(scan[m], cursor[m], p, i)
        <4>1. i \in 1 .. Len(horizon)
          BY <1>0, <2>2, <3>1, <3>2
        <4>2. PaysFor(i, p)
          BY <2>2, <3>2, <4>1 DEF PaysFor
        <4> QED
          BY <3>1, <3>2, <4>1, <4>2 DEF Seen
      <3> QED
        BY <2>1, <3>2 DEF Seen, HasStatus, Exists, Confirming
    <2> QED
      BY <2>3, <2>4, <2>5 DEF SeenInv
  <1>4. ASSUME NEW m \in Instances, ScanStep(m) \/ Restart(m) PROVE SeenInv'
    <2>1. /\ horizon' = horizon
          /\ \A n \in Instances \ {m} : scan'[n] = scan[n] /\ cursor'[n] = cursor[n]
      BY <1>0, <1>4
         DEF ScanStep, ScanFetch, ScanTx, VerifyPayment, InvokeConfirm, SaveConfirmed,
             DispatchConfirmed, CatchConfirm, ExpireFind, InvokeExpire, SaveExpired, ScanEnd, ScanThrows,
             GoTo, NextTx, Restart, requestVars
    <2>2. CursorFits(m)'
      <3>1. CASE ScanStep(m)
        BY <3>1, CursorSteps DEF SeenInv
      <3>2. CASE Restart(m)
        <4>1. cursor'[m] = 0 /\ scan'[m] = IdleScan
          BY <1>0, <3>2 DEF Restart
        <4> QED
          BY <1>0, <2>1, <4>1 DEF CursorFits, IdleScan
      <3> QED
        BY <1>4, <3>1, <3>2
    <2>3. \A n \in Instances \ {m} : CursorFits(n)'
      BY <2>1 DEF SeenInv, CursorFits
    <2>4. ASSUME failures' = 0 PROVE Seen(m)'
      <3>1. CASE ScanStep(m)
        BY <1>d, <1>g, <2>4, <3>1, SeenSteps
      <3>2. CASE Restart(m)
        <4>1. cursor'[m] = 0
          BY <1>0, <3>2 DEF Restart
        <4> QED
          BY <1>0, <2>1, <4>1 DEF Seen
      <3> QED
        BY <1>4, <3>1, <3>2
    <2>5. ASSUME failures' = 0, NEW n \in Instances \ {m} PROVE Seen(n)'
      <3>1. Seen(n) /\ KnownPayers
        BY <1>g, <2>5 DEF SeenInv
      <3> QED
        BY <1>d, <2>1, <3>1, SeenStays
    <2> QED
      BY <1>1, <2>1, <2>2, <2>3, <2>4, <2>5 DEF SeenInv
  <1> QED
    BY <1>2, <1>3, <1>4
       DEF Next, create, createBatch, InsertRows, PassExpiry, ConfirmStep, ConfirmAsk, ConfirmSave,
           ConfirmThrows, SettlementStep, SettlementLoad, SettlementSave, RefundStep, RefundLoad,
           RefundSend, RefundSave, RefundThrows, monitorVars, requestVars, vars

\* Only the scan expires, and only rows that no scan is about to confirm.
ExpireStep ==
    \A p \in Payments :
        HasStatus(p, "pending") /\ payments'[p].status = "expired"
        /\ confirms' = confirms /\ failures = 0 =>
            ~\E m \in Instances, i \in 1 .. Len(horizon) :
                 i <= cursor[m] /\ horizon[i].memo = p /\ horizon[i].pays

\* It holds of every step.
LEMMA ExpireSteps == TypeOK /\ ScanInv /\ SeenInv /\ [Next]_vars => [ExpireStep]_vars
  <1> SUFFICES ASSUME TypeOK, ScanInv, SeenInv, [Next]_vars, NEW p \in Payments, HasStatus(p, "pending"),
                      payments'[p].status = "expired", confirms' = confirms, failures = 0,
                      NEW n \in Instances, NEW i \in 1 .. Len(horizon), i <= cursor[n],
                      horizon[i].memo = p, horizon[i].pays
               PROVE  FALSE
    BY DEF ExpireStep
  <1>1. scan[n].pc # "idle" /\ scan[n].pc # "saveExpired"
    BY DEF SeenInv, Seen, PaysFor, Confirming
  <1>2. payments'[p] # payments[p] /\ payments \in [Payments -> Row \cup {NoRow}]
    BY DEF HasStatus, TypeOK
  <1>3. ASSUME NEW q, NEW s, NEW t, SaveRow(q, s, t) PROVE s = "expired"
    BY <1>2, <1>3 DEF SaveRow
  <1>4. ASSUME NEW new, InsertRows(new) PROVE FALSE
    BY <1>2, <1>4 DEF InsertRows, HasStatus
  <1>5. ASSUME NEW m \in Instances, ScanStep(m) PROVE scan[m].pc = "saveExpired"
    BY <1>2, <1>3, <1>5
       DEF ScanStep, ScanFetch, ScanTx, VerifyPayment, InvokeConfirm, SaveConfirmed, DispatchConfirmed,
           CatchConfirm, ExpireFind, InvokeExpire, SaveExpired, ScanEnd, ScanThrows
  <1>6. ASSUME NEW m \in Instances, scan[m].pc = "saveExpired" PROVE FALSE
    BY <1>1, <1>6 DEF ScanInv, OneScan
  <1>7. ASSUME NEW q \in Settleable, SettlementStep(q) PROVE FALSE
    BY <1>2, <1>3, <1>7 DEF SettlementStep, SettlementLoad, SettlementSave
  <1>9. ASSUME NEW c \in Confirmers, ConfirmStep(c) PROVE FALSE
    <2>1. CASE ConfirmSave(c)
      <3>1. confirms'[c] = DoneConfirm /\ confirms[c].pc = "save"
        BY <2>1 DEF ConfirmSave, TypeOK
      <3> QED
        BY <3>1 DEF DoneConfirm
    <2> QED
      BY <1>2, <1>9, <2>1 DEF ConfirmStep, ConfirmAsk, ConfirmThrows
  <1>8. ASSUME NEW h \in Handlers, RefundStep(h) PROVE FALSE
    BY <1>2, <1>3, <1>8 DEF RefundStep, RefundLoad, RefundSend, RefundSave, RefundThrows
  <1> QED
    BY <1>2, <1>4, <1>5, <1>6, <1>7, <1>8, <1>9
       DEF Next, create, createBatch, CustomerPays, PassExpiry, Restart, vars

\* While scans do not overlap and no await has failed, no payment expires that some instance
\* has read a payment for: the scan confirms before it expires, and so did the scans before it.
THEOREM ExpiresOnlyUnpaid == ASSUME ~ScansOverlap PROVE Spec => ExpiresUnpaidOnly
  <1>1. Init => SeenInv
    BY DEF Init, SeenInv, KnownPayers, CursorFits, Seen, IdleScan
  <1>2. Spec => [][ExpireStep]_vars
    BY <1>1, ScanInitially, ScanInvStep, SeenStep, ExpireSteps, TypeCorrect, PTL DEF Spec
  <1> QED
    BY <1>2, PTL DEF ExpiresUnpaidOnly, ExpireStep
================================================================================
