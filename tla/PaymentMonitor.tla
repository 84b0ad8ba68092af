----------------------------- MODULE PaymentMonitor -----------------------------
(***************************************************************************)
(* The life of a payment row: PaymentsService.create, createBatch,         *)
(* confirmPayment and refund (backend/src/payments/payments.service.ts),   *)
(* and the scans of StellarMonitorService                                  *)
(* (backend/src/stellar/stellar-monitor.service.ts) that confirm and       *)
(* expire payments.                                                        *)
(*                                                                         *)
(* One action per stretch between two awaits.  Each backend instance has   *)
(* its own cursor, in memory; the repeated Bull job is taken by one of     *)
(* them, so scans do not overlap as long as they end within 30 s.          *)
(* Every handler saves the whole entity it loaded some awaits before.  Of  *)
(* the settlement service this module has the loads and saves of a payment *)
(* only; its own steps are in SettlementIntake and SettlementExecution.    *)
(* The poll of escrow events, which writes these rows too, is              *)
(* EscrowEventSync.                                                        *)
(***************************************************************************)
EXTENDS Integers, Sequences

CONSTANTS
    Payments,      \* payment rows, and the memos that name them
    NoMemo,        \* a transaction without a memo, or with a foreign one
    TxKinds,       \* transactions customers send
    NoRow,         \* the payment does not exist yet
    Instances,     \* backend instances, each with a StellarMonitorService
    Handlers,      \* refund requests under way
    Confirmers,    \* confirmPayment requests
    PageLimit,     \* .limit(200) of getAccountTransactions
    ScansOverlap,  \* scans may last longer than 30 s
    Settleable,    \* bound: payments the settlement service gets to
    Confirmable,   \* bound: payments somebody calls confirmPayment for
    MaxTxs, MaxFailures, MaxRestarts, MaxSent   \* bounds

PaymentStatus ==
    {"pending", "confirmed", "settling", "settled", "failed", "expired", "refunded"}

Row == [status : PaymentStatus, txHash : 0 .. MaxTxs]

ASSUME MonitorAssumption ==
    /\ NoRow \notin Payments \cup Row \cup [linked : BOOLEAN, txHash : 0 .. MaxTxs]
    /\ NoMemo \notin Payments /\ TxKinds \subseteq [memo : Payments \cup {NoMemo}, pays : BOOLEAN]
    /\ Settleable \subseteq Payments /\ Confirmable \subseteq Payments
    /\ PageLimit \in Nat \ {0} /\ MaxTxs \in Nat
    /\ MaxFailures \in Nat /\ MaxRestarts \in Nat /\ MaxSent \in Nat
    /\ ScansOverlap \in BOOLEAN

VARIABLES
    payments,   \* the payments table: status and txHash (0: none) of each row
    late,       \* payments with expiresAt < now
    horizon,    \* transactions of the deposit address, oldest first
    cursor,     \* cursors.get(depositAddress) of each instance, 0 when unset
    scan,       \* where the scan of each instance is, with its local variables
    refunds,    \* where each refund request is, with the payment it loaded
    confirms,   \* where each confirmPayment request is, with what it loaded
    entity,     \* the entity the settlement service holds of each payment
    failures,   \* awaits that threw so far
    restarts,   \* restarts of instances so far
    confirmed,  \* history: payment.confirmed webhooks dispatched for each payment
    sent        \* history: refund transfers the network took for each payment

vars == <<payments, late, horizon, cursor, scan, refunds, confirms, entity, failures,
          restarts, confirmed, sent>>
monitorVars == <<cursor, scan>>
serviceVars == <<confirms, entity>>
requestVars == <<late, horizon, refunds, sent, confirms, entity>>

Scan == [pc : {"idle", "txs", "verify", "invoke", "save", "notify", "expire", "saveExpired"},
         upto : 0 .. MaxTxs, payment : Payments \cup {NoRow}, expired : SUBSET Payments]
Refund == [pc : {"idle", "send", "save"}, payment : Payments \cup {NoRow},
           txHash : 0 .. MaxTxs]

Confirm == [pc : {"idle", "save", "done"}, payment : Payments \cup {NoRow},
            txHash : 0 .. MaxTxs]

\* linked: the payment names its settlement; of its status no save looks at more.
Entity == [linked : BOOLEAN, txHash : 0 .. MaxTxs]

IdleScan == [pc |-> "idle", upto |-> 0, payment |-> NoRow, expired |-> {}]
IdleRefund == [pc |-> "idle", payment |-> NoRow, txHash |-> 0]
IdleConfirm == [pc |-> "idle", payment |-> NoRow, txHash |-> 0]
DoneConfirm == [pc |-> "done", payment |-> NoRow, txHash |-> 0]

Init ==
    /\ payments = [p \in Payments |-> NoRow]
    /\ late = {}
    /\ horizon = << >>
    /\ cursor = [m \in Instances |-> 0]
    /\ scan = [m \in Instances |-> IdleScan]
    /\ refunds = [h \in Handlers |-> IdleRefund]
    /\ confirms = [c \in Confirmers |-> IdleConfirm]
    /\ entity = [p \in Settleable |-> NoRow]
    /\ failures = 0
    /\ restarts = 0
    /\ confirmed = [p \in Payments |-> 0]
    /\ sent = [p \in Payments |-> 0]

Exists(p) == payments[p] # NoRow
HasStatus(p, s) == Exists(p) /\ payments[p].status = s
SaveRow(p, status, txHash) ==
    payments' = [payments EXCEPT ![p] = [status |-> status, txHash |-> txHash]]

\* An await throws; MaxFailures bounds how often.
Throws == failures < MaxFailures /\ failures' = failures + 1
GoTo(m, pc) == scan' = [scan EXCEPT ![m].pc = pc]
NextTx(m) == scan' = [scan EXCEPT ![m].pc = "txs", ![m].payment = NoRow]

--------------------------------------------------------------------------------
(* Creation, customers and time                                            *)

InsertRows(new) ==
    /\ \A p \in new : ~Exists(p)
    /\ payments' = [p \in Payments |->
                       IF p \in new THEN [status |-> "pending", txHash |-> 0]
                       ELSE payments[p]]
    /\ UNCHANGED <<monitorVars, requestVars, failures, restarts, confirmed>>

\* The second save of create only adds expiryLedger, before the memo is known to
\* anybody outside.
create(p) == InsertRows({p})

\* Every item is validated before any is saved, and one save writes all rows.
createBatch(new) == new # {} /\ InsertRows(new)

\* A transaction reaches the deposit address; pays says whether it holds a
\* payment operation in USDC or XLM.
CustomerPays(tx) ==
    /\ Len(horizon) < MaxTxs
    /\ tx.memo # NoMemo => Exists(tx.memo)
    /\ horizon' = Append(horizon, tx)
    /\ UNCHANGED <<payments, late, monitorVars, refunds, serviceVars, failures, restarts, confirmed, sent>>

PassExpiry(p) ==
    /\ Exists(p) /\ p \notin late
    /\ late' = late \cup {p}
    /\ UNCHANGED <<payments, horizon, monitorVars, refunds, serviceVars, failures, restarts, confirmed, sent>>

--------------------------------------------------------------------------------
(* scanPendingPayments                                                     *)

\* getAccountTransactions: the page after the cursor.  A failed fetch raises an
\* alert, ends the scan and changes nothing.
ScanFetch(m) ==
    /\ scan[m].pc = "idle"
    /\ ScansOverlap \/ \A n \in Instances : scan[n].pc = "idle"
    /\ scan' = [scan EXCEPT ![m] =
           [IdleScan EXCEPT !.pc = "txs",
                            !.upto = IF cursor[m] + PageLimit < Len(horizon)
                                     THEN cursor[m] + PageLimit ELSE Len(horizon)]]
    /\ UNCHANGED <<payments, requestVars, cursor, failures, restarts, confirmed>>

\* Mutant: the status of the payment is not part of the query.
AnyWithMemo(tx) == {p \in Payments : Exists(p) /\ tx.memo = p}

PendingWithMemo(tx) == {p \in Payments : HasStatus(p, "pending") /\ tx.memo = p}

\* The cursor moves first; then the pending payment with this memo is looked up.
ScanTx(m) ==
    /\ scan[m].pc = "txs" /\ cursor[m] < scan[m].upto
    /\ cursor' = [cursor EXCEPT ![m] = @ + 1]
    /\ LET matched == PendingWithMemo(horizon[cursor[m] + 1])
       IN  IF matched = {} THEN scan' = scan
           ELSE \E p \in matched :
                    scan' = [scan EXCEPT ![m].pc = "verify", ![m].payment = p]
    /\ UNCHANGED <<payments, requestVars, failures, restarts, confirmed>>

\* verifyPayment answers not verified also when a request to Horizon fails.
VerifyPayment(m) ==
    /\ scan[m].pc = "verify"
    /\ \/ horizon[cursor[m]].pays /\ GoTo(m, "invoke") /\ UNCHANGED failures
       \/ ~horizon[cursor[m]].pays /\ NextTx(m) /\ UNCHANGED failures
       \/ NextTx(m) /\ Throws
    /\ UNCHANGED <<payments, requestVars, cursor, restarts, confirmed>>

\* invokeContract('confirm').
InvokeConfirm(m) ==
    /\ scan[m].pc = "invoke"
    /\ GoTo(m, "save")
    /\ UNCHANGED <<payments, requestVars, cursor, failures, restarts, confirmed>>

\* Mutant: the confirmed row is not saved.
ConfirmUnsaved(m) ==
    /\ scan[m].pc = "save"
    /\ GoTo(m, "notify")
    /\ UNCHANGED <<payments, requestVars, cursor, failures, restarts, confirmed>>

SaveConfirmed(m) ==
    /\ scan[m].pc = "save"
    /\ SaveRow(scan[m].payment, "confirmed", cursor[m])
    /\ GoTo(m, "notify")
    /\ UNCHANGED <<requestVars, cursor, failures, restarts, confirmed>>

\* The email and the webhook; then initiateSettlement is handed the entity.
DispatchConfirmed(m) ==
    /\ scan[m].pc = "notify"
    /\ confirmed' = [confirmed EXCEPT ![scan[m].payment] = @ + 1]
    /\ entity' = [p \in Settleable |->
                     IF p = scan[m].payment THEN [linked |-> FALSE, txHash |-> cursor[m]]
                     ELSE entity[p]]
    /\ NextTx(m)
    /\ UNCHANGED <<payments, late, horizon, refunds, sent, confirms, cursor, failures, restarts>>

\* confirmPayment throws: an alert, and on to the next transaction.
CatchConfirm(m) ==
    /\ scan[m].pc \in {"invoke", "save", "notify"}
    /\ Throws
    /\ NextTx(m)
    /\ UNCHANGED <<payments, requestVars, cursor, restarts, confirmed>>

--------------------------------------------------------------------------------
(* expireOldPayments                                                       *)

\* Mutant: the query selects by expiresAt only.
AllLate == {p \in late : Exists(p)}

\* Mutant: the comparison with now is the wrong way round.
PendingNotLate == {p \in Payments \ late : HasStatus(p, "pending")}

PendingAndLate == {p \in late : HasStatus(p, "pending")}

ExpireFind(m) ==
    /\ scan[m].pc = "txs" /\ cursor[m] >= scan[m].upto
    /\ scan' = [scan EXCEPT ![m].pc = "expire", ![m].expired = PendingAndLate]
    /\ UNCHANGED <<payments, requestVars, cursor, failures, restarts, confirmed>>

\* invokeContract('expire').
InvokeExpire(m) ==
    /\ scan[m].pc = "expire"
    /\ \E p \in scan[m].expired :
           scan' = [scan EXCEPT ![m].pc = "saveExpired", ![m].payment = p]
    /\ UNCHANGED <<payments, requestVars, cursor, failures, restarts, confirmed>>

\* The entity read by ExpireFind is saved, whatever the row is now.
SaveExpired(m) ==
    /\ scan[m].pc = "saveExpired"
    /\ SaveRow(scan[m].payment, "expired", 0)
    /\ scan' = [scan EXCEPT ![m].pc = "expire", ![m].payment = NoRow,
                            ![m].expired = @ \ {scan[m].payment}]
    /\ UNCHANGED <<requestVars, cursor, failures, restarts, confirmed>>

ScanEnd(m) ==
    /\ scan[m].pc = "expire" /\ scan[m].expired = {}
    /\ scan' = [scan EXCEPT ![m] = IdleScan]
    /\ UNCHANGED <<payments, requestVars, cursor, failures, restarts, confirmed>>

\* An await outside confirmPayment throws and ends the scan: the lookup by memo,
\* raising an alert, the query of expired payments, a contract call or a save
\* for one of them.
ScanThrows(m) ==
    /\ scan[m].pc \in {"txs", "expire", "saveExpired"}
    /\ Throws
    /\ scan' = [scan EXCEPT ![m] = IdleScan]
    /\ UNCHANGED <<payments, requestVars, cursor, restarts, confirmed>>

\* The process dies and starts again: the cursor is forgotten.
Restart(m) ==
    /\ restarts < MaxRestarts
    /\ restarts' = restarts + 1
    /\ cursor' = [cursor EXCEPT ![m] = 0]
    /\ scan' = [scan EXCEPT ![m] = IdleScan]
    /\ UNCHANGED <<payments, requestVars, failures, confirmed>>

ScanStep(m) ==
    \/ ScanFetch(m) \/ ScanTx(m) \/ VerifyPayment(m) \/ InvokeConfirm(m)
    \/ SaveConfirmed(m) \/ DispatchConfirmed(m) \/ CatchConfirm(m)
    \/ ExpireFind(m) \/ InvokeExpire(m) \/ SaveExpired(m) \/ ScanEnd(m) \/ ScanThrows(m)

--------------------------------------------------------------------------------
(* confirmPayment, settlement and refund                                   *)

\* The payment is loaded, whatever its status, and the contract answers; an answer
\* other than the two of ConfirmSave ends the request.
ConfirmAsk(c, p) ==
    /\ confirms[c].pc = "idle" /\ Exists(p)
    /\ confirms' = [confirms EXCEPT ![c] =
                       [pc |-> "save", payment |-> p, txHash |-> payments[p].txHash]]
    /\ UNCHANGED <<payments, late, horizon, refunds, sent, entity, monitorVars, failures,
                   restarts, confirmed>>

\* The contract confirmed, or said that the time is over: the entity is saved with
\* that status, whatever the row is now.
ConfirmSave(c) ==
    /\ confirms[c].pc = "save"
    /\ \E answer \in {"confirmed", "expired"} :
          SaveRow(confirms[c].payment, answer, confirms[c].txHash)
    /\ confirms' = [confirms EXCEPT ![c] = DoneConfirm]
    /\ UNCHANGED <<late, horizon, refunds, sent, entity, monitorVars, failures, restarts,
                   confirmed>>

\* The save throws.
ConfirmThrows(c) ==
    /\ confirms[c].pc = "save"
    /\ Throws
    /\ confirms' = [confirms EXCEPT ![c] = DoneConfirm]
    /\ UNCHANGED <<payments, late, horizon, refunds, sent, entity, monitorVars, restarts,
                   confirmed>>

\* The batch job loads confirmed payments, jobs, retries and partner callbacks
\* those of their settlement; one entity of a payment is held at a time.
SettlementLoad(p) ==
    /\ Exists(p) /\ payments[p].status # "pending"
    /\ payments[p].status = "expired" => entity[p] # NoRow
    /\ entity' = [entity EXCEPT ![p] =
                     [linked |-> payments[p].status # "confirmed" \/ (entity[p] # NoRow /\ entity[p].linked),
                      txHash |-> payments[p].txHash]]
    /\ UNCHANGED <<payments, late, horizon, refunds, sent, confirms, monitorVars, failures,
                   restarts, confirmed>>

\* A confirmed payment is linked to its settlement, and afterwards saved as
\* settling, settled or failed at any time.
SettlementSave(p, status) ==
    /\ entity[p] # NoRow
    /\ entity[p].linked \/ status = "settling"
    /\ SaveRow(p, status, entity[p].txHash)
    /\ entity' = [entity EXCEPT ![p].linked = TRUE]
    /\ UNCHANGED <<late, horizon, refunds, sent, confirms, monitorVars, failures, restarts,
                   confirmed>>

\* refund: only a settled payment passes the checks; its customer's wallet is on
\* record since it was confirmed.
RefundLoad(h, p) ==
    /\ refunds[h].pc = "idle"
    /\ HasStatus(p, "settled")
    /\ refunds' = [refunds EXCEPT ![h] =
                      [pc |-> "send", payment |-> p, txHash |-> payments[p].txHash]]
    /\ UNCHANGED <<payments, late, horizon, monitorVars, serviceVars, failures, restarts, confirmed, sent>>

\* sendPayment: the network takes the transfer, and its answer may be lost.
RefundSend(h) ==
    /\ refunds[h].pc = "send" /\ sent[refunds[h].payment] < MaxSent
    /\ sent' = [sent EXCEPT ![refunds[h].payment] = @ + 1]
    /\ \/ refunds' = [refunds EXCEPT ![h].pc = "save"] /\ UNCHANGED failures
       \/ refunds' = [refunds EXCEPT ![h] = IdleRefund] /\ Throws
    /\ UNCHANGED <<payments, late, horizon, monitorVars, serviceVars, restarts, confirmed>>

RefundSave(h) ==
    /\ refunds[h].pc = "save"
    /\ SaveRow(refunds[h].payment, "refunded", refunds[h].txHash)
    /\ refunds' = [refunds EXCEPT ![h] = IdleRefund]
    /\ UNCHANGED <<late, horizon, monitorVars, serviceVars, failures, restarts, confirmed, sent>>

\* Mutant: the row is saved although the transfer was not accepted.
RefundThrowsSaved(h) ==
    /\ refunds[h].pc \in {"send", "save"}
    /\ Throws
    /\ SaveRow(refunds[h].payment, "refunded", refunds[h].txHash)
    /\ refunds' = [refunds EXCEPT ![h] = IdleRefund]
    /\ UNCHANGED <<late, horizon, monitorVars, serviceVars, restarts, confirmed, sent>>

\* The merchant lookup, the transfer (not taken) or the save throws.
RefundThrows(h) ==
    /\ refunds[h].pc \in {"send", "save"}
    /\ Throws
    /\ refunds' = [refunds EXCEPT ![h] = IdleRefund]
    /\ UNCHANGED <<payments, late, horizon, monitorVars, serviceVars, restarts, confirmed, sent>>

ConfirmStep(c) ==
    (\E p \in Confirmable : ConfirmAsk(c, p)) \/ ConfirmSave(c) \/ ConfirmThrows(c)

SettlementStep(p) ==
    \/ SettlementLoad(p)
    \/ \E s \in {"settling", "settled", "failed"} : SettlementSave(p, s)

RefundStep(h) ==
    \/ \E p \in Payments : RefundLoad(h, p)
    \/ RefundSend(h) \/ RefundSave(h) \/ RefundThrows(h)

Next ==
    \/ \E p \in Payments : create(p)
    \/ \E new \in SUBSET Payments : createBatch(new)
    \/ \E tx \in TxKinds : CustomerPays(tx)
    \/ \E p \in Payments : PassExpiry(p)
    \/ \E m \in Instances : ScanStep(m) \/ Restart(m)
    \/ \E c \in Confirmers : ConfirmStep(c)
    \/ \E p \in Settleable : SettlementStep(p)
    \/ \E h \in Handlers : RefundStep(h)

Spec == Init /\ [][Next]_vars

\* Bull repeats the scan every 30 s on some instance, and awaits resolve.  Every
\* step of a scan changes monitorVars.
FairSpec == Spec /\ WF_monitorVars(\E m \in Instances : ScanStep(m))

--------------------------------------------------------------------------------
(* Properties                                                              *)

\* Every variable has its type.
TypeOK ==
    /\ payments \in [Payments -> Row \cup {NoRow}]
    /\ late \subseteq Payments
    /\ horizon \in Seq(TxKinds) /\ Len(horizon) <= MaxTxs
    /\ cursor \in [Instances -> 0 .. MaxTxs]
    /\ scan \in [Instances -> Scan]
    /\ refunds \in [Handlers -> Refund]
    /\ confirms \in [Confirmers -> Confirm]
    /\ entity \in [Settleable -> Entity \cup {NoRow}]
    /\ failures \in 0 .. MaxFailures /\ restarts \in 0 .. MaxRestarts
    /\ confirmed \in [Payments -> Nat] /\ sent \in [Payments -> Nat]

\* A merchant is told at most once that a payment is confirmed, although a
\* restarted instance, or one that takes over, reads every transaction again.
ConfirmedOnce == \A p \in Payments : confirmed[p] <= 1

\* An entity of p in somebody's hands that would undo what the row says: a scan
\* loaded it while p was pending, or it knows of another transaction.
HeldFromBefore(p) ==
    LET now == payments[p].txHash
    IN  \/ \E m \in Instances :
              \/ p \in scan[m].expired
              \/ /\ scan[m].payment = p
                 /\ scan[m].pc = "notify" => cursor[m] # now
        \/ \E h \in Handlers : refunds[h].payment = p /\ refunds[h].txHash # now
        \/ \E c \in Confirmers : confirms[c].payment = p /\ confirms[c].txHash # now
        \/ p \in Settleable /\ entity[p] # NoRow /\ entity[p].txHash # now

DecidedForGood(p) ==
    Exists(p) /\ payments[p].status # "pending" /\ ~HeldFromBefore(p)

\* Only what was loaded before a payment was decided can undo the decision, as
\* expireOldPayments does with a payment confirmed after its query.  Once the
\* last such entity is saved or dropped, none comes back: the transaction stays,
\* the payment is never pending again, and only confirmPayment, which looks at no
\* status, says confirmed or expired of it once more.
DecidedStays ==
    [][\A p \in Payments :
          DecidedForGood(p) =>
              /\ DecidedForGood(p)'
              /\ payments'[p].txHash = payments[p].txHash
              /\ payments'[p].status \in {payments[p].status, "settling", "settled", "failed",
                                         "refunded"}
                     \/ confirms' # confirms]_vars

Paid(p) == \E i \in 1 .. Len(horizon) : horizon[i].memo = p /\ horizon[i].pays

\* As long as no await failed, a scan expires no pending payment that a transaction
\* behind some cursor has paid: it confirms before it expires.
ExpiresUnpaidOnly ==
    [][\A p \in Payments :
          HasStatus(p, "pending") /\ payments'[p].status = "expired"
          /\ confirms' = confirms /\ failures = 0 =>
              ~\E m \in Instances, i \in 1 .. Len(horizon) :
                   i <= cursor[m] /\ horizon[i].memo = p /\ horizon[i].pays]_vars

\* A refunded payment was sent back, wherever refund stopped.
RefundedWasSent == \A p \in Payments : HasStatus(p, "refunded") => sent[p] > 0

\* What a refund may not exceed is the payment: it is sent back once.
RefundedAtMostOnce == \A p \in Payments : sent[p] <= 1

\* A pending payment ends when it is late, though scans fail and restart.
LateEnds ==
    \A p \in Payments :
        HasStatus(p, "pending") /\ p \in late ~> ~HasStatus(p, "pending")

\* A paid payment is confirmed, unless it expires or some await failed.
PaidIsSeen ==
    \A p \in Payments :
        HasStatus(p, "pending") /\ Paid(p) ~> ~HasStatus(p, "pending") \/ failures > 0

\* Scans decide about every payment that is paid or late, on whichever instance.
ScansConclude == LateEnds /\ PaidIsSeen
================================================================================
