------------------------- MODULE SettlementIntakeProofs -------------------------
(***************************************************************************)
(* Proofs about the intake of settlements: the types of its rows and       *)
(* handlers, that no large settlement is queued without an approval, and,  *)
(* with one scheduler, that what is queued counts the payments linked to   *)
(* it, each of them once.                                                  *)
(***************************************************************************)
EXTENDS SettlementIntake, SumTheorems, TLAPS

\* The row a handler has created for the payments in S, as it remembers it.
Remembered(s, S) ==
    /\ s \in Settlements /\ settlement[s] # None
    /\ settlement[s].requiresApproval = requiresApproval(Sum(S))

\* What the handlers in flight know of the rows they go on with.
HandlersFit ==
    /\ \A p \in Payments : confirmer[p].pc \in {"link", "enqueue"} => Remembered(confirmer[p].s, {p})
    /\ \A i \in Schedulers : cron[i].pc \in {"link", "enqueue"} => Remembered(cron[i].s, cron[i].batch)
    /\ \A a \in Admins : admin[a].pc \in {"save", "link"} =>
           admin[a].s \in Settlements /\ settlement[admin[a].s] # None
    /\ \A a \in Admins : admin[a].pc = "link" => admin[a].s \in approvals

\* Only rows that exist are queued or approved; the large ones were approved.
QueueFits ==
    \A s \in Settlements : Queued(s) =>
        settlement[s] # None /\ (settlement[s].requiresApproval => s \in approvals)

IInv == TypeOK /\ HandlersFit /\ QueueFits

--------------------------------------------------------------------------------

\* The id of a new settlement has no row yet.
LEMMA NewIdUnused ==
  ASSUME RowLeft
  PROVE  NewId \in Settlements /\ settlement[NewId] = None
  BY DEF RowLeft, NewId, Unused

\* The row created for a set of payments.
LEMMA NewRow ==
  ASSUME NEW S \in SUBSET Payments
  PROVE  /\ NewSettlement(S) \in SettlementRow /\ NewSettlement(S) # None
         /\ NewSettlement(S).requiresApproval = requiresApproval(Sum(S))
  <1>1. requiresApproval(Sum(S)) \in BOOLEAN
    BY DEF requiresApproval
  <1>2. NewSettlement(S) \in SettlementRow
    BY <1>1 DEF NewSettlement, SettlementRow, SettlementStatuses
  <1> QED
    BY <1>2, IntakeAssumption DEF IntakeAssumption, NewSettlement

\* A handler that leaves the rows alone keeps what is known of the others.
LEMMA StepOfConfirmer ==
  ASSUME IInv, NEW p \in Payments, NEW h \in Handler, confirmer' = [confirmer EXCEPT ![p] = h],
         h.pc \in {"link", "enqueue"} => Remembered(h.s, {p}),
         UNCHANGED <<settlement, cron, admin, approvals>>
  PROVE  HandlersFit' /\ confirmer' \in [Payments -> Handler]
  BY DEF IInv, TypeOK, HandlersFit, Remembered

\* The same for the cron.
LEMMA StepOfCron ==
  ASSUME IInv, NEW i \in Schedulers, NEW r \in BatchRun, cron' = [cron EXCEPT ![i] = r],
         r.pc \in {"link", "enqueue"} => Remembered(r.s, r.batch),
         UNCHANGED <<settlement, confirmer, admin, approvals>>
  PROVE  HandlersFit' /\ cron' \in [Schedulers -> BatchRun]
  BY DEF IInv, TypeOK, HandlersFit, Remembered

\* And for the admin.
LEMMA StepOfAdmin ==
  ASSUME IInv, NEW a \in Admins, NEW r \in Approval, admin' = [admin EXCEPT ![a] = r],
         r.pc \in {"save", "link"} => r.s \in Settlements /\ settlement[r.s] # None,
         r.pc = "link" => r.s \in approvals,
         UNCHANGED <<settlement, confirmer, cron, approvals>>
  PROVE  HandlersFit' /\ admin' \in [Admins -> Approval]
  BY DEF IInv, TypeOK, HandlersFit, Remembered

\* A job of a row that exists, approved if it has to be, keeps the queue right.
LEMMA Enqueued ==
  ASSUME IInv, NEW s \in Settlements, settlement[s] # None,
         settlement[s].requiresApproval => s \in approvals,
         enqueueSettlement(s), UNCHANGED <<settlement, approvals>>
  PROVE  QueueFits' /\ jobs' \in [Settlements -> Nat]
  BY DEF IInv, TypeOK, QueueFits, Queued, enqueueSettlement

\* So does leaving rows, queue and approvals alone.
LEMMA QueueStays ==
  ASSUME IInv, UNCHANGED <<settlement, jobs, approvals>>
  PROVE  QueueFits'
  BY DEF IInv, QueueFits, Queued

\* A new row takes the place of no other.
LEMMA RowAdded ==
  ASSUME IInv, RowLeft, NEW row \in SettlementRow, settlement' = [settlement EXCEPT ![NewId] = row],
         UNCHANGED <<jobs, approvals>>
  PROVE  /\ QueueFits' /\ settlement' \in [Settlements -> SettlementRow \cup {None}]
         /\ settlement'[NewId] = row
         /\ \A s \in Settlements : settlement[s] # None => settlement'[s] = settlement[s]
  BY NewIdUnused DEF IInv, TypeOK, QueueFits, Queued

\* What is known of a row is known after a step that keeps it.
LEMMA RowsKnown ==
  ASSUME HandlersFit, \A s \in Settlements : settlement[s] # None => settlement'[s] = settlement[s],
         UNCHANGED approvals,
         \A p \in Payments : \/ confirmer'[p] = confirmer[p]
                             \/ confirmer'[p].pc \in {"link", "enqueue"} => Remembered(confirmer[p].s, {p})',
         \A i \in Schedulers : \/ cron'[i] = cron[i]
                               \/ cron'[i].pc \in {"link", "enqueue"}
                                     => Remembered(cron[i].s, cron[i].batch)',
         UNCHANGED admin
  PROVE  HandlersFit'
  <1>1. \A s \in Settlements, S \in SUBSET Payments : Remembered(s, S) => settlement'[s] # None
    BY DEF Remembered
  <1> QED
    BY <1>1 DEF HandlersFit, Remembered

\* The inductive invariant holds at first.
LEMMA InitFits == Init => IInv
  BY IntakeAssumption
  DEF Init, IntakeAssumption, IInv, TypeOK, HandlersFit, QueueFits, Queued, PaymentRow, PaymentStatuses,
      Handler, BatchRun, Approval, IdleConfirmer, IdleCron, IdleAdmin

\* The confirmation handler keeps it.
LEMMA ConfirmerFits ==
  ASSUME IInv, NEW p \in Payments, ConfirmerStep(p) \/ CrashConfirmer(p)
  PROVE  IInv'
  <1> USE IntakeAssumption DEF IntakeAssumption
  <1>t. /\ TypeOK /\ HandlersFit /\ confirmer[p] \in Handler /\ payment[p] \in PaymentRow
        /\ now \in 0 .. MaxTime
    BY DEF IInv, TypeOK
  <1>1. CASE ConfirmPayment(p)
    <2> PICK h : h = [confirmer[p] EXCEPT !.pc = IF Amount[p] < SmallThreshold THEN "done" ELSE "create"]
      OBVIOUS
    <2>1. h \in Handler /\ h.pc \notin {"link", "enqueue"}
      BY <1>t DEF Handler
    <2>2. confirmer' = [confirmer EXCEPT ![p] = h]
      BY <1>1 DEF ConfirmPayment
    <2>3. HandlersFit' /\ confirmer' \in [Payments -> Handler]
      BY <1>1, <2>1, <2>2, StepOfConfirmer DEF ConfirmPayment
    <2>4. payment' \in [Payments -> PaymentRow]
      BY <1>1, <1>t DEF ConfirmPayment, TypeOK, PaymentRow, PaymentStatuses
    <2>5. QueueFits'
      BY <1>1, QueueStays DEF ConfirmPayment
    <2> QED
      BY <1>1, <1>t, <2>3, <2>4, <2>5 DEF ConfirmPayment, IInv, TypeOK
  <1>2. CASE InitiateCreate(p)
    <2> PICK h, row : h = [pc |-> "link", s |-> NewId] /\ row = NewSettlement({p})
      OBVIOUS
    <2>1. RowLeft /\ NewId \in Settlements
      BY <1>2, NewIdUnused DEF InitiateCreate
    <2>2. row \in SettlementRow /\ row # None /\ row.requiresApproval = requiresApproval(Sum({p}))
      BY NewRow
    <2>3. /\ confirmer' = [confirmer EXCEPT ![p] = h]
          /\ settlement' = [settlement EXCEPT ![NewId] = row]
          /\ UNCHANGED <<now, payment, jobs, cron, admin, approvals, crashes>>
      BY <1>2 DEF InitiateCreate
    <2>4. /\ QueueFits' /\ settlement' \in [Settlements -> SettlementRow \cup {None}]
          /\ settlement'[NewId] = row
          /\ \A s \in Settlements : settlement[s] # None => settlement'[s] = settlement[s]
      BY <2>1, <2>2, <2>3, RowAdded
    <2>5. h \in Handler /\ confirmer' \in [Payments -> Handler]
      BY <1>t, <2>1, <2>3 DEF Handler, TypeOK
    <2>6. \A q \in Payments : confirmer'[q] = IF q = p THEN h ELSE confirmer[q]
      BY <1>t, <2>3 DEF TypeOK
    <2>8. /\ \A q \in Payments : \/ confirmer'[q] = confirmer[q]
                                 \/ confirmer'[q].pc \in {"link", "enqueue"} => Remembered(confirmer[q].s, {q})'
          /\ \A i \in Schedulers : \/ cron'[i] = cron[i]
                                   \/ cron'[i].pc \in {"link", "enqueue"}
                                         => Remembered(cron[i].s, cron[i].batch)'
          /\ UNCHANGED <<admin, approvals>>
      <3>1. ASSUME NEW q \in Payments, q # p PROVE confirmer'[q] = confirmer[q]
        BY <2>6, <3>1
      <3>2. ASSUME NEW q \in Payments, q = p PROVE Remembered(confirmer[q].s, {q})'
        BY <2>1, <2>2, <2>4, <2>6, <3>2 DEF Remembered
      <3> QED
        BY <2>3, <3>1, <3>2
    <2>9. HandlersFit'
      BY <1>t, <2>4, <2>8, RowsKnown
    <2> QED
      BY <1>t, <2>3, <2>4, <2>5, <2>9 DEF IInv, TypeOK
  <1>3. CASE InitiateLink(p)
    <2> PICK h : h = [confirmer[p] EXCEPT !.pc = "enqueue"]
      OBVIOUS
    <2>1. h \in Handler /\ Remembered(h.s, {p})
      BY <1>3, <1>t DEF InitiateLink, Handler, HandlersFit
    <2>2. confirmer' = [confirmer EXCEPT ![p] = h]
      BY <1>3 DEF InitiateLink
    <2>3. HandlersFit' /\ confirmer' \in [Payments -> Handler]
      BY <1>3, <2>1, <2>2, StepOfConfirmer DEF InitiateLink
    <2>4. payment' \in [Payments -> PaymentRow]
      BY <1>3, <1>t DEF InitiateLink, Link, TypeOK, PaymentRow, PaymentStatuses, Handler
    <2>5. QueueFits'
      BY <1>3, QueueStays DEF InitiateLink
    <2> QED
      BY <1>3, <1>t, <2>3, <2>4, <2>5 DEF InitiateLink, IInv, TypeOK
  <1>4. CASE InitiateEnqueue(p)
    <2> PICK h : h = [confirmer[p] EXCEPT !.pc = "done"]
      OBVIOUS
    <2>1. h \in Handler /\ h.pc = "done"
      BY <1>t DEF Handler
    <2>2. confirmer' = [confirmer EXCEPT ![p] = h] /\ UNCHANGED <<settlement, approvals>>
      BY <1>4 DEF InitiateEnqueue
    <2>3. HandlersFit' /\ confirmer' \in [Payments -> Handler]
      BY <1>4, <2>1, <2>2, StepOfConfirmer DEF InitiateEnqueue
    <2>4. Remembered(confirmer[p].s, {p})
      BY <1>4, <1>t DEF InitiateEnqueue, HandlersFit
    <2>5. QueueFits' /\ jobs' \in [Settlements -> Nat]
      <3>1. CASE requiresApproval(Sum({p}))
        BY <1>4, <1>t, <2>2, <3>1, QueueStays DEF InitiateEnqueue, TypeOK
      <3>2. CASE ~requiresApproval(Sum({p}))
        <4>1. enqueueSettlement(confirmer[p].s)
          BY <1>4, <3>2 DEF InitiateEnqueue
        <4>2. /\ confirmer[p].s \in Settlements /\ settlement[confirmer[p].s] # None
              /\ ~settlement[confirmer[p].s].requiresApproval
          BY <2>4, <3>2 DEF Remembered
        <4> QED
          BY <2>2, <4>1, <4>2, Enqueued
      <3> QED
        BY <3>1, <3>2
    <2> QED
      BY <1>4, <1>t, <2>3, <2>5 DEF InitiateEnqueue, IInv, TypeOK
  <1>5. CASE CrashConfirmer(p)
    <2> PICK h : h = [pc |-> "done", s |-> None]
      OBVIOUS
    <2>1. h \in Handler /\ h.pc = "done" /\ confirmer' = [confirmer EXCEPT ![p] = h]
      BY <1>5 DEF Handler, CrashConfirmer
    <2>2. HandlersFit' /\ confirmer' \in [Payments -> Handler]
      BY <1>5, <2>1, StepOfConfirmer DEF CrashConfirmer
    <2>3. QueueFits'
      BY <1>5, QueueStays DEF CrashConfirmer
    <2> QED
      BY <1>5, <1>t, <2>2, <2>3 DEF CrashConfirmer, IInv, TypeOK
  <1> QED
    BY <1>1, <1>2, <1>3, <1>4, <1>5 DEF ConfirmerStep

\* The oldest payments of a set are some of it.
LEMMA OldestAmong ==
  ASSUME NEW S \in SUBSET Payments
  PROVE  OldestFirst(S) \subseteq S
  BY DEF OldestFirst

\* The cron pushes payments of the rest it has not yet placed.
LEMMA PushedFromRest ==
  ASSUME NEW i \in Schedulers, cron[i].rest \subseteq Payments
  PROVE  NextToPush(i) \subseteq cron[i].rest
  <1> PICK same : same = {q \in cron[i].rest : \A b \in cron[i].batch : MerchantOf[q] = MerchantOf[b]}
    OBVIOUS
  <1>1. same \in SUBSET Payments
    OBVIOUS
  <1>2. NextToPush(i) = OldestFirst(IF same # {} THEN same ELSE cron[i].rest)
    BY DEF NextToPush
  <1>3. CASE same # {}
    BY <1>1, <1>2, <1>3, OldestAmong
  <1>4. CASE same = {}
    <2>1. NextToPush(i) = OldestFirst(cron[i].rest)
      BY <1>2, <1>4
    <2>2. QED
      BY <2>1, OldestAmong
  <1>5. QED
    BY <1>3, <1>4

\* The batching cron keeps it.
LEMMA CronFits ==
  ASSUME IInv, NEW i \in Schedulers, CronStep(i) \/ CrashCron(i)
  PROVE  IInv'
  <1> USE IntakeAssumption DEF IntakeAssumption
  <1>t. /\ TypeOK /\ HandlersFit /\ cron[i] \in BatchRun /\ now \in 0 .. MaxTime
        /\ IdleCron \in BatchRun /\ IdleCron.pc = "idle"
    BY DEF IInv, TypeOK, IdleCron, BatchRun
  <1>0. ASSUME NEW r \in BatchRun, cron' = [cron EXCEPT ![i] = r],
               r.pc \in {"link", "enqueue"} => Remembered(r.s, r.batch),
               UNCHANGED <<now, payment, settlement, jobs, confirmer, admin, approvals>>,
               crashes' \in 0 .. MaxCrashes
        PROVE  IInv'
    <2>1. HandlersFit' /\ cron' \in [Schedulers -> BatchRun]
      BY <1>0, StepOfCron
    <2>2. QueueFits'
      BY <1>0, QueueStays
    <2> QED
      BY <1>0, <1>t, <2>1, <2>2 DEF IInv, TypeOK
  <1>1. CASE CronFind(i)
    <2> PICK r : r = [IdleCron EXCEPT !.pc = "push", !.rest = Waiting]
      OBVIOUS
    <2>1. r \in BatchRun /\ r.pc = "push"
      BY <1>t DEF BatchRun, Waiting, IdleCron
    <2> QED
      BY <1>0, <1>1, <1>t, <2>1 DEF CronFind, TypeOK
  <1>2. CASE CronPush(i)
    <2> PICK p \in NextToPush(i) :
           cron' = [cron EXCEPT ![i].rest = cron[i].rest \ {p},
                     ![i].batch = {b \in cron[i].batch : MerchantOf[b] = MerchantOf[p]} \cup {p},
                     ![i].pc = IF shouldFlush({b \in cron[i].batch : MerchantOf[b] = MerchantOf[p]} \cup {p})
                               THEN "create" ELSE "push"]
      BY <1>2 DEF CronPush
    <2> PICK r : r = [cron[i] EXCEPT !.rest = cron[i].rest \ {p},
                     !.batch = {b \in cron[i].batch : MerchantOf[b] = MerchantOf[p]} \cup {p},
                     !.pc = IF shouldFlush({b \in cron[i].batch : MerchantOf[b] = MerchantOf[p]} \cup {p})
                            THEN "create" ELSE "push"]
      OBVIOUS
    <2>1. p \in Payments
      BY <1>t, PushedFromRest DEF BatchRun
    <2>2. r \in BatchRun /\ r.pc \in {"create", "push"}
      BY <1>t, <2>1 DEF BatchRun
    <2>3. cron' = [cron EXCEPT ![i] = r]
      BY <1>t DEF TypeOK, BatchRun
    <2> QED
      BY <1>0, <1>2, <1>t, <2>2, <2>3 DEF CronPush, TypeOK
  <1>3. CASE CronEnd(i)
    BY <1>0, <1>3, <1>t DEF CronEnd, TypeOK
  <1>4. CASE BatchCreate(i)
    <2> PICK r, row : /\ r = [cron[i] EXCEPT !.pc = "link", !.s = NewId, !.todo = cron[i].batch]
                      /\ row = NewSettlement(cron[i].batch)
      OBVIOUS
    <2>1. RowLeft /\ NewId \in Settlements
      BY <1>4, NewIdUnused DEF BatchCreate
    <2>2. /\ row \in SettlementRow /\ row # None
          /\ row.requiresApproval = requiresApproval(Sum(cron[i].batch))
      BY <1>t, NewRow DEF BatchRun
    <2>3. /\ cron' = [cron EXCEPT ![i] = r]
          /\ settlement' = [settlement EXCEPT ![NewId] = row]
          /\ UNCHANGED <<now, payment, jobs, confirmer, admin, approvals, crashes>>
      BY <1>4, <1>t DEF BatchCreate, TypeOK, BatchRun
    <2>4. /\ QueueFits' /\ settlement' \in [Settlements -> SettlementRow \cup {None}]
          /\ settlement'[NewId] = row
          /\ \A s \in Settlements : settlement[s] # None => settlement'[s] = settlement[s]
      BY <2>1, <2>2, <2>3, RowAdded
    <2>5. r \in BatchRun /\ r.s = NewId /\ r.batch = cron[i].batch
      BY <1>t, <2>1 DEF BatchRun
    <2>6. cron' \in [Schedulers -> BatchRun] /\ \A j \in Schedulers : cron'[j] = IF j = i THEN r ELSE cron[j]
      BY <1>t, <2>3, <2>5 DEF TypeOK
    <2>8. /\ \A p \in Payments : \/ confirmer'[p] = confirmer[p]
                                 \/ confirmer'[p].pc \in {"link", "enqueue"} => Remembered(confirmer[p].s, {p})'
          /\ \A j \in Schedulers : \/ cron'[j] = cron[j]
                                   \/ cron'[j].pc \in {"link", "enqueue"}
                                         => Remembered(cron[j].s, cron[j].batch)'
          /\ UNCHANGED <<admin, approvals>>
      <3>1. ASSUME NEW j \in Schedulers, j # i PROVE cron'[j] = cron[j]
        BY <2>6, <3>1
      <3>2. ASSUME NEW j \in Schedulers, j = i PROVE Remembered(cron[j].s, cron[j].batch)'
        BY <2>1, <2>2, <2>4, <2>5, <2>6, <3>2 DEF Remembered
      <3> QED
        BY <2>3, <3>1, <3>2
    <2>9. HandlersFit'
      BY <1>t, <2>4, <2>8, RowsKnown
    <2> QED
      BY <1>t, <2>3, <2>4, <2>6, <2>9 DEF IInv, TypeOK
  <1>5. CASE BatchLink(i)
    <2> PICK p \in OldestFirst(cron[i].todo) :
           /\ payment' = [payment EXCEPT ![p] = Link(p, cron[i].s)]
           /\ cron' = [cron EXCEPT ![i].todo = cron[i].todo \ {p},
                                   ![i].pc = IF cron[i].todo = {p} THEN "enqueue" ELSE "link"]
      BY <1>5 DEF BatchLink
    <2> PICK r : r = [cron[i] EXCEPT !.todo = cron[i].todo \ {p},
                                     !.pc = IF cron[i].todo = {p} THEN "enqueue" ELSE "link"]
      OBVIOUS
    <2>0. Remembered(cron[i].s, cron[i].batch) /\ cron[i].s \in Settlements
      BY <1>5, <1>t DEF BatchLink, HandlersFit, Remembered
    <2>1. p \in Payments
      BY <1>t, OldestAmong DEF BatchRun
    <2>2. r \in BatchRun /\ r.s = cron[i].s /\ r.batch = cron[i].batch
      BY <1>t, <2>1 DEF BatchRun
    <2>3. cron' = [cron EXCEPT ![i] = r]
      BY <1>t DEF TypeOK, BatchRun
    <2>4. HandlersFit' /\ cron' \in [Schedulers -> BatchRun]
      <3>1. UNCHANGED <<settlement, confirmer, admin, approvals>>
        BY <1>5 DEF BatchLink
      <3>2. Remembered(r.s, r.batch)
        BY <2>0, <2>2
      <3> QED
        BY <2>2, <2>3, <3>1, <3>2, StepOfCron
    <2>5. payment' \in [Payments -> PaymentRow]
      <3>1. payment[p] \in PaymentRow
        BY <1>t, <2>1 DEF TypeOK
      <3>2. Link(p, cron[i].s) \in PaymentRow
        BY <2>0, <3>1 DEF Link, PaymentRow, PaymentStatuses
      <3> QED
        BY <1>t, <2>1, <3>2 DEF TypeOK
    <2>6. QueueFits'
      BY <1>5, QueueStays DEF BatchLink
    <2> QED
      BY <1>5, <1>t, <2>4, <2>5, <2>6 DEF BatchLink, IInv, TypeOK
  <1>6. CASE BatchEnqueue(i)
    <2> PICK r : r = [cron[i] EXCEPT !.pc = "push", !.batch = {}, !.s = None]
      OBVIOUS
    <2>1. r \in BatchRun /\ r.pc = "push"
      BY <1>t DEF BatchRun
    <2>2. cron' = [cron EXCEPT ![i] = r] /\ UNCHANGED <<settlement, approvals>>
      BY <1>6 DEF BatchEnqueue
    <2>3. HandlersFit' /\ cron' \in [Schedulers -> BatchRun]
      BY <1>6, <2>1, <2>2, StepOfCron DEF BatchEnqueue
    <2>4. Remembered(cron[i].s, cron[i].batch)
      BY <1>6, <1>t DEF BatchEnqueue, HandlersFit
    <2>5. QueueFits' /\ jobs' \in [Settlements -> Nat]
      <3>1. CASE requiresApproval(Sum(cron[i].batch))
        BY <1>6, <1>t, <2>2, <3>1, QueueStays DEF BatchEnqueue, TypeOK
      <3>2. CASE ~requiresApproval(Sum(cron[i].batch))
        <4>1. enqueueSettlement(cron[i].s)
          BY <1>6, <3>2 DEF BatchEnqueue
        <4>2. /\ cron[i].s \in Settlements /\ settlement[cron[i].s] # None
              /\ ~settlement[cron[i].s].requiresApproval
          BY <2>4, <3>2 DEF Remembered
        <4> QED
          BY <2>2, <4>1, <4>2, Enqueued
      <3> QED
        BY <3>1, <3>2
    <2> QED
      BY <1>6, <1>t, <2>3, <2>5 DEF BatchEnqueue, IInv, TypeOK
  <1>7. CASE CrashCron(i)
    <2>1. crashes' \in 0 .. MaxCrashes
      BY <1>7, <1>t DEF CrashCron, TypeOK
    <2> QED
      BY <1>0, <1>7, <1>t, <2>1 DEF CrashCron
  <1> QED
    BY <1>1, <1>2, <1>3, <1>4, <1>5, <1>6, <1>7 DEF CronStep

\* The admin's approval keeps it.
LEMMA AdminFits ==
  ASSUME IInv, NEW a \in Admins, AdminStep(a)
  PROVE  IInv'
  <1> USE IntakeAssumption DEF IntakeAssumption
  <1>t. /\ TypeOK /\ HandlersFit /\ admin[a] \in Approval
        /\ IdleAdmin \in Approval /\ IdleAdmin.pc = "idle"
    BY DEF IInv, TypeOK, IdleAdmin, Approval
  <1>1. ASSUME NEW s \in Settlements, ApproveLoad(a, s) PROVE IInv'
    <2> PICK r : r = [pc |-> "save", s |-> s, todo |-> Linked(s), any |-> Linked(s) # {}]
      OBVIOUS
    <2>1. r \in Approval /\ r.pc = "save" /\ r.s = s
      BY DEF Approval, Linked
    <2>2. HandlersFit' /\ admin' \in [Admins -> Approval]
      BY <1>1, <2>1, StepOfAdmin DEF ApproveLoad
    <2>3. QueueFits'
      BY <1>1, QueueStays DEF ApproveLoad
    <2> QED
      BY <1>1, <1>t, <2>2, <2>3 DEF ApproveLoad, IInv, TypeOK
  <1>2. CASE ApproveSave(a)
    <2> PICK r, row : /\ r = [admin[a] EXCEPT !.pc = "link"]
                      /\ row = [settlement[admin[a].s] EXCEPT !.status = "processing"]
      OBVIOUS
    <2>0. admin[a].s \in Settlements /\ settlement[admin[a].s] \in SettlementRow
      BY <1>2, <1>t DEF ApproveSave, HandlersFit, TypeOK
    <2>1. r \in Approval /\ r.s = admin[a].s
      BY <1>t DEF Approval
    <2>2. /\ row \in SettlementRow /\ row # None
          /\ row.requiresApproval = settlement[admin[a].s].requiresApproval
      <3>1. /\ row \in SettlementRow
            /\ row.requiresApproval = settlement[admin[a].s].requiresApproval
        BY <2>0 DEF SettlementRow, SettlementStatuses
      <3> QED
        BY <3>1
    <2>3. /\ admin' = [admin EXCEPT ![a] = r]
          /\ settlement' = [settlement EXCEPT ![admin[a].s] = row]
          /\ approvals' = approvals \cup {admin[a].s}
          /\ UNCHANGED <<now, payment, jobs, confirmer, cron, crashes>>
      BY <1>2, <1>t DEF ApproveSave, TypeOK
    <2>4. /\ settlement' \in [Settlements -> SettlementRow \cup {None}]
          /\ admin' \in [Admins -> Approval] /\ approvals' \subseteq Settlements
      BY <1>t, <2>0, <2>1, <2>2, <2>3 DEF TypeOK
    <2>5. \A s \in Settlements :
             /\ (settlement'[s] # None) <=> (settlement[s] # None)
             /\ settlement'[s].requiresApproval = settlement[s].requiresApproval
      BY <1>t, <2>0, <2>2, <2>3 DEF TypeOK
    <2>6. \A b \in Admins : admin'[b] = IF b = a THEN r ELSE admin[b]
      BY <1>t, <2>3 DEF TypeOK
    <2>7. HandlersFit'
      <3>1. \A p \in Payments : confirmer'[p].pc \in {"link", "enqueue"}
                => Remembered(confirmer[p].s, {p})'
        BY <1>t, <2>3, <2>5 DEF HandlersFit, Remembered
      <3>2. \A i \in Schedulers : cron'[i].pc \in {"link", "enqueue"}
                => Remembered(cron[i].s, cron[i].batch)'
        BY <1>t, <2>3, <2>5 DEF HandlersFit, Remembered
      <3>3. \A b \in Admins : admin'[b].pc \in {"save", "link"} =>
                admin'[b].s \in Settlements /\ settlement'[admin'[b].s] # None
        <4>1. ASSUME NEW b \in Admins, b # a, admin[b].pc \in {"save", "link"}
              PROVE  admin[b].s \in Settlements /\ settlement'[admin[b].s] # None
          BY <1>t, <2>5, <4>1 DEF HandlersFit
        <4>2. settlement'[admin[a].s] # None
          BY <1>t, <2>0, <2>2, <2>3 DEF TypeOK
        <4> QED
          BY <2>0, <2>1, <2>6, <4>1, <4>2
      <3>4. \A b \in Admins : admin'[b].pc = "link" => admin'[b].s \in approvals'
        BY <1>t, <2>1, <2>3, <2>6 DEF HandlersFit
      <3> QED
        BY <3>1, <3>2, <3>3, <3>4 DEF HandlersFit
    <2>8. QueueFits'
      BY <2>3, <2>5 DEF IInv, QueueFits, Queued
    <2> QED
      BY <1>t, <2>3, <2>4, <2>7, <2>8 DEF IInv, TypeOK
  <1>3. CASE ApproveLink(a)
    <2> PICK p \in admin[a].todo :
           /\ payment' = [payment EXCEPT ![p] = Link(p, admin[a].s)]
           /\ admin' = [admin EXCEPT ![a].todo = admin[a].todo \ {p}]
      BY <1>3 DEF ApproveLink
    <2> PICK r : r = [admin[a] EXCEPT !.todo = admin[a].todo \ {p}]
      OBVIOUS
    <2>0. /\ admin[a].s \in Settlements /\ settlement[admin[a].s] # None
          /\ admin[a].s \in approvals
      BY <1>3, <1>t DEF ApproveLink, HandlersFit
    <2>1. p \in Payments /\ r \in Approval /\ r.s = admin[a].s
      BY <1>t DEF Approval
    <2>2. admin' = [admin EXCEPT ![a] = r]
      BY <1>t DEF TypeOK
    <2>3. HandlersFit' /\ admin' \in [Admins -> Approval]
      <3>1. UNCHANGED <<settlement, confirmer, cron, approvals>>
        BY <1>3 DEF ApproveLink
      <3>2. IInv /\ r.pc = "link"
        BY <1>3 DEF ApproveLink, Approval
      <3> QED
        BY <2>0, <2>1, <2>2, <3>1, <3>2, StepOfAdmin
    <2>4. payment' \in [Payments -> PaymentRow]
      <3>1. payment[p] \in PaymentRow /\ payment \in [Payments -> PaymentRow]
        BY <1>t, <2>1 DEF TypeOK
      <3>2. Link(p, admin[a].s) \in PaymentRow
        BY <2>0, <3>1 DEF Link, PaymentRow, PaymentStatuses
      <3> QED
        BY <3>1, <3>2
    <2>5. QueueFits'
      BY <1>3, QueueStays DEF ApproveLink
    <2> QED
      BY <1>3, <1>t, <2>3, <2>4, <2>5 DEF ApproveLink, IInv, TypeOK
  <1>4. CASE ApproveEnqueue(a)
    <2>0. /\ admin[a].s \in Settlements /\ settlement[admin[a].s] # None
          /\ admin[a].s \in approvals
      BY <1>4, <1>t DEF ApproveEnqueue, HandlersFit
    <2>1. admin' = [admin EXCEPT ![a] = IdleAdmin] /\ UNCHANGED <<settlement, approvals>>
      BY <1>4 DEF ApproveEnqueue
    <2>2. HandlersFit' /\ admin' \in [Admins -> Approval]
      BY <1>4, <1>t, <2>1, StepOfAdmin DEF ApproveEnqueue
    <2>3. QueueFits' /\ jobs' \in [Settlements -> Nat]
      <3>1. CASE enqueueSettlement(admin[a].s)
        BY <2>0, <2>1, <3>1, Enqueued
      <3>2. CASE UNCHANGED jobs
        BY <1>t, <2>1, <3>2, QueueStays DEF TypeOK
      <3> QED
        BY <1>4, <3>1, <3>2 DEF ApproveEnqueue
    <2> QED
      BY <1>4, <1>t, <2>2, <2>3 DEF ApproveEnqueue, IInv, TypeOK
  <1> QED
    BY <1>1, <1>2, <1>3, <1>4 DEF AdminStep

\* Every step keeps it.
LEMMA StepFits == IInv /\ [Next]_vars => IInv'
  <1> SUFFICES ASSUME IInv, [Next]_vars PROVE IInv'
    OBVIOUS
  <1>1. CASE Tick
    <2>1. now' \in 0 .. MaxTime
      BY <1>1, IntakeAssumption DEF Tick, IInv, TypeOK, IntakeAssumption
    <2> QED
      BY <1>1, <2>1 DEF Tick, IInv, TypeOK, HandlersFit, Remembered, QueueFits, Queued
  <1>2. CASE UNCHANGED vars
    BY <1>2 DEF vars, IInv, TypeOK, HandlersFit, Remembered, QueueFits, Queued
  <1> QED
    BY <1>1, <1>2, ConfirmerFits, CronFits, AdminFits DEF Next

\* The inductive invariant always holds.
LEMMA Invariant == Spec => []IInv
  <1> QED
    BY InitFits, StepFits, PTL DEF Spec

--------------------------------------------------------------------------------
\* Rows, queue and the local variables of the handlers keep their types.
THEOREM TypeCorrect == Spec => []TypeOK
  <1>1. IInv => TypeOK
    BY DEF IInv
  <1> QED
    BY <1>1, Invariant, PTL

\* Whatever the amounts, the threshold and the crashes: a settlement that requires
\* approval is queued only after approveSettlement was run for it, by
\* initiateSettlement, by the batch job or by the approval itself.
THEOREM LargeWaits == Spec => []LargeOnlyApproved
  <1>1. IInv => LargeOnlyApproved
    BY DEF IInv, QueueFits, LargeOnlyApproved
  <1> QED
    BY <1>1, Invariant, PTL

--------------------------------------------------------------------------------
\* What a handler knows of the payments it is working on and of the row it has
\* created for them.

Unlinked(p) == payment[p].settlementId = None
Small(p) == Amount[p] < SmallThreshold

\* A confirmer handles a large payment, alone: nobody links it before the
\* confirmer does, and the confirmer's row is linked to nothing else.
ConfirmerOwns(p) ==
    /\ confirmer[p].pc \in {"create", "link", "enqueue"} => ~Small(p)
    /\ ~Small(p) /\ confirmer[p].pc \in {"idle", "create", "link"} => Unlinked(p)
    /\ confirmer[p].pc \in {"link", "enqueue"} =>
          /\ settlement[confirmer[p].s].counted = {p}
          /\ Linked(confirmer[p].s) = IF confirmer[p].pc = "link" THEN {} ELSE {p}

\* A batch run handles small payments that are not linked yet, and its batch is
\* too small to need an approval; the row of the batch is linked to the part of
\* the batch the run is through with.
CronOwns(i) ==
    /\ \A p \in cron[i].rest \cup cron[i].batch \cup cron[i].todo : Small(p)
    /\ \A p \in cron[i].rest \cup cron[i].todo : Unlinked(p)
    /\ cron[i].pc \in {"push", "create"} => \A p \in cron[i].batch : Unlinked(p)
    /\ cron[i].rest \cap cron[i].batch = {}
    /\ cron[i].pc = "push" => Sum(cron[i].batch) <= SmallThreshold
    /\ cron[i].pc \in {"create", "link", "enqueue"} => Sum(cron[i].batch) < 2 * SmallThreshold
    /\ cron[i].pc \in {"link", "enqueue"} =>
          /\ settlement[cron[i].s].counted = cron[i].batch
          /\ cron[i].todo \subseteq cron[i].batch
          /\ Linked(cron[i].s) = cron[i].batch \ cron[i].todo
          /\ cron[i].pc = "enqueue" => cron[i].todo = {}

\* An approval is about a row that required it, and when it found payments it
\* found all that the row counts.
AdminOwns(a) ==
    admin[a].pc \in {"save", "link"} =>
        /\ settlement[admin[a].s].requiresApproval
        /\ admin[a].todo \subseteq Linked(admin[a].s)
        /\ admin[a].any => Linked(admin[a].s) = settlement[admin[a].s].counted

\* A row that requires approval is linked to nothing or to all it counts, a
\* queued row to all it counts, and a row that does not exist to nothing.
RowFits(s) ==
    /\ settlement[s] = None => Linked(s) = {}
    /\ settlement[s] # None /\ settlement[s].requiresApproval
          => Linked(s) \in {{}, settlement[s].counted}
    /\ Queued(s) => Linked(s) = settlement[s].counted

LinkInv ==
    /\ \A p \in Payments : ConfirmerOwns(p)
    /\ \A i \in Schedulers : CronOwns(i)
    /\ \A a \in Admins : AdminOwns(a)
    /\ \A s \in Settlements : RowFits(s)

--------------------------------------------------------------------------------
\* How the links and the rows move.

SameRow(s) ==
    /\ settlement'[s] = None <=> settlement[s] = None
    /\ settlement[s] # None => /\ settlement'[s].counted = settlement[s].counted
                               /\ settlement'[s].requiresApproval = settlement[s].requiresApproval

SameLink(p) == payment'[p].settlementId = payment[p].settlementId

\* A step that leaves the links alone keeps what is linked.
LEMMA LinksStay ==
  ASSUME \A p \in Payments : SameLink(p)
  PROVE  /\ \A s \in Settlements : Linked(s)' = Linked(s)
         /\ \A p \in Payments : Unlinked(p)' <=> Unlinked(p)
  BY DEF SameLink, Linked, Unlinked

\* Linking one payment adds it to the payments of its settlement.
LEMMA OneLinked ==
  ASSUME TypeOK, NEW p \in Payments, NEW s \in Settlements, Unlinked(p),
         payment' = [payment EXCEPT ![p] = Link(p, s)]
  PROVE  /\ Linked(s)' = Linked(s) \cup {p}
         /\ \A t \in Settlements : t # s => Linked(t)' = Linked(t)
         /\ \A q \in Payments : q # p => (Unlinked(q)' <=> Unlinked(q))
  <1>1. /\ payment[p] \in PaymentRow
        /\ \A q \in Payments : payment'[q] = IF q = p THEN Link(p, s) ELSE payment[q]
    BY DEF TypeOK
  <1>2. Link(p, s).settlementId = s
    BY <1>1 DEF Link, PaymentRow
  <1>3. s # None /\ \A t \in Settlements : t # None
    BY IntakeAssumption DEF IntakeAssumption
  <1>4. QED
    BY <1>1, <1>2, <1>3 DEF Linked, Unlinked

\* Handlers that do not move, and rows, keep what is known of them when neither
\* links nor rows change.
LEMMA OwnersKeep ==
  ASSUME IInv, LinkInv, \A p \in Payments : SameLink(p), \A s \in Settlements : SameRow(s)
  PROVE  /\ \A p \in Payments : confirmer'[p] = confirmer[p] => ConfirmerOwns(p)'
         /\ \A i \in Schedulers : cron'[i] = cron[i] => CronOwns(i)'
         /\ \A a \in Admins : admin'[a] = admin[a] => AdminOwns(a)'
         /\ \A s \in Settlements : (Queued(s)' => Queued(s)) => RowFits(s)'
  <1>1. /\ \A s \in Settlements : Linked(s)' = Linked(s)
        /\ \A p \in Payments : Unlinked(p)' <=> Unlinked(p)
    BY LinksStay
  <1>2. ASSUME NEW p \in Payments, confirmer'[p] = confirmer[p]
        PROVE  ConfirmerOwns(p)'
    <2>1. ConfirmerOwns(p)
      BY DEF LinkInv
    <2>2. confirmer[p].pc \in {"link", "enqueue"} =>
             confirmer[p].s \in Settlements /\ settlement[confirmer[p].s] # None
      BY DEF IInv, HandlersFit, Remembered
    <2>3. QED
      BY <1>1, <1>2, <2>1, <2>2 DEF ConfirmerOwns, SameRow, Small
  <1>3. ASSUME NEW i \in Schedulers, cron'[i] = cron[i]
        PROVE  CronOwns(i)'
    <2>1. CronOwns(i)
      BY DEF LinkInv
    <2>2. cron[i].pc \in {"link", "enqueue"} =>
             cron[i].s \in Settlements /\ settlement[cron[i].s] # None
      BY DEF IInv, HandlersFit, Remembered
    <2>3. cron[i].rest \subseteq Payments /\ cron[i].batch \subseteq Payments /\ cron[i].todo \subseteq Payments
      BY DEF IInv, TypeOK, BatchRun
    <2>4. QED
      BY <1>1, <1>3, <2>1, <2>2, <2>3 DEF CronOwns, SameRow, Small, Sum
  <1>4. ASSUME NEW a \in Admins, admin'[a] = admin[a]
        PROVE  AdminOwns(a)'
    <2>1. AdminOwns(a)
      BY DEF LinkInv
    <2>2. admin[a].pc \in {"save", "link"} =>
             admin[a].s \in Settlements /\ settlement[admin[a].s] # None
      BY DEF IInv, HandlersFit
    <2>3. QED
      BY <1>1, <1>4, <2>1, <2>2 DEF AdminOwns, SameRow
  <1>5. ASSUME NEW s \in Settlements, Queued(s)' => Queued(s)
        PROVE  RowFits(s)'
    <2>1. RowFits(s) /\ SameRow(s) /\ (Queued(s) => settlement[s] # None)
      BY DEF LinkInv, IInv, QueueFits
    <2>2. QED
      BY <1>1, <1>5, <2>1 DEF RowFits, SameRow
  <1>6. QED
    BY <1>2, <1>3, <1>4, <1>5

\* The same when payment p, unlinked so far, is linked to row s, for those who
\* have nothing to do with p and s.
LEMMA OthersKeep ==
  ASSUME IInv, LinkInv, NEW p \in Payments, NEW s \in Settlements, Unlinked(p),
         payment' = [payment EXCEPT ![p] = Link(p, s)], settlement' = settlement
  PROVE  /\ \A q \in Payments : confirmer'[q] = confirmer[q] /\ q # p /\ p \in settlement[s].counted
                                   /\ (settlement[s].counted = {p} \/ Small(q) \/ q \notin settlement[s].counted)
                                   => ConfirmerOwns(q)'
         /\ \A i \in Schedulers : cron'[i] = cron[i] /\ ~Small(p) /\ p \in settlement[s].counted => CronOwns(i)'
         /\ \A a \in Admins : admin'[a] = admin[a] /\ p \in settlement[s].counted => AdminOwns(a)'
         /\ \A t \in Settlements : t # s /\ jobs' = jobs => RowFits(t)'
  <1>1. /\ Linked(s)' = Linked(s) \cup {p}
        /\ \A t \in Settlements : t # s => Linked(t)' = Linked(t)
        /\ \A q \in Payments : q # p => (Unlinked(q)' <=> Unlinked(q))
    BY OneLinked DEF IInv
  <1>0. p \notin Linked(s)
    BY IntakeAssumption DEF Linked, Unlinked, IntakeAssumption
  <1>2. ASSUME NEW q \in Payments, confirmer'[q] = confirmer[q], q # p, p \in settlement[s].counted,
               settlement[s].counted = {p} \/ Small(q) \/ q \notin settlement[s].counted
        PROVE  ConfirmerOwns(q)'
    <2>1. ConfirmerOwns(q)
      BY DEF LinkInv
    <2>2. confirmer[q].pc \in {"link", "enqueue"} => confirmer[q].s \in Settlements /\ confirmer[q].s # s
      <3>1. confirmer[q].pc \in {"link", "enqueue"} => confirmer[q].s \in Settlements
        BY DEF IInv, HandlersFit, Remembered
      <3>2. QED
        BY <1>2, <2>1, <3>1 DEF ConfirmerOwns
    <2>3. QED
      BY <1>1, <1>2, <2>1, <2>2 DEF ConfirmerOwns, Small
  <1>3. ASSUME NEW i \in Schedulers, cron'[i] = cron[i], ~Small(p), p \in settlement[s].counted
        PROVE  CronOwns(i)'
    <2>1. CronOwns(i)
      BY DEF LinkInv
    <2>2. cron[i].pc \in {"link", "enqueue"} => cron[i].s \in Settlements /\ cron[i].s # s
      <3>1. cron[i].pc \in {"link", "enqueue"} => cron[i].s \in Settlements
        BY DEF IInv, HandlersFit, Remembered
      <3>2. QED
        BY <1>3, <2>1, <3>1 DEF CronOwns
    <2>3. /\ cron[i].rest \subseteq Payments /\ cron[i].batch \subseteq Payments
          /\ cron[i].todo \subseteq Payments
          /\ p \notin cron[i].rest /\ p \notin cron[i].batch /\ p \notin cron[i].todo
      BY <1>3, <2>1 DEF IInv, TypeOK, BatchRun, CronOwns
    <2>4. QED
      BY <1>1, <1>3, <2>1, <2>2, <2>3 DEF CronOwns, Small, Sum
  <1>4. ASSUME NEW a \in Admins, admin'[a] = admin[a], p \in settlement[s].counted
        PROVE  AdminOwns(a)'
    <2>1. AdminOwns(a)
      BY DEF LinkInv
    <2>2. admin[a].pc \in {"save", "link"} => admin[a].s \in Settlements
      BY DEF IInv, HandlersFit
    <2>3. CASE admin[a].s = s
      <3>1. admin[a].pc \in {"save", "link"} => ~admin[a].any
        BY <1>0, <1>4, <2>1, <2>3 DEF AdminOwns
      <3>2. QED
        BY <1>1, <1>4, <2>1, <2>3, <3>1 DEF AdminOwns
    <2>4. CASE admin[a].s # s
      BY <1>1, <1>4, <2>1, <2>2, <2>4 DEF AdminOwns
    <2>5. QED
      BY <2>3, <2>4
  <1>5. ASSUME NEW t \in Settlements, t # s, jobs' = jobs
        PROVE  RowFits(t)'
    <2>1. RowFits(t)
      BY DEF LinkInv
    <2>2. QED
      BY <1>1, <1>5, <2>1 DEF RowFits, Queued
  <1>6. QED
    BY <1>2, <1>3, <1>4, <1>5

\* A new row, linked to nothing yet, does not concern the others.
LEMMA RowAddedKeeps ==
  ASSUME IInv, LinkInv, RowLeft, NEW row \in SettlementRow,
         settlement' = [settlement EXCEPT ![NewId] = row], UNCHANGED <<payment, jobs>>
  PROVE  /\ \A p \in Payments : confirmer'[p] = confirmer[p] => ConfirmerOwns(p)'
         /\ \A i \in Schedulers : cron'[i] = cron[i] => CronOwns(i)'
         /\ \A a \in Admins : admin'[a] = admin[a] => AdminOwns(a)'
         /\ \A s \in Settlements : RowFits(s)'
         /\ \A s \in Settlements : s = NewId => Linked(s)' = {} /\ settlement'[s] = row
         /\ \A p \in Payments : Unlinked(p)' <=> Unlinked(p)
  <1>1. /\ \A s \in Settlements : Linked(s)' = Linked(s)
        /\ \A p \in Payments : Unlinked(p)' <=> Unlinked(p)
    BY DEF Linked, Unlinked
  <1>2. /\ NewId \in Settlements /\ settlement[NewId] = None
        /\ \A s \in Settlements : s # NewId => settlement'[s] = settlement[s]
        /\ settlement'[NewId] = row
    BY NewIdUnused DEF IInv, TypeOK
  <1>3. Linked(NewId) = {} /\ ~Queued(NewId)
    BY <1>2 DEF LinkInv, RowFits, IInv, QueueFits
  <1>4. ASSUME NEW p \in Payments, confirmer'[p] = confirmer[p]
        PROVE  ConfirmerOwns(p)'
    <2>1. ConfirmerOwns(p)
      BY DEF LinkInv
    <2>2. confirmer[p].pc \in {"link", "enqueue"} =>
             confirmer[p].s \in Settlements /\ confirmer[p].s # NewId
      BY <1>2 DEF IInv, HandlersFit, Remembered
    <2>3. QED
      BY <1>1, <1>2, <1>4, <2>1, <2>2 DEF ConfirmerOwns, Small
  <1>5. ASSUME NEW i \in Schedulers, cron'[i] = cron[i]
        PROVE  CronOwns(i)'
    <2>1. CronOwns(i)
      BY DEF LinkInv
    <2>2. cron[i].pc \in {"link", "enqueue"} => cron[i].s \in Settlements /\ cron[i].s # NewId
      BY <1>2 DEF IInv, HandlersFit, Remembered
    <2>3. cron[i].rest \subseteq Payments /\ cron[i].batch \subseteq Payments /\ cron[i].todo \subseteq Payments
      BY DEF IInv, TypeOK, BatchRun
    <2>4. QED
      BY <1>1, <1>2, <1>5, <2>1, <2>2, <2>3 DEF CronOwns, Small, Sum
  <1>6. ASSUME NEW a \in Admins, admin'[a] = admin[a]
        PROVE  AdminOwns(a)'
    <2>1. AdminOwns(a)
      BY DEF LinkInv
    <2>2. admin[a].pc \in {"save", "link"} => admin[a].s \in Settlements /\ admin[a].s # NewId
      BY <1>2 DEF IInv, HandlersFit
    <2>3. QED
      BY <1>1, <1>2, <1>6, <2>1, <2>2 DEF AdminOwns
  <1>7. ASSUME NEW s \in Settlements
        PROVE  RowFits(s)'
    <2>1. CASE s = NewId
      <3>1. ~Queued(s)' /\ settlement'[s] # None
        BY <1>2, <1>3, <2>1, IntakeAssumption DEF Queued, IntakeAssumption
      <3>2. QED
        BY <1>1, <1>3, <2>1, <3>1 DEF RowFits
    <2>2. CASE s # NewId
      <3>1. RowFits(s)
        BY DEF LinkInv
      <3>2. QED
        BY <1>1, <1>2, <2>2, <3>1 DEF RowFits, Queued
    <2>3. QED
      BY <2>1, <2>2
  <1>8. QED
    BY <1>1, <1>2, <1>3, <1>4, <1>5, <1>6, <1>7

\* The confirmation handler keeps links and totals together.
LEMMA ConfirmerLinks ==
  ASSUME IInv, LinkInv, NEW p \in Payments, ConfirmerStep(p) \/ CrashConfirmer(p)
  PROVE  LinkInv'
  <1>t. /\ confirmer \in [Payments -> Handler] /\ confirmer[p] \in Handler
        /\ payment \in [Payments -> PaymentRow] /\ payment[p] \in PaymentRow
        /\ ConfirmerOwns(p)
    BY DEF IInv, TypeOK, LinkInv
  <1>0. ASSUME \A q \in Payments : SameLink(q), \A s \in Settlements : SameRow(s),
               \A q \in Payments : q # p => confirmer'[q] = confirmer[q],
               UNCHANGED <<cron, admin>>, ConfirmerOwns(p)',
               \A s \in Settlements : (Queued(s)' => Queued(s)) \/ RowFits(s)'
        PROVE  LinkInv'
    BY <1>0, OwnersKeep DEF LinkInv
  <1>1. CASE ConfirmPayment(p)
    <2>1. /\ confirmer'[p].pc = IF Small(p) THEN "done" ELSE "create"
          /\ \A q \in Payments : q # p => confirmer'[q] = confirmer[q]
      BY <1>1, <1>t DEF ConfirmPayment, Small, Handler
    <2>2. \A q \in Payments : SameLink(q)
      BY <1>1, <1>t DEF ConfirmPayment, SameLink, PaymentRow
    <2>3. \A s \in Settlements : SameRow(s)
      BY <1>1 DEF ConfirmPayment, SameRow
    <2>4. ~Small(p) => Unlinked(p)
      BY <1>1, <1>t DEF ConfirmPayment, ConfirmerOwns
    <2>5. ConfirmerOwns(p)'
      BY <2>1, <2>2, <2>4, LinksStay DEF ConfirmerOwns, Small
    <2>6. QED
      BY <1>0, <1>1, <2>1, <2>2, <2>3, <2>5 DEF ConfirmPayment, Queued
  <1>2. CASE InitiateCreate(p)
    <2>1. PICK s, row : s = NewId /\ row = NewSettlement({p})
      OBVIOUS
    <2>2. RowLeft /\ s \in Settlements /\ row \in SettlementRow /\ row.counted = {p}
      BY <1>2, <2>1, NewIdUnused, NewRow DEF InitiateCreate, NewSettlement
    <2>3. /\ settlement' = [settlement EXCEPT ![NewId] = row]
          /\ UNCHANGED <<payment, jobs, cron, admin>>
          /\ confirmer' = [confirmer EXCEPT ![p] = [pc |-> "link", s |-> s]]
      BY <1>2, <2>1 DEF InitiateCreate
    <2>4. /\ \A q \in Payments : confirmer'[q] = confirmer[q] => ConfirmerOwns(q)'
          /\ \A i \in Schedulers : cron'[i] = cron[i] => CronOwns(i)'
          /\ \A a \in Admins : admin'[a] = admin[a] => AdminOwns(a)'
          /\ \A x \in Settlements : RowFits(x)'
          /\ Linked(s)' = {} /\ settlement'[s] = row
          /\ \A q \in Payments : Unlinked(q)' <=> Unlinked(q)
      BY <2>1, <2>2, <2>3, RowAddedKeeps
    <2>5. /\ confirmer'[p].pc = "link" /\ confirmer'[p].s = s
          /\ \A q \in Payments : q # p => confirmer'[q] = confirmer[q]
      BY <1>t, <2>3
    <2>6. ~Small(p) /\ Unlinked(p)
      BY <1>2, <1>t DEF InitiateCreate, ConfirmerOwns
    <2>7. ConfirmerOwns(p)'
      BY <2>2, <2>4, <2>5, <2>6 DEF ConfirmerOwns, Small
    <2>8. QED
      BY <2>3, <2>4, <2>5, <2>7 DEF LinkInv
  <1>3. CASE InitiateLink(p)
    <2>1. PICK s : s = confirmer[p].s
      OBVIOUS
    <2>2. s \in Settlements /\ settlement[s] # None
      BY <1>3, <2>1 DEF InitiateLink, IInv, HandlersFit, Remembered
    <2>3. settlement[s].counted = {p} /\ Linked(s) = {} /\ ~Small(p) /\ Unlinked(p)
      BY <1>3, <1>t, <2>1 DEF InitiateLink, ConfirmerOwns
    <2>4. /\ payment' = [payment EXCEPT ![p] = Link(p, s)]
          /\ UNCHANGED <<settlement, jobs, cron, admin>>
          /\ confirmer' = [confirmer EXCEPT ![p].pc = "enqueue"]
      BY <1>3, <2>1 DEF InitiateLink
    <2>5. /\ confirmer'[p].pc = "enqueue" /\ confirmer'[p].s = s
          /\ \A q \in Payments : q # p => confirmer'[q] = confirmer[q]
      BY <1>t, <2>1, <2>4 DEF Handler
    <2>6. Linked(s)' = {p}
      BY <2>2, <2>3, <2>4, OneLinked DEF IInv
    <2>7. ConfirmerOwns(p)'
      BY <2>3, <2>4, <2>5, <2>6 DEF ConfirmerOwns, Small
    <2>8. RowFits(s)'
      BY <2>2, <2>3, <2>4, <2>6 DEF RowFits
    <2>9. /\ \A q \in Payments : q # p => ConfirmerOwns(q)'
          /\ \A i \in Schedulers : CronOwns(i)'
          /\ \A a \in Admins : AdminOwns(a)'
          /\ \A t \in Settlements : t # s => RowFits(t)'
      BY <2>2, <2>3, <2>4, <2>5, OthersKeep
    <2>10. QED
      BY <2>7, <2>8, <2>9 DEF LinkInv
  <1>4. CASE InitiateEnqueue(p)
    <2>1. PICK s : s = confirmer[p].s
      OBVIOUS
    <2>2. s \in Settlements /\ settlement[s] # None
      BY <1>4, <2>1 DEF InitiateEnqueue, IInv, HandlersFit, Remembered
    <2>3. settlement[s].counted = {p} /\ Linked(s) = {p} /\ ~Small(p)
      BY <1>4, <1>t, <2>1 DEF InitiateEnqueue, ConfirmerOwns
    <2>4. /\ UNCHANGED <<payment, settlement, cron, admin>>
          /\ confirmer' = [confirmer EXCEPT ![p].pc = "done"]
          /\ \A t \in Settlements : t # s => jobs'[t] = jobs[t]
      BY <1>4, <2>1 DEF InitiateEnqueue, enqueueSettlement, IInv, TypeOK
    <2>5. /\ confirmer'[p].pc = "done"
          /\ \A q \in Payments : q # p => confirmer'[q] = confirmer[q]
      BY <1>t, <2>4 DEF Handler
    <2>6. (\A q \in Payments : SameLink(q)) /\ \A t \in Settlements : SameRow(t)
      BY <2>4 DEF SameLink, SameRow
    <2>7. RowFits(s)'
      BY <2>2, <2>3, <2>4, <2>6, LinksStay DEF RowFits
    <2>8. ConfirmerOwns(p)'
      BY <2>5 DEF ConfirmerOwns
    <2>9. QED
      BY <1>0, <2>4, <2>5, <2>6, <2>7, <2>8 DEF Queued
  <1>5. CASE CrashConfirmer(p)
    <2>1. /\ confirmer'[p].pc = "done" /\ UNCHANGED <<payment, settlement, jobs, cron, admin>>
          /\ \A q \in Payments : q # p => confirmer'[q] = confirmer[q]
      BY <1>5, <1>t DEF CrashConfirmer
    <2>2. (\A q \in Payments : SameLink(q)) /\ \A t \in Settlements : SameRow(t)
      BY <2>1 DEF SameLink, SameRow
    <2>3. ConfirmerOwns(p)'
      BY <2>1 DEF ConfirmerOwns
    <2>4. QED
      BY <1>0, <2>1, <2>2, <2>3 DEF Queued
  <1>6. QED
    BY <1>1, <1>2, <1>3, <1>4, <1>5 DEF ConfirmerStep

\* An approval starts from all the payments of its row and links them to it again.
LEMMA AdminLinks ==
  ASSUME IInv, LinkInv, NEW a \in Admins, AdminStep(a)
  PROVE  LinkInv'
  <1>t. /\ admin \in [Admins -> Approval] /\ admin[a] \in Approval /\ AdminOwns(a)
        /\ payment \in [Payments -> PaymentRow]
        /\ settlement \in [Settlements -> SettlementRow \cup {None}]
    BY DEF IInv, TypeOK, LinkInv
  <1>0. ASSUME \A q \in Payments : SameLink(q), \A s \in Settlements : SameRow(s),
               \A b \in Admins : b # a => admin'[b] = admin[b],
               UNCHANGED <<cron, confirmer>>, AdminOwns(a)',
               \A s \in Settlements : (Queued(s)' => Queued(s)) \/ RowFits(s)'
        PROVE  LinkInv'
    BY <1>0, OwnersKeep DEF LinkInv
  <1>1. ASSUME NEW s \in Settlements, ApproveLoad(a, s) PROVE LinkInv'
    <2>1. /\ admin' = [admin EXCEPT ![a] = [pc |-> "save", s |-> s, todo |-> Linked(s),
                                            any |-> Linked(s) # {}]]
          /\ UNCHANGED <<payment, settlement, jobs, confirmer, cron>>
          /\ settlement[s] # None /\ settlement[s].requiresApproval
      BY <1>1 DEF ApproveLoad
    <2>2. /\ admin'[a].pc = "save" /\ admin'[a].s = s /\ admin'[a].todo = Linked(s)
          /\ admin'[a].any = (Linked(s) # {})
          /\ \A b \in Admins : b # a => admin'[b] = admin[b]
      BY <1>t, <2>1
    <2>3. (\A q \in Payments : SameLink(q)) /\ \A x \in Settlements : SameRow(x)
      BY <2>1 DEF SameLink, SameRow
    <2>4. Linked(s) # {} => Linked(s) = settlement[s].counted
      BY <2>1 DEF LinkInv, RowFits
    <2>5. AdminOwns(a)'
      BY <2>1, <2>2, <2>3, <2>4, LinksStay DEF AdminOwns
    <2>6. QED
      BY <1>0, <2>1, <2>2, <2>3, <2>5 DEF Queued
  <1>2. CASE ApproveSave(a)
    <2>1. PICK s : s = admin[a].s
      OBVIOUS
    <2>2. s \in Settlements /\ settlement[s] # None /\ settlement[s] \in SettlementRow
      BY <1>2, <1>t, <2>1 DEF ApproveSave, IInv, HandlersFit
    <2>3. /\ settlement' = [settlement EXCEPT ![s].status = "processing"]
          /\ admin' = [admin EXCEPT ![a].pc = "link"]
          /\ UNCHANGED <<payment, jobs, confirmer, cron>>
      BY <1>2, <2>1 DEF ApproveSave
    <2>4. /\ admin'[a].s = s /\ admin'[a].todo = admin[a].todo /\ admin'[a].any = admin[a].any
          /\ \A b \in Admins : b # a => admin'[b] = admin[b]
      BY <1>t, <2>1, <2>3 DEF Approval
    <2>5. \A q \in Payments : SameLink(q)
      BY <2>3 DEF SameLink
    <2>6. \A x \in Settlements : SameRow(x)
      <3>1. TAKE x \in Settlements
      <3>2. CASE x # s
        BY <1>t, <2>3, <3>2 DEF SameRow
      <3>3. CASE x = s
        <4>1. settlement'[s] = [settlement[s] EXCEPT !.status = "processing"]
          BY <1>t, <2>2, <2>3
        <4>2. /\ settlement'[s] \in SettlementRow
              /\ settlement'[s].counted = settlement[s].counted
              /\ settlement'[s].requiresApproval = settlement[s].requiresApproval
          BY <2>2, <4>1 DEF SettlementRow, SettlementStatuses
        <4>3. settlement'[s] # None
          BY <4>2, IntakeAssumption DEF IntakeAssumption
        <4>4. QED
          BY <2>2, <3>3, <4>2, <4>3 DEF SameRow
      <3>4. QED
        BY <3>2, <3>3
    <2>7. AdminOwns(a)'
      <3>1. /\ settlement[s].requiresApproval /\ admin[a].todo \subseteq Linked(s)
            /\ admin[a].any => Linked(s) = settlement[s].counted
        BY <1>2, <1>t, <2>1 DEF ApproveSave, AdminOwns
      <3>2. /\ settlement'[s].requiresApproval = settlement[s].requiresApproval
            /\ settlement'[s].counted = settlement[s].counted
        BY <2>2, <2>6 DEF SameRow
      <3>3. Linked(s)' = Linked(s)
        BY <2>2, <2>5, LinksStay
      <3>4. QED
        BY <2>4, <3>1, <3>2, <3>3 DEF AdminOwns
    <2>8. QED
      BY <1>0, <2>3, <2>4, <2>5, <2>6, <2>7 DEF Queued
  <1>3. CASE ApproveLink(a)
    <2>1. PICK p \in admin[a].todo :
             /\ payment' = [payment EXCEPT ![p] = Link(p, admin[a].s)]
             /\ admin' = [admin EXCEPT ![a].todo = admin[a].todo \ {p}]
      BY <1>3 DEF ApproveLink
    <2>2. /\ admin'[a].s = admin[a].s /\ admin'[a].pc = admin[a].pc
          /\ admin'[a].any = admin[a].any /\ admin'[a].todo \subseteq admin[a].todo
          /\ \A b \in Admins : b # a => admin'[b] = admin[b]
      BY <1>t, <2>1 DEF Approval
    <2>3. UNCHANGED <<settlement, jobs, confirmer, cron>>
      BY <1>3 DEF ApproveLink
    <2>4. /\ settlement[admin[a].s].requiresApproval /\ admin[a].todo \subseteq Linked(admin[a].s)
          /\ admin[a].any => Linked(admin[a].s) = settlement[admin[a].s].counted
          /\ admin[a].s \in Settlements
      BY <1>3, <1>t DEF ApproveLink, AdminOwns, IInv, HandlersFit
    <2>5. p \in Payments /\ payment[p].settlementId = admin[a].s
      BY <2>1, <2>4 DEF Linked
    <2>6. \A q \in Payments : SameLink(q)
      <3>1. payment'[p] = Link(p, admin[a].s) /\ \A q \in Payments : q # p => payment'[q] = payment[q]
        BY <1>t, <2>1, <2>5
      <3>2. Link(p, admin[a].s).settlementId = admin[a].s
        BY <1>t, <2>5 DEF Link, PaymentRow
      <3>3. QED
        BY <2>5, <3>1, <3>2 DEF SameLink
    <2>7. \A x \in Settlements : SameRow(x)
      BY <2>3 DEF SameRow
    <2>8. Linked(admin[a].s)' = Linked(admin[a].s)
      <3>1. PICK s : s = admin[a].s
        OBVIOUS
      <3>2. Linked(s)' = Linked(s) /\ admin'[a].s = s
        BY <2>2, <2>4, <2>6, <3>1, LinksStay
      <3>3. QED
        BY <3>1, <3>2 DEF Linked
    <2>9. AdminOwns(a)'
      BY <2>2, <2>3, <2>4, <2>8 DEF AdminOwns
    <2>10. QED
      BY <1>0, <2>2, <2>3, <2>6, <2>7, <2>9 DEF Queued
  <1>4. CASE ApproveEnqueue(a)
    <2>1. PICK s : s = admin[a].s
      OBVIOUS
    <2>2. s \in Settlements /\ settlement[s] # None
      BY <1>4, <2>1 DEF ApproveEnqueue, IInv, HandlersFit
    <2>3. admin[a].any => Linked(s) = settlement[s].counted
      BY <1>4, <1>t, <2>1 DEF ApproveEnqueue, AdminOwns
    <2>4. /\ admin' = [admin EXCEPT ![a] = IdleAdmin]
          /\ UNCHANGED <<payment, settlement, confirmer, cron>>
          /\ ~admin[a].any => jobs' = jobs
          /\ \A t \in Settlements : t # s => jobs'[t] = jobs[t]
      BY <1>4, <2>1 DEF ApproveEnqueue, enqueueSettlement, IInv, TypeOK
    <2>5. /\ admin'[a].pc = "idle"
          /\ \A b \in Admins : b # a => admin'[b] = admin[b]
      BY <1>t, <2>4 DEF IdleAdmin
    <2>6. (\A q \in Payments : SameLink(q)) /\ \A t \in Settlements : SameRow(t)
      BY <2>4 DEF SameLink, SameRow
    <2>7. admin[a].any => RowFits(s)'
      <3>1. RowFits(s)
        BY <2>2 DEF LinkInv
      <3>2. QED
        BY <2>2, <2>3, <2>4, <2>6, <3>1, LinksStay DEF RowFits
    <2>8. AdminOwns(a)'
      BY <2>5 DEF AdminOwns
    <2>9. QED
      BY <1>0, <2>4, <2>5, <2>6, <2>7, <2>8 DEF Queued
  <1>5. QED
    BY <1>1, <1>2, <1>3, <1>4 DEF AdminStep

--------------------------------------------------------------------------------
\* The totals of a batch.

\* The sum of a set of payments is a number.
LEMMA SumType ==
  ASSUME NEW S \in SUBSET Payments
  PROVE  IsFiniteSet(S) /\ Sum(S) \in Int /\ \A p \in S : Amount[p] \in Nat
  <1>1. IsFiniteSet(S) /\ \A p \in S : Amount[p] \in Nat /\ Amount[p] \in Int
    BY ThresholdsAssumption, IntakeAssumption, FS_Subset DEF ThresholdsAssumption, IntakeAssumption
  <1>2. QED
    BY <1>1, SumIsInt DEF Sum, SumOver

\* A payment pushed onto a part of S adds its own amount to the sum at most.
LEMMA SumOfBatch ==
  ASSUME NEW S \in SUBSET Payments, NEW R \in SUBSET S, NEW p \in Payments, p \notin S
  PROVE  Sum(R \cup {p}) <= Sum(S) + Amount[p]
  <1>1. /\ IsFiniteSet(S) /\ IsFiniteSet(R) /\ Sum(R) \in Int /\ Sum(S) \in Int
        /\ \A q \in S : Amount[q] \in Nat
    BY SumType
  <1>2. Amount[p] \in Nat /\ \A q \in R \cup {p} : Amount[q] \in Int
    BY IntakeAssumption DEF IntakeAssumption
  <1>3. Sum(R) <= Sum(S)
    BY <1>1, SumOfPart DEF Sum, SumOver
  <1>4. Sum(R \cup {p}) = Amount[p] + Sum(R)
    <2>1. p \notin R
      OBVIOUS
    <2>2. SumOver(Amount, R \cup {p}) = Amount[p] + SumOver(Amount, R)
      BY <1>1, <1>2, <2>1, SumWithOneMore
    <2>3. QED
      BY <2>2 DEF Sum, SumOver
  <1>5. QED
    BY <1>1, <1>2, <1>3, <1>4

\* A batch of less than twice the small threshold needs no approval.
LEMMA BatchNeedsNoApproval ==
  ASSUME NEW S \in SUBSET Payments, Sum(S) < 2 * SmallThreshold
  PROVE  ~requiresApproval(Sum(S))
  <1>1. PICK k : k = Sum(S)
    OBVIOUS
  <1>2. k \in Int /\ k < 2 * SmallThreshold /\ (S # {} => k >= 0)
    <2>1. Sum({}) = 0
      BY SumOfNothing DEF Sum, SumOver
    <2>2. Sum({}) <= Sum(S)
      BY SumType, SumOfPart DEF Sum, SumOver
    <2>3. QED
      BY <1>1, <2>1, <2>2, SumType
  <1>3. 985 * k < 1000 * LargeThreshold
    BY <1>2, ThresholdsAssumption, IntakeAssumption DEF ThresholdsAssumption, IntakeAssumption
  <1>4. QED
    BY <1>1, <1>2, <1>3, IntakeAssumption DEF requiresApproval, NetMills, IntakeAssumption

--------------------------------------------------------------------------------
\* With one scheduler, what a batch run has read about its payments stays true
\* until it links them.
OneScheduler == \A i, j \in Schedulers : i = j

\* The only scheduler keeps links and totals together.
LEMMA CronLinks ==
  ASSUME IInv, LinkInv, OneScheduler, NEW i \in Schedulers, CronStep(i) \/ CrashCron(i)
  PROVE  LinkInv'
  <1>t. /\ cron \in [Schedulers -> BatchRun] /\ cron[i] \in BatchRun /\ CronOwns(i)
        /\ cron[i].rest \subseteq Payments /\ cron[i].batch \subseteq Payments
        /\ cron[i].todo \subseteq Payments
        /\ SmallThreshold \in Nat /\ \A p \in Payments : Amount[p] \in Nat
    BY IntakeAssumption DEF IInv, TypeOK, LinkInv, BatchRun, IntakeAssumption
  <1>i. \A j \in Schedulers : j = i
    BY DEF OneScheduler
  <1>e. Sum({}) = 0
    BY SumOfNothing DEF Sum, SumOver
  <1>0. ASSUME UNCHANGED <<payment, settlement, admin, confirmer>>, CronOwns(i)',
               \A s \in Settlements : (Queued(s)' => Queued(s)) \/ RowFits(s)'
        PROVE  LinkInv'
    <2>1. (\A q \in Payments : SameLink(q)) /\ \A s \in Settlements : SameRow(s)
      BY <1>0 DEF SameLink, SameRow
    <2>2. QED
      BY <1>0, <1>i, <2>1, OwnersKeep DEF LinkInv
  <1>c. ASSUME cron' = [cron EXCEPT ![i] = IdleCron] PROVE CronOwns(i)'
    BY <1>c, <1>t, <1>e DEF IdleCron, CronOwns
  <1>1. CASE CronFind(i)
    <2>1. PICK r : r = [IdleCron EXCEPT !.pc = "push", !.rest = Waiting]
      OBVIOUS
    <2>2. r.pc = "push" /\ r.rest = Waiting /\ r.batch = {} /\ r.todo = {}
      BY <2>1 DEF IdleCron
    <2>3. cron'[i] = r /\ UNCHANGED <<payment, settlement, jobs, admin, confirmer>>
      BY <1>1, <1>t, <2>1 DEF CronFind
    <2>4. \A p \in Waiting : p \in Payments /\ Small(p) /\ Unlinked(p) /\ (Unlinked(p)' <=> Unlinked(p))
      BY <2>3 DEF Waiting, Small, Unlinked
    <2>5. CronOwns(i)'
      <3>1. Sum({})' <= SmallThreshold
        BY <1>e, <1>t DEF Sum
      <3>2. QED
        BY <2>2, <2>3, <2>4, <3>1 DEF CronOwns, Small
    <2>6. QED
      BY <1>0, <2>3, <2>5 DEF Queued
  <1>2. CASE CronPush(i)
    <2>0. PICK p \in NextToPush(i) :
             LET batch == {b \in cron[i].batch : MerchantOf[b] = MerchantOf[p]} \cup {p}
             IN  cron' = [cron EXCEPT ![i].rest = cron[i].rest \ {p}, ![i].batch = batch,
                                      ![i].pc = IF shouldFlush(batch) THEN "create" ELSE "push"]
      BY <1>2 DEF CronPush
    <2>1. PICK R : /\ R = {b \in cron[i].batch : MerchantOf[b] = MerchantOf[p]}
                   /\ cron' = [cron EXCEPT ![i].rest = cron[i].rest \ {p}, ![i].batch = R \cup {p},
                      ![i].pc = IF shouldFlush(R \cup {p}) THEN "create" ELSE "push"]
      BY <2>0
    <2>2. p \in cron[i].rest /\ R \subseteq cron[i].batch /\ p \in Payments
      BY <1>t, <2>1, PushedFromRest
    <2>3. UNCHANGED <<payment, settlement, jobs, admin, confirmer>> /\ cron[i].pc = "push"
      BY <1>2 DEF CronPush
    <2>4. /\ cron'[i].rest = cron[i].rest \ {p} /\ cron'[i].batch = R \cup {p}
          /\ cron'[i].todo = cron[i].todo
          /\ cron'[i].pc = IF shouldFlush(R \cup {p}) THEN "create" ELSE "push"
      BY <1>t, <2>1 DEF BatchRun
    <2>5. p \notin cron[i].batch /\ Small(p) /\ Unlinked(p) /\ Sum(cron[i].batch) <= SmallThreshold
      BY <1>t, <2>2, <2>3 DEF CronOwns
    <2>6. Sum(R \cup {p}) <= Sum(cron[i].batch) + Amount[p]
      BY <1>t, <2>2, <2>5, SumOfBatch
    <2>7. Sum(R \cup {p}) \in Int /\ Sum(cron[i].batch) \in Int
      BY <1>t, <2>2, SumType
    <2>8. Sum(R \cup {p}) < 2 * SmallThreshold
      BY <1>t, <2>2, <2>5, <2>6, <2>7 DEF Small
    <2>9. ~shouldFlush(R \cup {p}) => Sum(R \cup {p}) <= SmallThreshold
      BY <1>t, <2>7 DEF shouldFlush
    <2>10. \A q \in Payments : Unlinked(q)' <=> Unlinked(q)
      BY <2>3 DEF Unlinked
    <2>11. CronOwns(i)'
      <3>1. Sum(cron[i].batch)' = Sum(R \cup {p})
        BY <2>4 DEF Sum
      <3>2. \A q \in cron[i].rest \cup cron[i].batch \cup cron[i].todo : Small(q)
        BY <1>t DEF CronOwns
      <3>3. \A q \in cron[i].rest \cup cron[i].todo \cup cron[i].batch : Unlinked(q) /\ Unlinked(q)'
        BY <1>t, <2>3, <2>10 DEF CronOwns
      <3>4. cron[i].rest \cap cron[i].batch = {}
        BY <1>t DEF CronOwns
      <3>5. cron'[i].pc \in {"create", "push"}
        BY <2>4
      <3>6. QED
        BY <2>2, <2>4, <2>8, <2>9, <3>1, <3>2, <3>3, <3>4, <3>5 DEF CronOwns, Small
    <2>12. QED
      BY <1>0, <2>3, <2>11 DEF Queued
  <1>3. CASE CronEnd(i)
    BY <1>0, <1>3, <1>c DEF CronEnd, Queued
  <1>4. CASE BatchCreate(i)
    <2>1. PICK s, row : s = NewId /\ row = NewSettlement(cron[i].batch)
      OBVIOUS
    <2>2. RowLeft /\ s \in Settlements /\ row \in SettlementRow /\ row.counted = cron[i].batch
      BY <1>4, <1>t, <2>1, NewIdUnused, NewRow DEF BatchCreate, NewSettlement
    <2>3. /\ settlement' = [settlement EXCEPT ![NewId] = row] /\ cron[i].pc = "create"
          /\ UNCHANGED <<payment, jobs, confirmer, admin>>
          /\ cron' = [cron EXCEPT ![i].pc = "link", ![i].s = s, ![i].todo = cron[i].batch]
      BY <1>4, <2>1 DEF BatchCreate
    <2>4. /\ \A q \in Payments : confirmer'[q] = confirmer[q] => ConfirmerOwns(q)'
          /\ \A a \in Admins : admin'[a] = admin[a] => AdminOwns(a)'
          /\ \A x \in Settlements : RowFits(x)'
          /\ Linked(s)' = {} /\ settlement'[s] = row
          /\ \A q \in Payments : Unlinked(q)' <=> Unlinked(q)
      BY <2>1, <2>2, <2>3, RowAddedKeeps
    <2>5. /\ cron'[i].pc = "link" /\ cron'[i].s = s /\ cron'[i].todo = cron[i].batch
          /\ cron'[i].batch = cron[i].batch /\ cron'[i].rest = cron[i].rest
      BY <1>t, <2>3 DEF BatchRun
    <2>6. CronOwns(i)'
      <3>1. Sum(cron[i].batch)' = Sum(cron[i].batch)
        BY <2>5 DEF Sum
      <3>2. QED
        BY <1>t, <2>2, <2>3, <2>4, <2>5, <3>1 DEF CronOwns, Small
    <2>7. QED
      BY <1>i, <2>3, <2>4, <2>6 DEF LinkInv
  <1>5. CASE BatchLink(i)
    <2>1. PICK p \in OldestFirst(cron[i].todo) :
             /\ payment' = [payment EXCEPT ![p] = Link(p, cron[i].s)]
             /\ cron' = [cron EXCEPT ![i].todo = cron[i].todo \ {p},
                                     ![i].pc = IF cron[i].todo = {p} THEN "enqueue" ELSE "link"]
      BY <1>5 DEF BatchLink
    <2>2. PICK s : s = cron[i].s
      OBVIOUS
    <2>3. /\ cron[i].pc = "link" /\ UNCHANGED <<settlement, jobs, confirmer, admin>>
          /\ Remembered(s, cron[i].batch)
      BY <1>5, <2>2 DEF BatchLink, IInv, HandlersFit
    <2>4. p \in cron[i].todo /\ p \in Payments /\ Unlinked(p) /\ Small(p) /\ p \in cron[i].batch
      BY <1>t, <2>1, <2>3, OldestAmong DEF CronOwns
    <2>5. s \in Settlements /\ settlement[s] # None /\ ~settlement[s].requiresApproval
      <3>1. ~requiresApproval(Sum(cron[i].batch))
        BY <1>t, <2>3, BatchNeedsNoApproval DEF CronOwns
      <3>2. QED
        BY <2>3, <3>1 DEF Remembered
    <2>6. /\ settlement[s].counted = cron[i].batch /\ Linked(s) = cron[i].batch \ cron[i].todo
          /\ cron[i].todo \subseteq cron[i].batch
      BY <1>t, <2>2, <2>3 DEF CronOwns
    <2>7. /\ cron'[i].todo = cron[i].todo \ {p} /\ cron'[i].batch = cron[i].batch
          /\ cron'[i].rest = cron[i].rest /\ cron'[i].s = s
          /\ cron'[i].pc = IF cron[i].todo = {p} THEN "enqueue" ELSE "link"
      BY <1>t, <2>1, <2>2 DEF BatchRun
    <2>8. /\ Linked(s)' = Linked(s) \cup {p}
          /\ \A t \in Settlements : t # s => Linked(t)' = Linked(t)
          /\ \A q \in Payments : q # p => (Unlinked(q)' <=> Unlinked(q))
      BY <2>1, <2>2, <2>4, <2>5, OneLinked DEF IInv
    <2>9. CronOwns(i)'
      <3>1. Sum(cron[i].batch)' = Sum(cron[i].batch)
        BY <2>7 DEF Sum
      <3>2. p \notin cron[i].rest
        BY <1>t, <2>4 DEF CronOwns
      <3>3. Linked(s)' = cron[i].batch \ cron'[i].todo
        BY <2>4, <2>6, <2>7, <2>8
      <3>4. settlement'[s].counted = cron[i].batch
        BY <2>3, <2>6
      <3>5. \A q \in cron[i].rest \cup (cron[i].todo \ {p}) : Unlinked(q)'
        BY <1>t, <2>8, <3>2 DEF CronOwns
      <3>6. QED
        BY <1>t, <2>3, <2>6, <2>7, <3>1, <3>3, <3>4, <3>5 DEF CronOwns, Small
    <2>10. RowFits(s)'
      <3>1. ~Queued(s)
        <4>1. Queued(s) => Linked(s) = settlement[s].counted
          BY <2>5 DEF LinkInv, RowFits
        <4>2. QED
          BY <2>4, <2>6, <4>1
      <3>2. QED
        BY <2>3, <2>5, <3>1 DEF RowFits, Queued
    <2>11. \A t \in Settlements : t # s => RowFits(t)'
      BY <2>1, <2>2, <2>3, <2>4, <2>5, OthersKeep
    <2>12. \A a \in Admins : AdminOwns(a)'
      BY <2>1, <2>2, <2>3, <2>4, <2>5, <2>6, OthersKeep
    <2>13. \A q \in Payments : ConfirmerOwns(q)'
      <3>1. TAKE q \in Payments
      <3>2. ConfirmerOwns(q)
        BY DEF LinkInv
      <3>3. confirmer[q].pc \in {"link", "enqueue"} => confirmer[q].s \in Settlements /\ confirmer[q].s # s
        <4>1. confirmer[q].pc \in {"link", "enqueue"} => confirmer[q].s \in Settlements
          BY DEF IInv, HandlersFit, Remembered
        <4>2. \A x \in cron[i].batch : Small(x)
          BY <1>t DEF CronOwns
        <4>3. QED
          BY <2>6, <3>2, <4>1, <4>2 DEF ConfirmerOwns
      <3>4. ~Small(q) => (Unlinked(q)' <=> Unlinked(q))
        BY <2>4, <2>8
      <3>5. QED
        BY <2>3, <2>8, <3>2, <3>3, <3>4 DEF ConfirmerOwns, Small
    <2>14. QED
      BY <1>i, <2>9, <2>10, <2>11, <2>12, <2>13 DEF LinkInv
  <1>6. CASE BatchEnqueue(i)
    <2>1. PICK s, r : s = cron[i].s /\ r = [cron[i] EXCEPT !.pc = "push", !.batch = {}, !.s = None]
      OBVIOUS
    <2>2. s \in Settlements /\ settlement[s] # None
      BY <1>6, <2>1 DEF BatchEnqueue, IInv, HandlersFit, Remembered
    <2>3. /\ settlement[s].counted = cron[i].batch /\ Linked(s) = cron[i].batch
          /\ cron[i].todo = {}
      BY <1>6, <1>t, <2>1 DEF BatchEnqueue, CronOwns
    <2>4. /\ cron' = [cron EXCEPT ![i] = r]
          /\ UNCHANGED <<payment, settlement, confirmer, admin>>
          /\ \A t \in Settlements : t # s => jobs'[t] = jobs[t]
      BY <1>6, <2>1 DEF BatchEnqueue, enqueueSettlement, IInv, TypeOK
    <2>5. r.pc = "push" /\ r.batch = {} /\ r.todo = {} /\ r.rest = cron[i].rest /\ cron'[i] = r
      BY <1>t, <2>1, <2>3, <2>4 DEF BatchRun
    <2>6. (\A q \in Payments : SameLink(q)) /\ \A t \in Settlements : SameRow(t)
      BY <2>4 DEF SameLink, SameRow
    <2>7. RowFits(s)'
      <3>1. RowFits(s)
        BY <2>2 DEF LinkInv
      <3>2. QED
        BY <2>2, <2>3, <2>4, <2>6, <3>1, LinksStay DEF RowFits
    <2>8. CronOwns(i)'
      <3>1. \A q \in Payments : Unlinked(q)' <=> Unlinked(q)
        BY <2>6, LinksStay
      <3>2. Sum({})' <= SmallThreshold
        BY <1>e, <1>t DEF Sum
      <3>3. QED
        BY <1>t, <2>5, <3>1, <3>2 DEF CronOwns, Small
    <2>9. QED
      BY <1>0, <2>4, <2>7, <2>8 DEF Queued
  <1>7. CASE CrashCron(i)
    BY <1>0, <1>7, <1>c DEF CrashCron, Queued
  <1>8. QED
    BY <1>1, <1>2, <1>3, <1>4, <1>5, <1>6, <1>7 DEF CronStep

\* Nothing is linked at first.
LEMMA InitLinks == Init => LinkInv
  BY IntakeAssumption
  DEF Init, LinkInv, ConfirmerOwns, CronOwns, AdminOwns, RowFits, Linked, Unlinked, Queued,
      IdleConfirmer, IdleCron, IdleAdmin, IntakeAssumption

\* Every step keeps links and totals together.
LEMMA StepLinks ==
  ASSUME OneScheduler
  PROVE  IInv /\ LinkInv /\ [Next]_vars => LinkInv'
  <1> SUFFICES ASSUME IInv, LinkInv, [Next]_vars PROVE LinkInv'
    OBVIOUS
  <1>1. ASSUME UNCHANGED <<payment, settlement, jobs, confirmer, cron, admin>> PROVE LinkInv'
    BY <1>1, OwnersKeep DEF LinkInv, SameLink, SameRow, Queued
  <1>2. QED
    BY <1>1, ConfirmerLinks, CronLinks, AdminLinks DEF Next, Tick, vars

\* With one scheduler, whatever the amounts, the batch size and window, the
\* crashes and the approvals: a queued settlement pays for exactly the payments
\* linked to it.  initiateSettlement, createBatchSettlement and approveSettlement
\* queue a row only once all its payments carry its id.
THEOREM TotalsMatch ==
  ASSUME OneScheduler
  PROVE  Spec => []TotalsMatchLinks
  <1>1. LinkInv => TotalsMatchLinks
    BY DEF LinkInv, RowFits, TotalsMatchLinks
  <1>2. QED
    BY <1>1, InitLinks, StepLinks, Invariant, PTL DEF Spec

\* And so no payment is counted in two queued settlements: its settlementId names
\* one of them.
THEOREM EachCountedOnce ==
  ASSUME OneScheduler
  PROVE  Spec => []CountedOnce
  <1>1. TotalsMatchLinks => CountedOnce
    <2>1. SUFFICES ASSUME TotalsMatchLinks, NEW s \in Settlements, NEW t \in Settlements, s # t,
                          Queued(s), Queued(t)
                   PROVE  settlement[s].counted \cap settlement[t].counted = {}
      BY DEF CountedOnce
    <2>2. settlement[s].counted = Linked(s) /\ settlement[t].counted = Linked(t)
      BY <2>1 DEF TotalsMatchLinks
    <2>3. QED
      BY <2>1, <2>2 DEF Linked
  <1>2. QED
    BY <1>1, TotalsMatch, PTL
================================================================================
