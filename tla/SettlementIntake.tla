---------------------------- MODULE SettlementIntake ----------------------------
(***************************************************************************)
(* How confirmed payments become settlements (backend/src/settlements/     *)
(* settlements.service.ts): initiateSettlement for payments of at least 10 *)
(* USD, the quarter-hourly batchSmallConfirmedPayments job for smaller     *)
(* ones, and approveSettlement for large totals.  Each handler awaits the  *)
(* database between its saves; at every await another handler may run, and *)
(* a crash or an error there abandons what the handler still had to do.    *)
(*                                                                         *)
(* A handler saves the entities it read earlier, so a save writes its own  *)
(* values whatever the row holds by then.  Amounts are whole USD.          *)
(***************************************************************************)
EXTENDS Integers, FiniteSets, Functions

CONSTANTS
    Payments, Settlements,   \* rows of the two tables
    MerchantOf,              \* the merchant of each payment
    Amount,                  \* amountUsd of each payment
    Schedulers,              \* backend instances, each with its own cron
    Admins,                  \* concurrent approval requests
    None,                    \* null
    SmallThreshold,          \* SMALL_BATCH_THRESHOLD_USD
    LargeThreshold,          \* LARGE_SETTLEMENT_THRESHOLD
    MaxBatch,                \* MAX_BATCH_PAYMENT_COUNT
    Window,                  \* BATCH_WINDOW_MINUTES, in ticks of the clock
    MaxTime,                 \* bound on the clock
    MaxCrashes               \* bound on the crashes

PaymentStatuses == {"pending", "confirmed", "settling"}
SettlementStatuses == {"pending_approval", "processing"}

PaymentRow == [status : PaymentStatuses, settlementId : Settlements \cup {None},
               confirmedAt : 0 .. MaxTime]
SettlementRow == [counted : SUBSET Payments, status : SettlementStatuses,
                  requiresApproval : BOOLEAN]

ASSUME IntakeAssumption ==
    /\ Amount \in [Payments -> Nat \ {0}]
    /\ SmallThreshold \in Nat /\ LargeThreshold \in Nat /\ MaxBatch \in Nat
    /\ Window \in Nat /\ MaxTime \in Nat /\ MaxCrashes \in Nat
    /\ None \notin Settlements \cup SettlementRow
\* The table of payments is finite; 10 USD and 10 000 USD, net of the fee.
ASSUME ThresholdsAssumption == IsFiniteSet(Payments) /\ 2 * SmallThreshold <= LargeThreshold

VARIABLES
    now,         \* Date.now(), in ticks
    payment,     \* rows of payments: status, settlementId, confirmedAt
    settlement,  \* rows of settlements, None while unused
    jobs,        \* how many jobs the settlement queue got for each settlement
    confirmer,   \* the handler that confirms each payment
    cron,        \* the batch run of each scheduler
    admin,       \* the approval request of each admin
    approvals,   \* history: the settlements an admin approved
    crashes      \* history: crashes so far

vars == <<now, payment, settlement, jobs, confirmer, cron, admin, approvals, crashes>>

Sum(S) == SumFunctionOnSet(Amount, S)

\* netAmountUsd = total - total * BATCH_FEE_RATE, in tenths of a cent.
NetMills(total) == 985 * total
requiresApproval(total) == NetMills(total) >= 1000 * LargeThreshold

\* settlementsRepo.create: the row for a settlement of the payments in S.
NewSettlement(S) ==
    [counted |-> S,
     status |-> IF requiresApproval(Sum(S)) THEN "pending_approval" ELSE "processing",
     requiresApproval |-> requiresApproval(Sum(S))]

\* The id of a new row is a fresh one; which one does not matter.  Bound: there
\* is a row left.
Unused == {s \in Settlements : settlement[s] = None}
RowLeft == Unused # {}
NewId == CHOOSE s \in Unused : TRUE

Linked(s) == {p \in Payments : payment[p].settlementId = s}

\* The local variables of the three handlers, and the await each is at.
Handler == [pc : {"idle", "create", "link", "enqueue", "done"}, s : Settlements \cup {None}]
BatchRun == [pc : {"idle", "push", "create", "link", "enqueue"}, rest : SUBSET Payments,
             batch : SUBSET Payments, s : Settlements \cup {None}, todo : SUBSET Payments]
Approval == [pc : {"idle", "save", "link"}, s : Settlements \cup {None},
             todo : SUBSET Payments, any : BOOLEAN]

IdleConfirmer == [pc |-> "idle", s |-> None]
IdleCron == [pc |-> "idle", rest |-> {}, batch |-> {}, s |-> None, todo |-> {}]
IdleAdmin == [pc |-> "idle", s |-> None, todo |-> {}, any |-> FALSE]

Init ==
    /\ now = 0
    /\ payment = [p \in Payments |->
                     [status |-> "pending", settlementId |-> None, confirmedAt |-> 0]]
    /\ settlement = [s \in Settlements |-> None]
    /\ jobs = [s \in Settlements |-> 0]
    /\ confirmer = [p \in Payments |-> IdleConfirmer]
    /\ cron = [i \in Schedulers |-> IdleCron]
    /\ admin = [a \in Admins |-> IdleAdmin]
    /\ approvals = {}
    /\ crashes = 0

Tick ==
    /\ now < MaxTime
    /\ now' = now + 1
    /\ UNCHANGED <<payment, settlement, jobs, confirmer, cron, admin, approvals, crashes>>

Link(p, s) == [payment[p] EXCEPT !.status = "settling", !.settlementId = s]
enqueueSettlement(s) == jobs' = [jobs EXCEPT ![s] = @ + 1]

--------------------------------------------------------------------------------
\* confirmPayment saves CONFIRMED and goes on to initiateSettlement.  Bound: the
\* clock has still a batch window to run when a payment is confirmed.

ConfirmPayment(p) ==
    /\ confirmer[p].pc = "idle" /\ payment[p].status = "pending"
    /\ now + Window <= MaxTime
    /\ payment' = [payment EXCEPT ![p].status = "confirmed", ![p].confirmedAt = now]
    /\ confirmer' = [confirmer EXCEPT ![p].pc =
                        IF Amount[p] < SmallThreshold THEN "done" ELSE "create"]
    /\ UNCHANGED <<now, settlement, jobs, cron, admin, approvals, crashes>>

InitiateCreate(p) ==
    /\ confirmer[p].pc = "create"
    /\ RowLeft
    /\ settlement' = [settlement EXCEPT ![NewId] = NewSettlement({p})]
    /\ confirmer' = [confirmer EXCEPT ![p] = [pc |-> "link", s |-> NewId]]
    /\ UNCHANGED <<now, payment, jobs, cron, admin, approvals, crashes>>

InitiateLink(p) ==
    /\ confirmer[p].pc = "link"
    /\ payment' = [payment EXCEPT ![p] = Link(p, confirmer[p].s)]
    /\ confirmer' = [confirmer EXCEPT ![p].pc = "enqueue"]
    /\ UNCHANGED <<now, settlement, jobs, cron, admin, approvals, crashes>>

\* Mutant: the job is queued whether or not approval is required.
InitiateEnqueueAlways(p) ==
    /\ confirmer[p].pc = "enqueue"
    /\ enqueueSettlement(confirmer[p].s)
    /\ confirmer' = [confirmer EXCEPT ![p].pc = "done"]
    /\ UNCHANGED <<now, payment, settlement, cron, admin, approvals, crashes>>

\* The entity in memory still says whether approval is required.
InitiateEnqueue(p) ==
    /\ confirmer[p].pc = "enqueue"
    /\ IF requiresApproval(Sum({p})) THEN UNCHANGED jobs
       ELSE enqueueSettlement(confirmer[p].s)
    /\ confirmer' = [confirmer EXCEPT ![p].pc = "done"]
    /\ UNCHANGED <<now, payment, settlement, cron, admin, approvals, crashes>>

CrashConfirmer(p) ==
    /\ crashes < MaxCrashes
    /\ confirmer[p].pc \in {"create", "link", "enqueue"}
    /\ confirmer' = [confirmer EXCEPT ![p] = [pc |-> "done", s |-> None]]
    /\ crashes' = crashes + 1
    /\ UNCHANGED <<now, payment, settlement, jobs, cron, admin, approvals>>

--------------------------------------------------------------------------------
\* batchSmallConfirmedPayments and flushMerchantBatch.

Waiting == {p \in Payments : /\ payment[p].status = "confirmed"
                             /\ payment[p].settlementId = None
                             /\ Amount[p] < SmallThreshold}

CronFind(i) ==
    /\ cron[i].pc = "idle" /\ Waiting # {}
    /\ cron' = [cron EXCEPT ![i] = [IdleCron EXCEPT !.pc = "push", !.rest = Waiting]]
    /\ UNCHANGED <<now, payment, settlement, jobs, confirmer, admin, approvals, crashes>>

\* The run goes through one merchant after the other, oldest payment first.
OldestFirst(S) ==
    {p \in S : \A q \in S : MerchantOf[q] = MerchantOf[p] =>
                               payment[p].confirmedAt <= payment[q].confirmedAt}
NextToPush(i) ==
    LET same == {p \in cron[i].rest : \A b \in cron[i].batch : MerchantOf[p] = MerchantOf[b]}
    IN  OldestFirst(IF same # {} THEN same ELSE cron[i].rest)

\* Mutant: the age of the oldest payment is not looked at.
shouldFlushFullOnly(batch) ==
    Sum(batch) >= SmallThreshold \/ Cardinality(batch) >= MaxBatch

shouldFlush(batch) ==
    \/ Sum(batch) >= SmallThreshold
    \/ Cardinality(batch) >= MaxBatch
    \/ \E p \in batch : now - payment[p].confirmedAt >= Window

\* One turn of the loop: push a payment; what is left of another merchant's
\* batch waits for the next run.
CronPush(i) ==
    /\ cron[i].pc = "push" /\ cron[i].rest # {}
    /\ \E p \in NextToPush(i) :
          LET batch == {b \in cron[i].batch : MerchantOf[b] = MerchantOf[p]} \cup {p}
          IN  cron' = [cron EXCEPT ![i].rest = @ \ {p}, ![i].batch = batch,
                                   ![i].pc = IF shouldFlush(batch) THEN "create" ELSE "push"]
    /\ UNCHANGED <<now, payment, settlement, jobs, confirmer, admin, approvals, crashes>>

CronEnd(i) ==
    /\ cron[i].pc = "push" /\ cron[i].rest = {}
    /\ cron' = [cron EXCEPT ![i] = IdleCron]
    /\ UNCHANGED <<now, payment, settlement, jobs, confirmer, admin, approvals, crashes>>

\* createBatchSettlement: the row first, then the payments one by one, then
\* the job.
BatchCreate(i) ==
    /\ cron[i].pc = "create"
    /\ RowLeft
    /\ settlement' = [settlement EXCEPT ![NewId] = NewSettlement(cron[i].batch)]
    /\ cron' = [cron EXCEPT ![i].pc = "link", ![i].s = NewId, ![i].todo = cron[i].batch]
    /\ UNCHANGED <<now, payment, jobs, confirmer, admin, approvals, crashes>>

\* Mutant: the entities are changed but not saved.
BatchLinkUnsaved(i) ==
    /\ cron[i].pc = "link"
    /\ cron' = [cron EXCEPT ![i].todo = {}, ![i].pc = "enqueue"]
    /\ UNCHANGED <<now, payment, settlement, jobs, confirmer, admin, approvals, crashes>>

\* Mutant: the job is queued after the first payment is saved.
BatchLinkFirstOnly(i) ==
    /\ cron[i].pc = "link"
    /\ \E p \in cron[i].todo :
          /\ payment' = [payment EXCEPT ![p] = Link(p, cron[i].s)]
          /\ cron' = [cron EXCEPT ![i].todo = {}, ![i].pc = "enqueue"]
    /\ UNCHANGED <<now, settlement, jobs, confirmer, admin, approvals, crashes>>

BatchLink(i) ==
    /\ cron[i].pc = "link"
    /\ \E p \in OldestFirst(cron[i].todo) :
          /\ payment' = [payment EXCEPT ![p] = Link(p, cron[i].s)]
          /\ cron' = [cron EXCEPT ![i].todo = @ \ {p},
                                  ![i].pc = IF cron[i].todo = {p}
                                            THEN "enqueue" ELSE "link"]
    /\ UNCHANGED <<now, settlement, jobs, confirmer, admin, approvals, crashes>>

BatchEnqueue(i) ==
    /\ cron[i].pc = "enqueue"
    /\ IF requiresApproval(Sum(cron[i].batch)) THEN UNCHANGED jobs
       ELSE enqueueSettlement(cron[i].s)
    /\ cron' = [cron EXCEPT ![i] = [@ EXCEPT !.pc = "push", !.batch = {}, !.s = None]]
    /\ UNCHANGED <<now, payment, settlement, confirmer, admin, approvals, crashes>>

CrashCron(i) ==
    /\ crashes < MaxCrashes
    /\ cron[i].pc # "idle"
    /\ cron' = [cron EXCEPT ![i] = IdleCron]
    /\ crashes' = crashes + 1
    /\ UNCHANGED <<now, payment, settlement, jobs, confirmer, admin, approvals>>

--------------------------------------------------------------------------------
\* approveSettlement: the row and its payments are read in one query.

ApproveLoad(a, s) ==
    /\ admin[a].pc = "idle" /\ settlement[s] # None
    /\ settlement[s].status = "pending_approval" /\ settlement[s].requiresApproval
    /\ admin' = [admin EXCEPT ![a] = [pc |-> "save", s |-> s, todo |-> Linked(s),
                                      any |-> Linked(s) # {}]]
    /\ UNCHANGED <<now, payment, settlement, jobs, confirmer, cron, approvals, crashes>>

ApproveSave(a) ==
    /\ admin[a].pc = "save"
    /\ settlement' = [settlement EXCEPT ![admin[a].s].status = "processing"]
    /\ approvals' = approvals \cup {admin[a].s}
    /\ admin' = [admin EXCEPT ![a].pc = "link"]
    /\ UNCHANGED <<now, payment, jobs, confirmer, cron, crashes>>

ApproveLink(a) ==
    /\ admin[a].pc = "link"
    /\ \E p \in admin[a].todo :
          /\ payment' = [payment EXCEPT ![p] = Link(p, admin[a].s)]
          /\ admin' = [admin EXCEPT ![a].todo = @ \ {p}]
    /\ UNCHANGED <<now, settlement, jobs, confirmer, cron, approvals, crashes>>

ApproveEnqueue(a) ==
    /\ admin[a].pc = "link" /\ admin[a].todo = {}
    /\ IF admin[a].any THEN enqueueSettlement(admin[a].s) ELSE UNCHANGED jobs
    /\ admin' = [admin EXCEPT ![a] = IdleAdmin]
    /\ UNCHANGED <<now, payment, settlement, confirmer, cron, approvals, crashes>>

--------------------------------------------------------------------------------
ConfirmerStep(p) ==
    ConfirmPayment(p) \/ InitiateCreate(p) \/ InitiateLink(p) \/ InitiateEnqueue(p)
CronStep(i) ==
    CronFind(i) \/ CronPush(i) \/ CronEnd(i) \/ BatchCreate(i) \/ BatchLink(i) \/ BatchEnqueue(i)
AdminStep(a) ==
    \/ \E s \in Settlements : ApproveLoad(a, s)
    \/ ApproveSave(a) \/ ApproveLink(a) \/ ApproveEnqueue(a)

Next ==
    \/ Tick
    \/ \E p \in Payments : ConfirmerStep(p) \/ CrashConfirmer(p)
    \/ \E i \in Schedulers : CronStep(i) \/ CrashCron(i)
    \/ \E a \in Admins : AdminStep(a)

Spec == Init /\ [][Next]_vars

\* Timers fire, queries answer and awaits resolve; nothing obliges an admin to
\* approve, but an approval once begun goes on.
Fairness ==
    /\ WF_vars(Tick)
    /\ \A p \in Payments : WF_vars(ConfirmerStep(p))
    /\ \A i \in Schedulers : WF_vars(CronStep(i))
    /\ \A a \in Admins : WF_vars(ApproveSave(a) \/ ApproveLink(a) \/ ApproveEnqueue(a))

FairSpec == Spec /\ Fairness

--------------------------------------------------------------------------------
\* Every variable has its type.
TypeOK ==
    /\ now \in 0 .. MaxTime
    /\ payment \in [Payments -> PaymentRow]
    /\ settlement \in [Settlements -> SettlementRow \cup {None}]
    /\ jobs \in [Settlements -> Nat]
    /\ confirmer \in [Payments -> Handler]
    /\ cron \in [Schedulers -> BatchRun]
    /\ admin \in [Admins -> Approval]
    /\ approvals \subseteq Settlements
    /\ crashes \in 0 .. MaxCrashes

Queued(s) == jobs[s] > 0

\* No payment is part of the totals of two settlements that were handed to the
\* settlement queue: a merchant is not paid twice for it, even when a batch run
\* is abandoned half way and the next run picks up what it left.
CountedOnce ==
    \A s, t \in Settlements :
        s # t /\ Queued(s) /\ Queued(t)
            => settlement[s].counted \cap settlement[t].counted = {}

\* A queued settlement pays for exactly the payments linked to it, the ones
\* executeFiatTransfer will mark settled.
TotalsMatchLinks ==
    \A s \in Settlements : Queued(s) => Linked(s) = settlement[s].counted

\* A settlement of 10 000 USD net or more is queued only after an approval,
\* whichever handler queues it.
LargeOnlyApproved ==
    \A s \in Settlements :
        Queued(s) /\ settlement[s].requiresApproval => s \in approvals

\* Every small confirmed payment is put into a settlement sooner or later: the
\* run that flushes nothing leaves it to one that does, and a crash of a run
\* does not lose it.
SmallGetsBatched ==
    \A p \in Payments :
        payment[p].status = "confirmed" /\ Amount[p] < SmallThreshold
            ~> payment[p].status = "settling"

\* 'Settlement approved and processing initiated', the answer to a successful
\* approval: an approved settlement reaches the queue.
ApprovedGetsQueued ==
    \A s \in Settlements : s \in approvals ~> Queued(s)
================================================================================
