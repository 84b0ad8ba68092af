--------------------------- MODULE SettlementExecution ---------------------------
(***************************************************************************)
(* How a queued settlement is paid: SettlementQueueProcessor.handle        *)
(* (backend/src/queues/queue.processors.ts) takes a job, takes a Redis     *)
(* lock on the merchant and runs executeFiatTransfer; handlePartnerCallback *)
(* and retrySettlement (backend/src/settlements/settlements.service.ts)    *)
(* write the same rows without the lock.  Every await is a point where     *)
(* another handler may run and where an error may be thrown.               *)
(*                                                                         *)
(* The Bull queue, Redis and the partner's bank API are external.  A job   *)
(* gets Attempts tries; a job whose worker died is delivered again; the    *)
(* partner knows a transfer by its reference, the settlement's id, and may *)
(* reject later a transfer it accepted.                                    *)
(***************************************************************************)
EXTENDS Integers, FiniteSets

CONSTANTS
    Settlements,    \* settlements SettlementIntake queued
    Payments,       \* their payments
    PaymentsOf,     \* settlement.payments
    MerchantOf,     \* settlement.merchantId
    Workers,        \* backend instances consuming the settlement queue
    Handlers,       \* concurrent partner callbacks and retry requests
    Jobs,           \* bound: job slots of the queue
    Attempts,       \* attempts of defaultJobOptions
    MaxCrashes,     \* bound on worker crashes
    MaxOverruns,    \* bound on executions of a merchant that outlast the lock
    MaxCallbacks,   \* bound on the different callbacks the partner sends
    None

ASSUME ExecutionAssumption ==
    /\ PaymentsOf \in [Settlements -> SUBSET Payments]
    /\ \A s, t \in Settlements : s # t => PaymentsOf[s] \cap PaymentsOf[t] = {}
    /\ Attempts \in Nat \ {0} /\ MaxCrashes \in Nat
    /\ MaxCallbacks \in Nat /\ MaxOverruns \in Nat
    /\ IsFiniteSet(Workers) /\ Workers \cap Handlers = {} /\ None \notin Workers

VARIABLES
    status,     \* settlements.status
    pstatus,    \* payments.status
    job,        \* the settlement queue
    lock,       \* lock:settlement:merchant:<id>, with the worker that set it
    proc,       \* what each worker and each request handler is doing
    partner,    \* the partner's view of each reference
    callbacks,  \* callbacks the partner sends, again and again
    aborted,    \* history: settlements a retry of which was cut short
    crashes,    \* history: crashes so far
    overruns    \* history: times the key of a merchant expired under a worker
                \* that had set it and was still executing

vars == <<status, pstatus, job, lock, proc, partner, callbacks, aborted, crashes, overruns>>

Merchants == {MerchantOf[s] : s \in Settlements}

SettlementStatus == {"processing", "completed", "failed"}
Job == [state : {"free", "waiting", "active", "failed"}, s : Settlements \cup {None},
        tries : 0 .. Attempts]
Proc == [kind : {"idle", "job", "callback", "retry"},
         pc : {"idle", "lock", "post", "saveSettlement", "savePayments", "unlock"},
         s : Settlements \cup {None}, target : SettlementStatus \cup {"none"},
         todo : SUBSET Payments, j : Jobs \cup {None}, ok : BOOLEAN]

\* kind: "job", "callback" or "retry"; target: the status being written; todo:
\* the payments still to be written; ok: whether the job will succeed.
Idle == [kind |-> "idle", pc |-> "idle", s |-> None, target |-> "none", todo |-> {},
         j |-> None, ok |-> TRUE]
FreeJob == [state |-> "free", s |-> None, tries |-> 0]

\* The queue holds one job for each settlement.
Init ==
    /\ status = [s \in Settlements |-> "processing"]
    /\ pstatus = [p \in Payments |-> "settling"]
    /\ \E f \in [Settlements -> Jobs] :
          /\ \A s, t \in Settlements : f[s] = f[t] => s = t
          /\ job = [j \in Jobs |->
                       IF \E s \in Settlements : f[s] = j
                       THEN [state |-> "waiting", tries |-> 0,
                             s |-> CHOOSE s \in Settlements : f[s] = j]
                       ELSE FreeJob]
    /\ lock = [m \in Merchants |-> None]
    /\ proc = [w \in Workers \cup Handlers |-> Idle]
    /\ partner = [s \in Settlements |-> "unknown"]
    /\ callbacks = {}
    /\ aborted = {}
    /\ crashes = 0
    /\ overruns = [m \in Merchants |-> 0]

Go(w, pc) == proc' = [proc EXCEPT ![w].pc = pc]

--------------------------------------------------------------------------------
\* SettlementQueueProcessor.handle

\* The job becomes active and the settlement is read; one without payments is
\* logged and dropped.
TakeJob(w) ==
    /\ proc[w] = Idle
    /\ \E j \in Jobs :
          /\ job[j].state = "waiting"
          /\ IF PaymentsOf[job[j].s] = {}
             THEN /\ job' = [job EXCEPT ![j] = FreeJob]
                  /\ UNCHANGED proc
             ELSE /\ job' = [job EXCEPT ![j].state = "active"]
                  /\ proc' = [proc EXCEPT ![w] =
                        [Idle EXCEPT !.kind = "job", !.pc = "lock", !.s = job[j].s, !.j = j]]
    /\ UNCHANGED <<aborted, status, pstatus, lock, partner, callbacks, crashes, overruns>>

\* Mutant: an error of an attempt drops the job.
FailAttemptDrops(j) == job' = [job EXCEPT ![j] = FreeJob]

\* Mutant: attempts are not counted.
FailAttemptUncounted(j) == job' = [job EXCEPT ![j].state = "waiting"]

\* The attempt failed: Bull runs the job again or, the attempts used up, keeps
\* it as failed.
FailAttempt(j) ==
    LET tries == job[j].tries + 1
    IN  job' = [job EXCEPT ![j] =
            [state |-> IF tries < Attempts THEN "waiting" ELSE "failed",
             s |-> job[j].s, tries |-> tries]]

\* Mutant: SET without NX.
AcquireLockAlways(w) ==
    /\ proc[w].pc = "lock"
    /\ lock' = [lock EXCEPT ![MerchantOf[proc[w].s]] = w]
    /\ Go(w, "post")
    /\ UNCHANGED <<aborted, job, status, pstatus, partner, callbacks, crashes, overruns>>

\* SET NX EX 60.
AcquireLock(w) ==
    /\ proc[w].pc = "lock"
    /\ LET m == MerchantOf[proc[w].s]
       IN  \/ /\ lock[m] = None
              /\ lock' = [lock EXCEPT ![m] = w]
              /\ Go(w, "post")
              /\ UNCHANGED job
           \/ /\ lock[m] # None
              /\ FailAttempt(proc[w].j)
              /\ proc' = [proc EXCEPT ![w] = Idle]
              /\ UNCHANGED lock
    /\ UNCHANGED <<aborted, status, pstatus, partner, callbacks, crashes, overruns>>

\* The finally block deletes the key, whoever holds it by now; if Redis does
\* not answer the key stays and the attempt fails.
Unlock(w) ==
    /\ proc[w].pc = "unlock"
    /\ \/ /\ lock' = [lock EXCEPT ![MerchantOf[proc[w].s]] = None]
          /\ IF proc[w].ok THEN job' = [job EXCEPT ![proc[w].j] = FreeJob]
             ELSE FailAttempt(proc[w].j)
       \/ /\ FailAttempt(proc[w].j)
          /\ UNCHANGED lock
    /\ proc' = [proc EXCEPT ![w] = Idle]
    /\ UNCHANGED <<aborted, status, pstatus, partner, callbacks, crashes, overruns>>

--------------------------------------------------------------------------------
\* executeFiatTransfer

\* Mutant: an error answer of the partner is taken for success.
PostTransferUnchecked(w) ==
    /\ proc[w].pc = "post"
    /\ \E accepted \in BOOLEAN :
          /\ partner' = IF accepted THEN [partner EXCEPT ![proc[w].s] = "accepted"]
                        ELSE partner
          /\ proc' = [proc EXCEPT ![w].pc = "saveSettlement", ![w].target = "completed"]
    /\ UNCHANGED <<aborted, status, pstatus, job, lock, callbacks, crashes, overruns>>

\* The transfer is accepted and the answer arrives, or it is accepted and the
\* answer is lost, or it is not accepted; without an answer axios throws.
PostTransfer(w) ==
    /\ proc[w].pc = "post"
    /\ \E accepted, answered \in BOOLEAN :
          /\ answered => accepted
          /\ partner' = IF accepted THEN [partner EXCEPT ![proc[w].s] = "accepted"]
                        ELSE partner
          /\ proc' = [proc EXCEPT ![w].pc = "saveSettlement",
                        ![w].target = IF answered THEN "completed" ELSE "failed"]
    /\ UNCHANGED <<aborted, status, pstatus, job, lock, callbacks, crashes, overruns>>

\* Mutant: the payments of a failed settlement are not written.
SaveSettlementFailedOnly(w) ==
    /\ proc[w].pc = "saveSettlement"
    /\ status' = [status EXCEPT ![proc[w].s] = proc[w].target]
    /\ proc' = [proc EXCEPT ![w].pc = "savePayments",
          ![w].todo = IF proc[w].target = "failed" THEN {} ELSE PaymentsOf[proc[w].s]]
    /\ UNCHANGED <<aborted, pstatus, job, lock, partner, callbacks, crashes, overruns>>

\* settlementsRepo.save, for the three handlers that write a status.
SaveSettlement(w) ==
    /\ proc[w].pc = "saveSettlement"
    /\ status' = [status EXCEPT ![proc[w].s] = proc[w].target]
    /\ proc' = [proc EXCEPT ![w].pc = "savePayments", ![w].todo = PaymentsOf[proc[w].s]]
    /\ UNCHANGED <<aborted, pstatus, job, lock, partner, callbacks, crashes, overruns>>

PaymentStatusFor(target) ==
    CASE target = "completed" -> "settled"
      [] target = "failed" -> "failed"
      [] target = "processing" -> "settling"

\* invokeContract('settle') for a completed settlement, then paymentsRepo.save.
SavePayment(w) ==
    /\ proc[w].pc = "savePayments"
    /\ \E p \in proc[w].todo :
          /\ pstatus' = [pstatus EXCEPT ![p] = PaymentStatusFor(proc[w].target)]
          /\ proc' = [proc EXCEPT ![w].todo = @ \ {p}]
    /\ UNCHANGED <<aborted, status, job, lock, partner, callbacks, crashes, overruns>>

\* Cache invalidation, webhooks and emails; then the job ends, the request is
\* answered, or the retry queues its job.
Finish(w) ==
    /\ proc[w].pc = "savePayments" /\ proc[w].todo = {}
    /\ \/ /\ proc[w].kind = "job"
          /\ Go(w, "unlock")
          /\ UNCHANGED job
       \/ /\ proc[w].kind = "callback"
          /\ proc' = [proc EXCEPT ![w] = Idle]
          /\ UNCHANGED job
       \/ /\ proc[w].kind = "retry"
          /\ IF PaymentsOf[proc[w].s] = {} THEN UNCHANGED job
             ELSE \E j \in Jobs :
                /\ job[j].state = "free"
                /\ job' = [job EXCEPT ![j] =
                              [state |-> "waiting", s |-> proc[w].s, tries |-> 0]]
          /\ proc' = [proc EXCEPT ![w] = Idle]
    /\ UNCHANGED <<aborted, status, pstatus, lock, partner, callbacks, crashes, overruns>>

\* Redis or the database does not answer before the lock is taken.
ThrowBeforeLock(w) ==
    /\ proc[w].pc = "lock"
    /\ FailAttempt(proc[w].j)
    /\ proc' = [proc EXCEPT ![w] = Idle]
    /\ UNCHANGED <<aborted, status, pstatus, lock, partner, callbacks, crashes, overruns>>

\* An await of a job throws.  Inside the try block the catch block marks
\* everything failed; inside the catch block the error leaves the function.
ThrowInJob(w) ==
    /\ proc[w].kind = "job" /\ proc[w].pc \in {"saveSettlement", "savePayments"}
    /\ proc' = [proc EXCEPT ![w] =
          IF proc[w].target = "completed"
          THEN [@ EXCEPT !.pc = "saveSettlement", !.target = "failed", !.todo = {}]
          ELSE [@ EXCEPT !.pc = "unlock", !.ok = FALSE, !.todo = {}]]
    /\ UNCHANGED <<aborted, status, pstatus, job, lock, partner, callbacks, crashes, overruns>>

--------------------------------------------------------------------------------
\* handlePartnerCallback and retrySettlement

HandleCallback(h) ==
    /\ proc[h] = Idle
    /\ \E c \in callbacks :
          proc' = [proc EXCEPT ![h] =
              [Idle EXCEPT !.kind = "callback", !.pc = "saveSettlement", !.s = c.reference,
                           !.target = IF c.status = "success" THEN "completed" ELSE "failed"]]
    /\ UNCHANGED <<aborted, status, pstatus, job, lock, partner, callbacks, crashes, overruns>>

\* An error leaves the callback where it is; the partner may send it again.
ThrowInCallback(h) ==
    /\ proc[h].kind = "callback"
    /\ proc' = [proc EXCEPT ![h] = Idle]
    /\ UNCHANGED <<aborted, status, pstatus, job, lock, partner, callbacks, crashes, overruns>>

\* Bound: there is a job slot for every retry accepted.
RetrySettlement(h, s) ==
    /\ proc[h] = Idle
    /\ status[s] = "failed"
    /\ Cardinality({j \in Jobs : job[j].state = "free"})
           > Cardinality({g \in Handlers : proc[g].kind = "retry"})
    /\ proc' = [proc EXCEPT ![h] =
          [Idle EXCEPT !.kind = "retry", !.pc = "saveSettlement", !.s = s,
                       !.target = "processing"]]
    /\ UNCHANGED <<aborted, status, pstatus, job, lock, partner, callbacks, crashes, overruns>>

\* An error between the first save of a retry and its job: nothing is undone.
ThrowInRetry(h) ==
    /\ proc[h].kind = "retry"
    /\ proc' = [proc EXCEPT ![h] = Idle]
    /\ aborted' = aborted \cup {proc[h].s}
    /\ UNCHANGED <<status, pstatus, job, lock, partner, callbacks, crashes, overruns>>

--------------------------------------------------------------------------------
\* The environment: the partner, Redis and Bull.

\* The partner reports on a transfer it accepted; a rejection comes with a
\* callback that says so.
PartnerReports(s) ==
    /\ partner[s] = "accepted"
    /\ Cardinality(callbacks) < MaxCallbacks
    /\ \E outcome \in {"success", "failed"} :
          /\ callbacks' = callbacks \cup {[reference |-> s, status |-> outcome]}
          /\ partner' = IF outcome = "failed" THEN [partner EXCEPT ![s] = "rejected"]
                        ELSE partner
    /\ UNCHANGED <<aborted, status, pstatus, job, lock, proc, crashes, overruns>>

Holds(w, m) ==
    /\ proc[w].kind = "job" /\ proc[w].pc # "lock" /\ MerchantOf[proc[w].s] = m

\* The 60 seconds are over, whether or not the worker that set the key is done:
\* nothing renews it.
LockExpires(m) ==
    /\ lock[m] # None
    /\ \/ /\ ~Holds(lock[m], m)
          /\ UNCHANGED overruns
       \/ /\ Holds(lock[m], m)
          /\ overruns[m] < MaxOverruns
          /\ overruns' = [overruns EXCEPT ![m] = @ + 1]
    /\ lock' = [lock EXCEPT ![m] = None]
    /\ UNCHANGED <<aborted, status, pstatus, job, proc, partner, callbacks, crashes>>

WorkerCrashes(w) ==
    /\ crashes < MaxCrashes
    /\ proc[w] # Idle
    /\ proc' = [proc EXCEPT ![w] = Idle]
    /\ crashes' = crashes + 1
    /\ UNCHANGED <<aborted, status, pstatus, job, lock, partner, callbacks, overruns>>

\* A stalled job: active, and no worker left that runs it.
Redeliver(j) ==
    /\ job[j].state = "active"
    /\ \A w \in Workers : proc[w].j # j
    /\ job' = [job EXCEPT ![j].state = "waiting"]
    /\ UNCHANGED <<aborted, status, pstatus, lock, proc, partner, callbacks, crashes, overruns>>

--------------------------------------------------------------------------------
WorkerStep(w) ==
    TakeJob(w) \/ AcquireLock(w) \/ PostTransfer(w) \/ SaveSettlement(w) \/ SavePayment(w)
    \/ Finish(w) \/ Unlock(w)
HandlerStep(h) == SaveSettlement(h) \/ SavePayment(h) \/ Finish(h)

Next ==
    \/ \E w \in Workers : \/ WorkerStep(w) \/ WorkerCrashes(w)
                          \/ ThrowBeforeLock(w) \/ ThrowInJob(w)
    \/ \E h \in Handlers : \/ HandlerStep(h) \/ HandleCallback(h)
                           \/ ThrowInCallback(h) \/ ThrowInRetry(h)
                           \/ \E s \in Settlements : RetrySettlement(h, s)
    \/ \E s \in Settlements : PartnerReports(s)
    \/ \E m \in Merchants : LockExpires(m)
    \/ \E j \in Jobs : Redeliver(j)

Spec == Init /\ [][Next]_vars

\* Workers and handlers whose awaits resolve go on; keys expire; stalled jobs
\* are found.  No admin has to retry and no partner has to call back.
Fairness ==
    /\ \A w \in Workers : WF_vars(WorkerStep(w))
    /\ \A h \in Handlers : WF_vars(HandlerStep(h))
    /\ \A m \in Merchants : WF_vars(LockExpires(m))
    /\ \A j \in Jobs : WF_vars(Redeliver(j))

FairSpec == Spec /\ Fairness

--------------------------------------------------------------------------------
\* Every variable has its type.
TypeOK ==
    /\ status \in [Settlements -> SettlementStatus]
    /\ pstatus \in [Payments -> {"settling", "settled", "failed"}]
    /\ job \in [Jobs -> Job]
    /\ lock \in [Merchants -> Workers \cup {None}]
    /\ proc \in [Workers \cup Handlers -> Proc]
    /\ partner \in [Settlements -> {"unknown", "accepted", "rejected"}]
    /\ callbacks \subseteq [reference : Settlements, status : {"success", "failed"}]
    /\ aborted \subseteq Settlements
    /\ crashes \in 0 .. MaxCrashes
    /\ overruns \in [Merchants -> 0 .. MaxOverruns]

Inside(m) == {w \in Workers : Holds(w, m)}

\* The lock is taken "for merchant isolation", one worker between taking and
\* releasing it, and 60 s do not give it that.  How far it is lost: an execution
\* that outlasts its key lets in one worker more, for good, and nothing else
\* does, not the finally blocks that then delete each other's keys, not a crash,
\* a redelivery or a failed delete.
OverlapBounded == \A m \in Merchants : Cardinality(Inside(m)) <= 1 + overruns[m]

\* A payment is settled only if the partner accepted the transfer of its
\* settlement, whatever retries, callbacks and redeliveries came in between.
SettledWasAccepted ==
    \A s \in Settlements : \A p \in PaymentsOf[s] :
        pstatus[p] = "settled" => partner[s] # "unknown"

AtWork(s) == \E w \in Workers \cup Handlers : proc[w].s = s
HasJob(s, states) == \E j \in Jobs : job[j].s = s /\ job[j].state \in states

\* A settlement in processing is on its way: a job waits or runs, a handler is
\* writing it, or a job used up its attempts or a retry was cut short (the
\* two cases nobody can repair through the API, for retrySettlement wants
\* status failed).
NoStranded ==
    \A s \in Settlements :
        status[s] = "processing" =>
            AtWork(s) \/ HasJob(s, {"waiting", "active", "failed"}) \/ s \in aborted

\* Where only the queue writes a settlement: once its jobs are done, and none
\* used up its attempts, the payments say what the settlement says.
RowsAgree ==
    \A s \in Settlements :
        ~AtWork(s) /\ ~HasJob(s, {"waiting", "active", "failed"}) =>
            \A p \in PaymentsOf[s] : pstatus[p] = PaymentStatusFor(status[s])

\* "failed - Settlement failed and can be retried": the partner did not accept
\* the transfer of a failed settlement, or rejected it.
FailedMeansUnpaid ==
    \A s \in Settlements : status[s] = "failed" => partner[s] # "accepted"

\* A merchant's lock does not stay with a worker for ever, even when the worker
\* crashes while it holds it.
LockReleased ==
    \A m \in Merchants, w \in Workers : lock[m] = w ~> lock[m] # w

\* Every queued job ends, done or out of attempts.
JobsEnd ==
    \A j \in Jobs : job[j].state = "waiting" ~> job[j].state \in {"free", "failed"}

\* Work on a merchant comes to an end: its lock is let go and its jobs finish,
\* whatever crashes.
WorkEnds == LockReleased /\ JobsEnd
================================================================================
