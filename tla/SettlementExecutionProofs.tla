------------------------ MODULE SettlementExecutionProofs ------------------------
(***************************************************************************)
(* Theorems about the execution of settlements, for any settlements,       *)
(* workers, requests, job slots, attempts and bounds.                      *)
(***************************************************************************)
EXTENDS SettlementExecution, FiniteSetTheorems, TLAPS

--------------------------------------------------------------------------------
(* Types, jobs and what works on them                                      *)

\* A job that is not free is about a settlement, and unless it failed for good it
\* has an attempt left.
JobFits(x) ==
    /\ x.state # "free" => x.s \in Settlements
    /\ x.state # "failed" => x.tries < Attempts

\* Workers run jobs, and a running job is active and about the settlement its
\* worker writes; handlers run callbacks and retries; only these write rows, and
\* only with a status that fits them.
ProcFits(w, r, jobs) ==
    /\ r.kind = "idle" => r = Idle
    /\ r.kind # "idle" => r.pc # "idle" /\ r.s \in Settlements
    /\ r.kind = "job" => /\ w \in Workers /\ r.j \in Jobs
                         /\ jobs[r.j].state = "active" /\ jobs[r.j].s = r.s
                         /\ r.target # "processing"
    /\ r.kind \in {"callback", "retry"} =>
          w \in Handlers /\ r.pc \in {"saveSettlement", "savePayments"}
    /\ r.kind = "callback" => r.target # "processing"
    /\ r.kind = "retry" => r.target = "processing"
    /\ r.pc \in {"saveSettlement", "savePayments"} => r.target # "none"
    /\ r.pc = "savePayments" => r.todo \subseteq PaymentsOf[r.s]

\* No job runs twice at a time.
OneWorkerEach ==
    \A v, w \in Workers :
        proc[v].kind = "job" /\ proc[w].kind = "job" /\ proc[v].j = proc[w].j => v = w

WorkInv ==
    /\ TypeOK
    /\ \A j \in Jobs : JobFits(job[j])
    /\ \A w \in Workers \cup Handlers : ProcFits(w, proc[w], job)
    /\ OneWorkerEach

\* The slot w works on changes to x, which fits; the other workers' stay.
LEMMA SlotChanges ==
  ASSUME WorkInv, NEW w \in Workers, proc[w].kind = "job",
         NEW x \in Job, JobFits(x), job' = [job EXCEPT ![proc[w].j] = x]
  PROVE  /\ job' \in [Jobs -> Job] /\ \A j \in Jobs : JobFits(job'[j])
         /\ \A v \in Workers \cup Handlers :
               v # w /\ proc[v].kind = "job" => job'[proc[v].j] = job[proc[v].j]
  <1>1. job \in [Jobs -> Job] /\ proc[w].j \in Jobs
    BY DEF WorkInv, TypeOK, ProcFits
  <1>2. job' \in [Jobs -> Job] /\ \A j \in Jobs : JobFits(job'[j])
    BY <1>1 DEF WorkInv
  <1>3. ASSUME NEW v \in Workers \cup Handlers, v # w, proc[v].kind = "job"
        PROVE  job'[proc[v].j] = job[proc[v].j]
    <2>1. v \in Workers /\ proc[v].j \in Jobs /\ proc[v].j # proc[w].j
      BY <1>3 DEF WorkInv, ProcFits, OneWorkerEach
    <2> QED
      BY <1>1, <2>1
  <1> QED
    BY <1>2, <1>3

\* A failed attempt leaves a job that fits.
LEMMA AttemptFails ==
  ASSUME WorkInv, NEW w \in Workers, proc[w].kind = "job", FailAttempt(proc[w].j)
  PROVE  \E x \in Job : /\ JobFits(x) /\ x.state \in {"waiting", "failed"} /\ x.s = proc[w].s
                        /\ job' = [job EXCEPT ![proc[w].j] = x]
  <1> DEFINE old == job[proc[w].j]
             x == [state |-> IF old.tries + 1 < Attempts THEN "waiting" ELSE "failed",
                   s |-> old.s, tries |-> old.tries + 1]
  <1>1. /\ proc[w].j \in Jobs /\ old \in Job /\ JobFits(old)
        /\ old.state = "active" /\ old.s = proc[w].s
    BY DEF WorkInv, TypeOK, ProcFits
  <1>2. old.tries \in Nat /\ old.tries < Attempts /\ Attempts \in Nat /\ old.s \in Settlements
    BY <1>1, ExecutionAssumption DEF JobFits, Job, ExecutionAssumption
  <1>3. job' = [job EXCEPT ![proc[w].j] = x]
    BY DEF FailAttempt
  <1> HIDE DEF old
  <1>4. x \in Job
    BY <1>2 DEF Job
  <1>5. JobFits(x) /\ x.state \in {"waiting", "failed"} /\ x.s = proc[w].s
    BY <1>1, <1>2 DEF JobFits
  <1> QED
    BY <1>3, <1>4, <1>5

\* w goes on with r, which fits what the jobs are afterwards.
LEMMA ProcMoves ==
  ASSUME WorkInv, NEW w \in Workers \cup Handlers, NEW r \in Proc,
         proc' = [proc EXCEPT ![w] = r],
         job' \in [Jobs -> Job], \A j \in Jobs : JobFits(job'[j]),
         \A v \in Workers \cup Handlers :
            v # w /\ proc[v].kind = "job" => job'[proc[v].j] = job[proc[v].j],
         ProcFits(w, r, job'),
         r.kind = "job" => \A v \in Workers \ {w} : proc[v].kind = "job" => proc[v].j # r.j,
         status' \in [Settlements -> SettlementStatus],
         pstatus' \in [Payments -> {"settling", "settled", "failed"}],
         lock' \in [Merchants -> Workers \cup {None}],
         partner' \in [Settlements -> {"unknown", "accepted", "rejected"}],
         aborted' \subseteq Settlements, crashes' \in 0 .. MaxCrashes, callbacks' = callbacks,
         overruns' \in [Merchants -> 0 .. MaxOverruns]
  PROVE  WorkInv'
  <1>1. proc \in [Workers \cup Handlers -> Proc]
    BY DEF WorkInv, TypeOK
  <1>2. \A v \in Workers \cup Handlers : proc'[v] = IF v = w THEN r ELSE proc[v]
    BY <1>1
  <1>3. proc' \in [Workers \cup Handlers -> Proc]
    BY <1>1
  <1>4. TypeOK'
    BY <1>3 DEF WorkInv, TypeOK
  <1>5. ASSUME NEW v \in Workers \cup Handlers PROVE ProcFits(v, proc'[v], job')
    <2>1. CASE v = w
      BY <1>2, <2>1
    <2>2. CASE v # w
      <3>1. ProcFits(v, proc[v], job) /\ proc'[v] = proc[v]
        BY <1>2, <2>2 DEF WorkInv
      <3> QED
        BY <2>2, <3>1 DEF ProcFits
    <2> QED
      BY <2>1, <2>2
  <1>6. OneWorkerEach'
    BY <1>2 DEF WorkInv, OneWorkerEach
  <1> QED
    BY <1>4, <1>5, <1>6 DEF WorkInv

\* At the start each settlement has its job, and nobody works.
LEMMA WorkInitially == Init => WorkInv
  <1> SUFFICES ASSUME Init PROVE WorkInv
    OBVIOUS
  <1> USE ExecutionAssumption DEF ExecutionAssumption
  <1>1. PICK f \in [Settlements -> Jobs] :
           job = [j \in Jobs |-> IF \E s \in Settlements : f[s] = j
                                 THEN [state |-> "waiting", tries |-> 0,
                                       s |-> CHOOSE s \in Settlements : f[s] = j]
                                 ELSE FreeJob]
    BY DEF Init
  <1>2. \A j \in Jobs : job[j] \in Job /\ JobFits(job[j])
    <2> TAKE j \in Jobs
    <2>1. CASE \E s \in Settlements : f[s] = j
      <3> DEFINE s == CHOOSE s \in Settlements : f[s] = j
      <3>1. s \in Settlements
        BY <2>1
      <3>2. job[j] = [state |-> "waiting", tries |-> 0, s |-> s]
        BY <1>1, <2>1
      <3> HIDE DEF s
      <3> QED
        BY <3>1, <3>2 DEF Job, JobFits
    <2>2. CASE ~\E s \in Settlements : f[s] = j
      BY <1>1, <2>2 DEF Job, JobFits, FreeJob
    <2> QED
      BY <2>1, <2>2
  <1>3. Idle \in Proc
    BY DEF Idle, Proc
  <1>4. TypeOK
    <2>1. job \in [Jobs -> Job]
      BY <1>1, <1>2
    <2>2. proc \in [Workers \cup Handlers -> Proc]
      BY <1>3 DEF Init
    <2> QED
      BY <2>1, <2>2 DEF Init, TypeOK, SettlementStatus
  <1>5. \A w \in Workers \cup Handlers : ProcFits(w, proc[w], job)
    BY DEF Init, ProcFits, Idle
  <1>6. OneWorkerEach
    BY DEF Init, OneWorkerEach, Idle
  <1> QED
    BY <1>2, <1>4, <1>5, <1>6 DEF WorkInv

\* A step that leaves the queue alone and moves one process to r.
LEMMA MovesOnly ==
  ASSUME WorkInv, NEW w \in Workers \cup Handlers, NEW r \in Proc,
         proc' = [proc EXCEPT ![w] = r], job' = job, ProcFits(w, r, job),
         r.kind = "job" => r.j = proc[w].j /\ proc[w].kind = "job",
         status' \in [Settlements -> SettlementStatus],
         pstatus' \in [Payments -> {"settling", "settled", "failed"}],
         partner' \in [Settlements -> {"unknown", "accepted", "rejected"}],
         aborted' \subseteq Settlements, crashes' \in 0 .. MaxCrashes,
         overruns' \in [Merchants -> 0 .. MaxOverruns],
         lock' = lock, callbacks' = callbacks
  PROVE  WorkInv'
  <1>1. r.kind = "job" => \A v \in Workers \ {w} : proc[v].kind = "job" => proc[v].j # r.j
    BY DEF WorkInv, OneWorkerEach, ProcFits
  <1>2. /\ job' \in [Jobs -> Job] /\ \A j \in Jobs : JobFits(job'[j])
        /\ lock' \in [Merchants -> Workers \cup {None}]
    BY DEF WorkInv, TypeOK
  <1> QED
    BY <1>1, <1>2, ProcMoves

\* A worker stops: its slot gets x, and it is idle.
LEMMA WorkerStops ==
  ASSUME WorkInv, NEW w \in Workers, proc[w].kind = "job",
         NEW x \in Job, JobFits(x), job' = [job EXCEPT ![proc[w].j] = x],
         proc' = [proc EXCEPT ![w] = Idle],
         lock' \in [Merchants -> Workers \cup {None}],
         UNCHANGED <<aborted, status, pstatus, partner, callbacks, crashes, overruns>>
  PROVE  WorkInv'
  <1>1. Idle \in Proc /\ ProcFits(w, Idle, job') /\ Idle.kind # "job"
    BY DEF Idle, Proc, ProcFits
  <1>2. /\ job' \in [Jobs -> Job] /\ \A j \in Jobs : JobFits(job'[j])
        /\ \A v \in Workers \cup Handlers :
              v # w /\ proc[v].kind = "job" => job'[proc[v].j] = job[proc[v].j]
    BY SlotChanges
  <1>3. /\ status \in [Settlements -> SettlementStatus]
        /\ pstatus \in [Payments -> {"settling", "settled", "failed"}]
        /\ partner \in [Settlements -> {"unknown", "accepted", "rejected"}]
        /\ aborted \subseteq Settlements /\ crashes \in 0 .. MaxCrashes
        /\ overruns \in [Merchants -> 0 .. MaxOverruns]
    BY DEF WorkInv, TypeOK
  <1> QED
    BY <1>1, <1>2, <1>3, ProcMoves

\* The steps that begin, end or abandon a job.
LEMMA JobSteps ==
  ASSUME WorkInv, NEW w \in Workers,
         TakeJob(w) \/ AcquireLock(w) \/ Unlock(w) \/ ThrowBeforeLock(w) \/ WorkerCrashes(w)
  PROVE  WorkInv'
  <1> USE ExecutionAssumption DEF ExecutionAssumption
  <1>0. /\ job \in [Jobs -> Job] /\ proc \in [Workers \cup Handlers -> Proc]
        /\ lock \in [Merchants -> Workers \cup {None}]
        /\ proc[w] \in Proc /\ ProcFits(w, proc[w], job)
    BY DEF WorkInv, TypeOK
  <1>t. /\ status \in [Settlements -> SettlementStatus]
        /\ pstatus \in [Payments -> {"settling", "settled", "failed"}]
        /\ partner \in [Settlements -> {"unknown", "accepted", "rejected"}]
        /\ aborted \subseteq Settlements /\ crashes \in 0 .. MaxCrashes
        /\ overruns \in [Merchants -> 0 .. MaxOverruns]
    BY DEF WorkInv, TypeOK
  <1>f. FreeJob \in Job /\ JobFits(FreeJob)
    BY DEF FreeJob, Job, JobFits
  <1>k. proc[w].pc \in {"lock", "post", "unlock"} =>
           proc[w].kind = "job" /\ proc[w].s \in Settlements
    BY <1>0 DEF ProcFits, Proc, Idle
  <1>m. \A s \in Settlements : MerchantOf[s] \in Merchants
    BY DEF Merchants
  <1>1. ASSUME TakeJob(w) PROVE WorkInv'
    <2> PICK j \in Jobs :
           /\ job[j].state = "waiting"
           /\ IF PaymentsOf[job[j].s] = {}
              THEN /\ job' = [job EXCEPT ![j] = FreeJob]
                   /\ UNCHANGED proc
              ELSE /\ job' = [job EXCEPT ![j].state = "active"]
                   /\ proc' = [proc EXCEPT ![w] =
                         [Idle EXCEPT !.kind = "job", !.pc = "lock", !.s = job[j].s, !.j = j]]
      BY <1>1 DEF TakeJob
    <2>1. proc[w] = Idle /\ UNCHANGED <<aborted, status, pstatus, lock, partner, callbacks, crashes, overruns>>
      BY <1>1 DEF TakeJob
    <2>2. job[j] \in Job /\ JobFits(job[j])
      BY DEF WorkInv, TypeOK
    <2>3. \A v \in Workers : proc[v].kind = "job" => proc[v].j \in Jobs /\ proc[v].j # j
      BY DEF WorkInv, ProcFits
    <2>a. \A v \in Workers \cup Handlers : proc[v].kind = "job" => v \in Workers
      BY DEF WorkInv, ProcFits
    <2>4. CASE PaymentsOf[job[j].s] = {}
      <3>1. job' = [job EXCEPT ![j] = FreeJob] /\ proc' = proc
        BY <2>4
      <3>2. job' \in [Jobs -> Job] /\ \A i \in Jobs : JobFits(job'[i])
        BY <1>0, <1>f, <3>1 DEF WorkInv
      <3>3. \A v \in Workers \cup Handlers :
               proc[v].kind = "job" => job'[proc[v].j] = job[proc[v].j]
        BY <1>0, <2>3, <2>a, <3>1
      <3>4. \A v \in Workers \cup Handlers : ProcFits(v, proc'[v], job')
        BY <3>1, <3>3 DEF WorkInv, ProcFits
      <3>5. TypeOK' /\ OneWorkerEach'
        BY <2>1, <3>1, <3>2 DEF WorkInv, TypeOK, OneWorkerEach
      <3> QED
        BY <3>2, <3>4, <3>5 DEF WorkInv
    <2>5. CASE PaymentsOf[job[j].s] # {}
      <3> DEFINE x == [job[j] EXCEPT !.state = "active"]
                 r == [Idle EXCEPT !.kind = "job", !.pc = "lock", !.s = job[j].s, !.j = j]
      <3>1. job' = [job EXCEPT ![j] = x] /\ proc' = [proc EXCEPT ![w] = r]
        BY <2>5
      <3>2. x \in Job /\ JobFits(x) /\ x.state = "active" /\ x.s = job[j].s
        BY <2>2 DEF Job, JobFits
      <3>3. /\ r \in Proc /\ r.kind = "job" /\ r.pc = "lock" /\ r.s = job[j].s /\ r.j = j
            /\ r.target = "none"
        BY <2>2 DEF Idle, Proc, Job
      <3>4. job[j].s \in Settlements
        BY <2>2 DEF JobFits
      <3> HIDE DEF x, r
      <3>5. /\ job' \in [Jobs -> Job] /\ \A i \in Jobs : JobFits(job'[i])
            /\ job'[j] = x
        BY <1>0, <3>1, <3>2 DEF WorkInv
      <3>6. \A v \in Workers \cup Handlers :
               v # w /\ proc[v].kind = "job" => job'[proc[v].j] = job[proc[v].j]
        BY <1>0, <2>3, <2>a, <3>1
      <3>7. ProcFits(w, r, job')
        BY <3>2, <3>3, <3>4, <3>5 DEF ProcFits, Idle
      <3>8. \A v \in Workers \ {w} : proc[v].kind = "job" => proc[v].j # r.j
        BY <2>3, <3>3
      <3> QED
        BY <1>0, <1>t, <2>1, <3>1, <3>3, <3>5, <3>6, <3>7, <3>8, ProcMoves
    <2> QED
      BY <2>4, <2>5
  <1>2. ASSUME proc[w].kind = "job", FailAttempt(proc[w].j), proc' = [proc EXCEPT ![w] = Idle],
               lock' \in [Merchants -> Workers \cup {None}],
               UNCHANGED <<aborted, status, pstatus, partner, callbacks, crashes, overruns>>
        PROVE  WorkInv'
    BY <1>2, AttemptFails, WorkerStops
  <1>3. ASSUME AcquireLock(w) PROVE WorkInv'
    <2>1. CASE lock[MerchantOf[proc[w].s]] = None
      <3> DEFINE r == [proc[w] EXCEPT !.pc = "post"]
      <3>1. /\ proc[w].pc = "lock" /\ proc' = [proc EXCEPT ![w] = r] /\ job' = job
            /\ lock' = [lock EXCEPT ![MerchantOf[proc[w].s]] = w]
            /\ UNCHANGED <<aborted, status, pstatus, partner, callbacks, crashes, overruns>>
        BY <1>3, <2>1 DEF AcquireLock, Go
      <3>2. r \in Proc /\ r.pc = "post" /\ \A k \in {"kind", "s", "target", "todo", "j"} :
                                                r[k] = proc[w][k]
        BY <1>0 DEF Proc
      <3>3. ProcFits(w, r, job')
        BY <1>0, <1>k, <3>1, <3>2 DEF ProcFits
      <3> HIDE DEF r
      <3>4. lock' \in [Merchants -> Workers \cup {None}]
        BY <1>0, <3>1
      <3>5. r.kind = "job" => \A v \in Workers \ {w} : proc[v].kind = "job" => proc[v].j # r.j
        BY <3>2 DEF WorkInv, OneWorkerEach
      <3>6. job' \in [Jobs -> Job] /\ \A j \in Jobs : JobFits(job'[j])
        BY <3>1 DEF WorkInv, TypeOK
      <3> QED
        BY <1>t, <3>1, <3>2, <3>3, <3>4, <3>5, <3>6, ProcMoves
    <2>2. CASE lock[MerchantOf[proc[w].s]] # None
      BY <1>0, <1>2, <1>3, <1>k, <2>2 DEF AcquireLock
    <2> QED
      BY <2>1, <2>2
  <1>4. ASSUME Unlock(w) PROVE WorkInv'
    <2>1. /\ proc[w].kind = "job" /\ proc' = [proc EXCEPT ![w] = Idle]
          /\ lock' \in [Merchants -> Workers \cup {None}]
          /\ UNCHANGED <<aborted, status, pstatus, partner, callbacks, crashes, overruns>>
          /\ FailAttempt(proc[w].j) \/ job' = [job EXCEPT ![proc[w].j] = FreeJob]
      BY <1>0, <1>4, <1>k DEF Unlock
    <2>2. CASE FailAttempt(proc[w].j)
      BY <1>2, <2>1, <2>2
    <2>3. CASE job' = [job EXCEPT ![proc[w].j] = FreeJob]
      BY <1>f, <2>1, <2>3, WorkerStops
    <2> QED
      BY <2>1, <2>2, <2>3
  <1>5. ASSUME ThrowBeforeLock(w) PROVE WorkInv'
    BY <1>0, <1>2, <1>5, <1>k DEF ThrowBeforeLock
  <1>6. ASSUME WorkerCrashes(w) PROVE WorkInv'
    <2>1. Idle \in Proc /\ ProcFits(w, Idle, job) /\ Idle.kind # "job"
      BY DEF Idle, Proc, ProcFits
    <2>2. crashes' \in 0 .. MaxCrashes
      BY <1>6, <1>t DEF WorkerCrashes
    <2> QED
      BY <1>6, <1>t, <2>1, <2>2, MovesOnly DEF WorkerCrashes
  <1> QED
    BY <1>1, <1>3, <1>4, <1>5, <1>6

\* The steps that write rows, or move a process from one write to the next.
LEMMA WriteSteps ==
  ASSUME WorkInv, NEW w \in Workers \cup Handlers,
         PostTransfer(w) \/ SaveSettlement(w) \/ SavePayment(w) \/ ThrowInJob(w)
  PROVE  WorkInv'
  <1>0. /\ proc[w] \in Proc /\ ProcFits(w, proc[w], job) /\ lock' = lock /\ callbacks' = callbacks
        /\ job' = job
    BY DEF WorkInv, TypeOK, PostTransfer, SaveSettlement, SavePayment, ThrowInJob
  <1>t. /\ status \in [Settlements -> SettlementStatus]
        /\ pstatus \in [Payments -> {"settling", "settled", "failed"}]
        /\ partner \in [Settlements -> {"unknown", "accepted", "rejected"}]
        /\ aborted \subseteq Settlements /\ crashes \in 0 .. MaxCrashes
        /\ overruns \in [Merchants -> 0 .. MaxOverruns]
    BY DEF WorkInv, TypeOK
  <1>1. CASE PostTransfer(w)
    <2> PICK target \in {"completed", "failed"} :
           proc' = [proc EXCEPT ![w] = [proc[w] EXCEPT !.pc = "saveSettlement", !.target = target]]
      BY <1>1 DEF PostTransfer
    <2> DEFINE r == [proc[w] EXCEPT !.pc = "saveSettlement", !.target = target]
    <2>1. /\ r \in Proc /\ r.pc = "saveSettlement" /\ r.target = target
          /\ r.kind = proc[w].kind /\ r.s = proc[w].s /\ r.j = proc[w].j
      BY <1>0 DEF Proc, SettlementStatus
    <2>2. proc[w].kind = "job"
      BY <1>0, <1>1 DEF PostTransfer, ProcFits, Proc, Idle
    <2>3. partner' \in [Settlements -> {"unknown", "accepted", "rejected"}]
      BY <1>1, <1>t DEF PostTransfer
    <2> HIDE DEF r
    <2>4. ProcFits(w, r, job)
      BY <1>0, <2>1, <2>2 DEF ProcFits
    <2>5. proc' = [proc EXCEPT ![w] = r] /\ UNCHANGED <<status, pstatus, aborted, crashes, overruns>>
      BY <1>1 DEF PostTransfer, r
    <2> QED
      BY <1>0, <1>t, <2>1, <2>2, <2>3, <2>4, <2>5, MovesOnly
  <1>2. CASE SaveSettlement(w)
    <2> DEFINE r == [proc[w] EXCEPT !.pc = "savePayments", !.todo = PaymentsOf[proc[w].s]]
    <2>1. /\ proc[w].pc = "saveSettlement" /\ proc' = [proc EXCEPT ![w] = r]
          /\ status' = [status EXCEPT ![proc[w].s] = proc[w].target]
          /\ UNCHANGED <<aborted, pstatus, partner, crashes, overruns>>
      BY <1>2 DEF SaveSettlement
    <2>2. proc[w].s \in Settlements /\ proc[w].target \in SettlementStatus /\ proc[w].kind # "idle"
      BY <1>0, <2>1 DEF ProcFits, Proc, Idle
    <2>3. PaymentsOf[proc[w].s] \subseteq Payments
      BY <2>2, ExecutionAssumption DEF ExecutionAssumption
    <2>4. /\ r \in Proc /\ r.pc = "savePayments" /\ r.todo = PaymentsOf[proc[w].s]
          /\ r.kind = proc[w].kind /\ r.s = proc[w].s /\ r.j = proc[w].j
          /\ r.target = proc[w].target
      BY <1>0, <2>3 DEF Proc
    <2>5. status' \in [Settlements -> SettlementStatus]
      BY <1>t, <2>1, <2>2
    <2> HIDE DEF r
    <2>6. ProcFits(w, r, job)
      BY <1>0, <2>1, <2>2, <2>4 DEF ProcFits
    <2> QED
      BY <1>0, <1>t, <2>1, <2>4, <2>5, <2>6, MovesOnly
  <1>3. CASE SavePayment(w)
    <2> PICK p \in proc[w].todo :
           /\ pstatus' = [pstatus EXCEPT ![p] = PaymentStatusFor(proc[w].target)]
           /\ proc' = [proc EXCEPT ![w] = [proc[w] EXCEPT !.todo = proc[w].todo \ {p}]]
      BY <1>3 DEF SavePayment
    <2> DEFINE r == [proc[w] EXCEPT !.todo = proc[w].todo \ {p}]
    <2>1. proc[w].pc = "savePayments" /\ UNCHANGED <<status, aborted, partner, crashes, overruns>>
      BY <1>3 DEF SavePayment
    <2>2. proc[w].target \in SettlementStatus /\ proc[w].kind # "idle"
      BY <1>0, <2>1 DEF ProcFits, Proc, Idle
    <2>3. PaymentStatusFor(proc[w].target) \in {"settling", "settled", "failed"}
      BY <2>2 DEF PaymentStatusFor, SettlementStatus
    <2>4. /\ r \in Proc /\ r.pc = "savePayments" /\ r.todo = proc[w].todo \ {p}
          /\ r.kind = proc[w].kind /\ r.s = proc[w].s /\ r.j = proc[w].j
          /\ r.target = proc[w].target
      BY <1>0, <2>1 DEF Proc
    <2>5. pstatus' \in [Payments -> {"settling", "settled", "failed"}]
      BY <1>t, <2>3
    <2>6. proc' = [proc EXCEPT ![w] = r]
      OBVIOUS
    <2> HIDE DEF r
    <2>7. ProcFits(w, r, job)
      BY <1>0, <2>1, <2>2, <2>4 DEF ProcFits
    <2> QED
      BY <1>0, <1>t, <2>1, <2>4, <2>5, <2>6, <2>7, MovesOnly
  <1>4. CASE ThrowInJob(w)
    <2>1. /\ proc[w].kind = "job" /\ proc[w].target # "processing" /\ proc[w].s \in Settlements
          /\ UNCHANGED <<status, pstatus, aborted, partner, crashes, overruns>>
      BY <1>0, <1>4 DEF ThrowInJob, ProcFits
    <2> PICK r : /\ proc' = [proc EXCEPT ![w] = r]
                 /\ \/ r = [proc[w] EXCEPT !.pc = "saveSettlement", !.target = "failed", !.todo = {}]
                    \/ r = [proc[w] EXCEPT !.pc = "unlock", !.ok = FALSE, !.todo = {}]
      BY <1>4 DEF ThrowInJob
    <2>2. /\ r \in Proc /\ r.pc \in {"saveSettlement", "unlock"}
          /\ r.pc = "saveSettlement" => r.target = "failed"
          /\ r.pc = "unlock" => r.target = proc[w].target
          /\ r.kind = proc[w].kind /\ r.s = proc[w].s /\ r.j = proc[w].j
      BY <1>0 DEF Proc, SettlementStatus
    <2>3. ProcFits(w, r, job)
      BY <1>0, <2>1, <2>2 DEF ProcFits
    <2> QED
      BY <1>0, <1>t, <2>1, <2>2, <2>3, MovesOnly
  <1> QED
    BY <1>1, <1>2, <1>3, <1>4

\* The end of a job, a callback or a retry.
LEMMA FinishSteps ==
  ASSUME WorkInv, NEW w \in Workers \cup Handlers, Finish(w)
  PROVE  WorkInv'
  <1> USE ExecutionAssumption DEF ExecutionAssumption
  <1>0. /\ job \in [Jobs -> Job] /\ proc[w] \in Proc /\ ProcFits(w, proc[w], job)
    BY DEF WorkInv, TypeOK
  <1>t. /\ status' \in [Settlements -> SettlementStatus]
        /\ pstatus' \in [Payments -> {"settling", "settled", "failed"}]
        /\ lock' \in [Merchants -> Workers \cup {None}]
        /\ partner' \in [Settlements -> {"unknown", "accepted", "rejected"}]
        /\ aborted' \subseteq Settlements /\ crashes' \in 0 .. MaxCrashes
        /\ overruns' \in [Merchants -> 0 .. MaxOverruns]
        /\ callbacks' = callbacks /\ lock' = lock
    BY DEF Finish, WorkInv, TypeOK
  <1>i. Idle \in Proc /\ Idle.kind # "job" /\ \A jobs : ProcFits(w, Idle, jobs)
    BY DEF Idle, Proc, ProcFits
  <1>1. CASE proc[w].kind = "job" /\ Go(w, "unlock") /\ job' = job
    <2> DEFINE r == [proc[w] EXCEPT !.pc = "unlock"]
    <2>1. /\ r \in Proc /\ r.pc = "unlock"
          /\ r.kind = proc[w].kind /\ r.s = proc[w].s /\ r.j = proc[w].j
          /\ r.target = proc[w].target
      BY <1>0 DEF Proc
    <2>2. proc' = [proc EXCEPT ![w] = r]
      BY <1>1 DEF Go
    <2> HIDE DEF r
    <2>3. ProcFits(w, r, job)
      BY <1>0, <1>1, <2>1 DEF ProcFits
    <2> QED
      BY <1>1, <1>t, <2>1, <2>2, <2>3, MovesOnly
  <1>2. CASE proc' = [proc EXCEPT ![w] = Idle] /\ job' = job
    BY <1>2, <1>i, <1>t, MovesOnly
  <1>3. CASE /\ proc[w].kind = "retry" /\ proc' = [proc EXCEPT ![w] = Idle]
             /\ \E j \in Jobs :
                   /\ job[j].state = "free"
                   /\ job' = [job EXCEPT ![j] =
                                 [state |-> "waiting", s |-> proc[w].s, tries |-> 0]]
    <2> PICK j \in Jobs :
           /\ job[j].state = "free"
           /\ job' = [job EXCEPT ![j] = [state |-> "waiting", s |-> proc[w].s, tries |-> 0]]
      BY <1>3
    <2> DEFINE x == [state |-> "waiting", s |-> proc[w].s, tries |-> 0]
    <2>1. x \in Job /\ JobFits(x)
      BY <1>0, <1>3 DEF ProcFits, Job, JobFits
    <2> HIDE DEF x
    <2>2. job' = [job EXCEPT ![j] = x]
      BY DEF x
    <2>3. job' \in [Jobs -> Job] /\ \A i \in Jobs : JobFits(job'[i])
      BY <1>0, <2>1, <2>2 DEF WorkInv
    <2>4. \A v \in Workers \cup Handlers :
             v # w /\ proc[v].kind = "job" => job'[proc[v].j] = job[proc[v].j]
      BY <1>0, <2>2 DEF WorkInv, ProcFits
    <2> QED
      BY <1>3, <1>i, <1>t, <2>3, <2>4, ProcMoves
  <1> QED
    BY <1>1, <1>2, <1>3 DEF Finish

\* The steps that begin or abandon a request.
LEMMA RequestSteps ==
  ASSUME WorkInv, NEW h \in Handlers,
         \/ HandleCallback(h) \/ ThrowInCallback(h) \/ ThrowInRetry(h)
         \/ \E s \in Settlements : RetrySettlement(h, s)
  PROVE  WorkInv'
  <1>0. /\ proc[h] \in Proc /\ ProcFits(h, proc[h], job)
    BY DEF WorkInv, TypeOK
  <1>t. /\ status \in [Settlements -> SettlementStatus]
        /\ pstatus \in [Payments -> {"settling", "settled", "failed"}]
        /\ partner \in [Settlements -> {"unknown", "accepted", "rejected"}]
        /\ aborted \subseteq Settlements /\ crashes \in 0 .. MaxCrashes
        /\ overruns \in [Merchants -> 0 .. MaxOverruns]
        /\ callbacks \subseteq [reference : Settlements, status : {"success", "failed"}]
    BY DEF WorkInv, TypeOK
  <1>u. UNCHANGED <<status, pstatus, job, lock, partner, callbacks, crashes, overruns>>
    BY DEF HandleCallback, ThrowInCallback, ThrowInRetry, RetrySettlement
  <1>1. ASSUME NEW r \in Proc, proc' = [proc EXCEPT ![h] = r], r.pc = "saveSettlement",
               r.s \in Settlements, r.target # "none", aborted' = aborted,
               \/ r.kind = "callback" /\ r.target # "processing"
               \/ r.kind = "retry" /\ r.target = "processing"
        PROVE  WorkInv'
    <2>1. ProcFits(h, r, job)
      BY <1>1 DEF ProcFits
    <2> QED
      BY <1>1, <1>t, <1>u, <2>1, MovesOnly
  <1>2. ASSUME HandleCallback(h) PROVE WorkInv'
    <2> PICK c \in callbacks :
           proc' = [proc EXCEPT ![h] =
              [Idle EXCEPT !.kind = "callback", !.pc = "saveSettlement", !.s = c.reference,
                           !.target = IF c.status = "success" THEN "completed" ELSE "failed"]]
      BY <1>2 DEF HandleCallback
    <2> DEFINE r == [Idle EXCEPT !.kind = "callback", !.pc = "saveSettlement", !.s = c.reference,
                           !.target = IF c.status = "success" THEN "completed" ELSE "failed"]
    <2>1. /\ r \in Proc /\ r.kind = "callback" /\ r.pc = "saveSettlement"
          /\ r.s \in Settlements /\ r.target \in {"completed", "failed"}
      BY <1>t DEF Idle, Proc, SettlementStatus
    <2>2. aborted' = aborted
      BY <1>2 DEF HandleCallback
    <2> HIDE DEF r
    <2>3. proc' = [proc EXCEPT ![h] = r]
      BY DEF r
    <2> QED
      BY <1>1, <2>1, <2>2, <2>3
  <1>3. ASSUME NEW s \in Settlements, RetrySettlement(h, s) PROVE WorkInv'
    <2> DEFINE r == [Idle EXCEPT !.kind = "retry", !.pc = "saveSettlement", !.s = s,
                                 !.target = "processing"]
    <2>1. /\ r \in Proc /\ r.kind = "retry" /\ r.pc = "saveSettlement"
          /\ r.s \in Settlements /\ r.target = "processing"
      BY DEF Idle, Proc, SettlementStatus
    <2>2. aborted' = aborted /\ proc' = [proc EXCEPT ![h] = r]
      BY <1>3 DEF RetrySettlement
    <2> HIDE DEF r
    <2> QED
      BY <1>1, <2>1, <2>2
  <1>4. ASSUME proc' = [proc EXCEPT ![h] = Idle], aborted' \subseteq Settlements PROVE WorkInv'
    <2>1. Idle \in Proc /\ Idle.kind # "job" /\ ProcFits(h, Idle, job)
      BY DEF Idle, Proc, ProcFits
    <2> QED
      BY <1>4, <1>t, <1>u, <2>1, MovesOnly
  <1>5. ASSUME ThrowInRetry(h) PROVE WorkInv'
    <2>1. proc[h].s \in Settlements
      BY <1>0, <1>5 DEF ThrowInRetry, ProcFits
    <2> QED
      BY <1>4, <1>5, <1>t, <2>1 DEF ThrowInRetry
  <1> QED
    BY <1>2, <1>3, <1>4, <1>5, <1>t DEF ThrowInCallback

\* The steps of the partner, of Redis and of Bull.
LEMMA OutsideSteps ==
  ASSUME WorkInv,
         \/ \E s \in Settlements : PartnerReports(s)
         \/ \E m \in Merchants : LockExpires(m)
         \/ \E j \in Jobs : Redeliver(j)
  PROVE  WorkInv'
  <1> USE ExecutionAssumption DEF ExecutionAssumption
  <1>1. ASSUME NEW s \in Settlements, PartnerReports(s) PROVE WorkInv'
    <2>1. /\ callbacks' \subseteq [reference : Settlements, status : {"success", "failed"}]
          /\ partner' \in [Settlements -> {"unknown", "accepted", "rejected"}]
      BY <1>1 DEF PartnerReports, WorkInv, TypeOK
    <2>2. UNCHANGED <<aborted, status, pstatus, job, lock, proc, crashes, overruns>>
      BY <1>1 DEF PartnerReports
    <2> QED
      BY <2>1, <2>2 DEF WorkInv, TypeOK, OneWorkerEach, ProcFits
  <1>2. ASSUME NEW m \in Merchants, LockExpires(m) PROVE WorkInv'
    <2>1. /\ lock' \in [Merchants -> Workers \cup {None}]
          /\ overruns' \in [Merchants -> 0 .. MaxOverruns]
          /\ UNCHANGED <<aborted, status, pstatus, job, proc, partner, callbacks, crashes>>
      BY <1>2 DEF LockExpires, WorkInv, TypeOK
    <2> QED
      BY <2>1 DEF WorkInv, TypeOK, OneWorkerEach, ProcFits
  <1>3. ASSUME NEW j \in Jobs, Redeliver(j) PROVE WorkInv'
    <2> DEFINE x == [job[j] EXCEPT !.state = "waiting"]
    <2>1. /\ job[j] \in Job /\ JobFits(job[j]) /\ job[j].state = "active"
          /\ job \in [Jobs -> Job] /\ job' = [job EXCEPT ![j] = x]
          /\ UNCHANGED <<aborted, status, pstatus, lock, proc, partner, callbacks, crashes, overruns>>
      BY <1>3 DEF Redeliver, WorkInv, TypeOK
    <2>2. x \in Job /\ JobFits(x)
      BY <2>1 DEF Job, JobFits
    <2> HIDE DEF x
    <2>3. job' \in [Jobs -> Job] /\ \A i \in Jobs : JobFits(job'[i])
      BY <2>1, <2>2 DEF WorkInv
    <2>4. ASSUME NEW v \in Workers \cup Handlers PROVE ProcFits(v, proc[v], job')
      <3>1. ProcFits(v, proc[v], job)
        BY DEF WorkInv
      <3>2. proc[v].kind = "job" => job'[proc[v].j] = job[proc[v].j]
        <4>1. proc[v].kind = "job" => v \in Workers /\ proc[v].j # j /\ proc[v].j \in Jobs
          BY <1>3, <3>1 DEF Redeliver, ProcFits
        <4> QED
          BY <2>1, <4>1
      <3> QED
        BY <3>1, <3>2 DEF ProcFits
    <2> QED
      BY <2>1, <2>3, <2>4 DEF WorkInv, TypeOK, OneWorkerEach
  <1> QED
    BY <1>1, <1>2, <1>3

\* Every step keeps it.
LEMMA WorkStep == WorkInv /\ [Next]_vars => WorkInv'
  <1> SUFFICES ASSUME WorkInv, [Next]_vars PROVE WorkInv'
    OBVIOUS
  <1>1. ASSUME NEW w \in Workers,
               WorkerStep(w) \/ WorkerCrashes(w) \/ ThrowBeforeLock(w) \/ ThrowInJob(w)
        PROVE  WorkInv'
    BY <1>1, JobSteps, WriteSteps, FinishSteps DEF WorkerStep
  <1>2. ASSUME NEW h \in Handlers,
               \/ HandlerStep(h) \/ HandleCallback(h) \/ ThrowInCallback(h) \/ ThrowInRetry(h)
               \/ \E s \in Settlements : RetrySettlement(h, s)
        PROVE  WorkInv'
    BY <1>2, RequestSteps, WriteSteps, FinishSteps DEF HandlerStep
  <1>3. CASE UNCHANGED vars
    BY <1>3 DEF vars, WorkInv, TypeOK, OneWorkerEach, ProcFits
  <1> QED
    BY <1>1, <1>2, <1>3, OutsideSteps DEF Next

\* Rows, jobs, locks and processes have their types in every reachable state.
THEOREM TypeCorrect == Spec => []TypeOK
  <1>1. WorkInv => TypeOK
    BY DEF WorkInv
  <1> QED
    BY <1>1, WorkInitially, WorkStep, PTL DEF Spec

--------------------------------------------------------------------------------
(* The merchant lock                                                       *)

\* The worker that set the key is one of those inside, or else each of those
\* inside has outlasted a key.
LockInv ==
    \A m \in Merchants :
        Cardinality(Inside(m)) <= overruns[m] + (IF lock[m] \in Inside(m) THEN 1 ELSE 0)

\* There are finitely many inside, and a counted number of overruns.
LEMMA InsideFinite ==
  ASSUME WorkInv, NEW m \in Merchants
  PROVE  /\ IsFiniteSet(Inside(m)) /\ Cardinality(Inside(m)) \in Nat
         /\ overruns[m] \in Nat
  <1>1. Inside(m) \subseteq Workers /\ IsFiniteSet(Workers)
    BY ExecutionAssumption DEF Inside, ExecutionAssumption
  <1>2. IsFiniteSet(Inside(m))
    BY <1>1, FS_Subset
  <1>3. overruns[m] \in Nat
    BY ExecutionAssumption DEF WorkInv, TypeOK, ExecutionAssumption
  <1> QED
    BY <1>2, <1>3, FS_CardinalityType

\* Where r is between lock and unlock.
HoldsAt(r, m) == r.kind = "job" /\ r.pc # "lock" /\ MerchantOf[r.s] = m

\* One process moves to r, which is inside where it was before or nowhere, and
\* no key is touched but those it deletes as it leaves.
LEMMA OneMoves ==
  ASSUME WorkInv, LockInv, NEW w \in Workers \cup Handlers, NEW r,
         proc' = [proc EXCEPT ![w] = r], overruns' = overruns,
         \A m \in Merchants : w \in Workers /\ HoldsAt(r, m) => Holds(w, m),
         \A m \in Merchants :
            \/ lock'[m] = lock[m]
            \/ lock'[m] = None /\ w \in Workers /\ Holds(w, m) /\ ~HoldsAt(r, m)
  PROVE  LockInv'
  <1>1. \A v \in Workers \cup Handlers : proc'[v] = IF v = w THEN r ELSE proc[v]
    BY DEF WorkInv, TypeOK
  <1>2. ASSUME NEW m \in Merchants
        PROVE  Cardinality(Inside(m)') <=
                   overruns'[m] + (IF lock'[m] \in Inside(m)' THEN 1 ELSE 0)
    <2>0. /\ Cardinality(Inside(m)) <= overruns[m] + (IF lock[m] \in Inside(m) THEN 1 ELSE 0)
          /\ IsFiniteSet(Inside(m)) /\ Cardinality(Inside(m)) \in Nat
          /\ overruns[m] \in Nat
      BY InsideFinite DEF LockInv
    <2>1. CASE w \in Workers /\ Holds(w, m) /\ ~HoldsAt(r, m)
      <3>1. Inside(m)' = Inside(m) \ {w} /\ w \in Inside(m)
        BY <1>1, <2>1 DEF Inside, Holds, HoldsAt
      <3>2. Cardinality(Inside(m)') = Cardinality(Inside(m)) - 1
        BY <2>0, <3>1, FS_RemoveElement
      <3>3. lock[m] \in Inside(m) => lock[m] = w \/ lock[m] \in Inside(m)'
        BY <3>1
      <3>4. lock'[m] = lock[m] \/ lock'[m] = None
        OBVIOUS
      <3> QED
        BY <2>0, <3>2, <3>3, <3>4
    <2>2. CASE ~(w \in Workers /\ Holds(w, m) /\ ~HoldsAt(r, m))
      <3>1. Inside(m)' = Inside(m)
        BY <1>1, <2>2 DEF Inside, Holds, HoldsAt
      <3>2. lock'[m] = lock[m]
        BY <2>2
      <3> QED
        BY <2>0, <3>1, <3>2
    <2> QED
      BY <2>1, <2>2
  <1> QED
    BY <1>2 DEF LockInv

\* w stops: it is inside nowhere any more.
LEMMA HolderStops ==
  ASSUME WorkInv, LockInv, NEW w \in Workers, NEW r, proc' = [proc EXCEPT ![w] = r],
         r.kind = "idle" \/ r.pc = "lock", overruns' = overruns,
         \A m \in Merchants : lock'[m] = lock[m] \/ (lock'[m] = None /\ Holds(w, m))
  PROVE  LockInv'
  <1>1. \A m \in Merchants : ~HoldsAt(r, m)
    BY DEF HoldsAt
  <1> QED
    BY <1>1, OneMoves

\* A process that had passed the lock, or is no worker, goes on about the same
\* settlement.
LEMMA HolderGoesOn ==
  ASSUME WorkInv, LockInv, NEW w \in Workers \cup Handlers, NEW r,
         proc' = [proc EXCEPT ![w] = r], lock' = lock, overruns' = overruns,
         w \in Workers /\ r.kind = "job" =>
             proc[w].kind = "job" /\ proc[w].pc # "lock" /\ r.s = proc[w].s
  PROVE  LockInv'
  <1>1. \A m \in Merchants : w \in Workers /\ HoldsAt(r, m) => Holds(w, m)
    BY DEF HoldsAt, Holds
  <1> QED
    BY <1>1, OneMoves

\* Every step keeps the lock's invariant.
LEMMA LockStep == WorkInv /\ LockInv /\ [Next]_vars => LockInv'
  <1> SUFFICES ASSUME WorkInv, LockInv, [Next]_vars PROVE LockInv'
    OBVIOUS
  <1> USE ExecutionAssumption DEF ExecutionAssumption
  <1>t. proc \in [Workers \cup Handlers -> Proc] /\ lock \in [Merchants -> Workers \cup {None}]
    BY DEF WorkInv, TypeOK
  <1>i. Idle.kind = "idle"
    BY DEF Idle
  <1>0. ASSUME UNCHANGED <<proc, lock, overruns>> PROVE LockInv'
    BY <1>0 DEF LockInv, Inside, Holds
  <1>k. \A w \in Workers : proc[w].pc \in {"lock", "post", "unlock"} => proc[w].kind = "job"
    BY <1>t DEF WorkInv, ProcFits, Proc, Idle
  <1>s. \A w \in Workers : proc[w].kind = "job" =>
           proc[w].s \in Settlements /\ MerchantOf[proc[w].s] \in Merchants
    BY DEF WorkInv, ProcFits, Merchants
  <1>1. ASSUME NEW w \in Workers, TakeJob(w) PROVE LockInv'
    <2>1. UNCHANGED <<lock, overruns>>
      BY <1>1 DEF TakeJob
    <2>2. \/ proc' = proc
          \/ \E j \in Jobs : proc' = [proc EXCEPT ![w] =
                [Idle EXCEPT !.kind = "job", !.pc = "lock", !.s = job[j].s, !.j = j]]
      BY <1>1 DEF TakeJob
    <2>3. \A j \in Jobs :
             [Idle EXCEPT !.kind = "job", !.pc = "lock", !.s = job[j].s, !.j = j].pc = "lock"
      BY DEF Idle
    <2> QED
      BY <1>0, <2>1, <2>2, <2>3, HolderStops
  <1>2. ASSUME NEW w \in Workers, AcquireLock(w) PROVE LockInv'
    <2> PICK n : n = MerchantOf[proc[w].s]
      OBVIOUS
    <2>0. n \in Merchants /\ proc[w].kind = "job"
      BY <1>2, <1>k, <1>s DEF AcquireLock
    <2>o. overruns' = overruns
      BY <1>2 DEF AcquireLock
    <2>1. CASE lock[n] = None /\ lock' = [lock EXCEPT ![n] = w] /\ Go(w, "post")
      <3>1. \A m \in Merchants : lock'[m] = IF m = n THEN w ELSE lock[m]
        BY <1>t, <2>1
      <3>2. \A v \in Workers : v # w => proc'[v] = proc[v]
        BY <1>t, <2>1 DEF Go
      <3>3. proc'[w].s = proc[w].s /\ proc'[w].kind = "job" /\ proc'[w].pc = "post"
        BY <1>t, <2>0, <2>1 DEF Go, Proc
      <3>4. \A m \in Merchants : ~Holds(w, m) /\ (Holds(w, m)' <=> m = n)
        BY <1>2, <3>3 DEF AcquireLock, Holds
      <3>5. \A v \in Workers, m \in Merchants : v # w => (Holds(v, m)' <=> Holds(v, m))
        BY <3>2 DEF Holds
      <3>6. ASSUME NEW m \in Merchants
            PROVE  Cardinality(Inside(m)') <=
                       overruns'[m] + (IF lock'[m] \in Inside(m)' THEN 1 ELSE 0)
        <4>0. /\ Cardinality(Inside(m)) <=
                     overruns[m] + (IF lock[m] \in Inside(m) THEN 1 ELSE 0)
              /\ IsFiniteSet(Inside(m)) /\ Cardinality(Inside(m)) \in Nat
              /\ overruns[m] \in Nat
          BY InsideFinite DEF LockInv
        <4>1. CASE m = n
          <5>1. Inside(m)' = Inside(m) \cup {w} /\ w \notin Inside(m)
            BY <3>4, <3>5, <4>1 DEF Inside
          <5>2. Cardinality(Inside(m)') = Cardinality(Inside(m)) + 1
            BY <4>0, <5>1, FS_AddElement
          <5>3. lock[m] \notin Inside(m)
            BY <2>1, <4>1 DEF Inside
          <5>4. lock'[m] \in Inside(m)'
            BY <3>1, <4>1, <5>1
          <5> QED
            BY <2>o, <4>0, <5>2, <5>3, <5>4
        <4>2. CASE m # n
          <5>1. Inside(m)' = Inside(m)
            BY <3>4, <3>5, <4>2 DEF Inside
          <5> QED
            BY <2>o, <3>1, <4>0, <4>2, <5>1
        <4> QED
          BY <4>1, <4>2
      <3> QED
        BY <3>6 DEF LockInv
    <2>2. CASE proc' = [proc EXCEPT ![w] = Idle] /\ lock' = lock
      BY <1>i, <2>o, <2>2, HolderStops
    <2> QED
      BY <1>2, <2>1, <2>2 DEF AcquireLock
  <1>3. ASSUME NEW w \in Workers, Unlock(w) PROVE LockInv'
    <2>0. Holds(w, MerchantOf[proc[w].s]) /\ MerchantOf[proc[w].s] \in Merchants
      BY <1>3, <1>k, <1>s DEF Unlock, Holds
    <2>1. proc' = [proc EXCEPT ![w] = Idle] /\ overruns' = overruns
      BY <1>3 DEF Unlock
    <2>2. \A m \in Merchants : lock'[m] = lock[m] \/ (lock'[m] = None /\ Holds(w, m))
      BY <1>3, <1>t, <2>0 DEF Unlock
    <2> QED
      BY <1>i, <2>1, <2>2, HolderStops
  <1>4. ASSUME NEW w \in Workers, ThrowBeforeLock(w) \/ WorkerCrashes(w) PROVE LockInv'
    BY <1>4, <1>i, HolderStops DEF ThrowBeforeLock, WorkerCrashes
  <1>5. ASSUME NEW w \in Workers \cup Handlers, NEW r, proc' = [proc EXCEPT ![w] = r],
               lock' = lock, overruns' = overruns, proc[w].pc # "lock",
               r.kind = proc[w].kind, r.s = proc[w].s
        PROVE  LockInv'
    BY <1>5, HolderGoesOn
  <1>6. ASSUME NEW w \in Workers \cup Handlers,
               \/ PostTransfer(w) \/ SaveSettlement(w) \/ SavePayment(w) \/ ThrowInJob(w)
               \/ Finish(w)
        PROVE  LockInv'
    <2>0. proc[w] \in Proc /\ lock' = lock /\ overruns' = overruns /\ proc[w].pc # "lock"
      BY <1>6, <1>t
         DEF PostTransfer, SaveSettlement, SavePayment, ThrowInJob, Finish
    <2>1. CASE PostTransfer(w)
      <3> PICK target : proc' = [proc EXCEPT ![w].pc = "saveSettlement", ![w].target = target]
        BY ONLY <2>1, Zenon DEF PostTransfer
      <3>1. /\ [proc[w] EXCEPT !.pc = "saveSettlement", !.target = target].kind = proc[w].kind
            /\ [proc[w] EXCEPT !.pc = "saveSettlement", !.target = target].s = proc[w].s
        BY <2>0 DEF Proc
      <3> QED
        BY <1>5, <2>0, <3>1
    <2>2. CASE SaveSettlement(w)
      <3>1. proc' = [proc EXCEPT ![w] =
                      [proc[w] EXCEPT !.pc = "savePayments", !.todo = PaymentsOf[proc[w].s]]]
        BY <2>2 DEF SaveSettlement
      <3>2. /\ [proc[w] EXCEPT !.pc = "savePayments",
                               !.todo = PaymentsOf[proc[w].s]].kind = proc[w].kind
            /\ [proc[w] EXCEPT !.pc = "savePayments",
                               !.todo = PaymentsOf[proc[w].s]].s = proc[w].s
        BY <2>0 DEF Proc
      <3> QED
        BY <1>5, <2>0, <3>1, <3>2
    <2>3. CASE SavePayment(w)
      <3> PICK p : proc' = [proc EXCEPT ![w] = [proc[w] EXCEPT !.todo = proc[w].todo \ {p}]]
        BY <2>3 DEF SavePayment
      <3>1. /\ [proc[w] EXCEPT !.todo = proc[w].todo \ {p}].kind = proc[w].kind
            /\ [proc[w] EXCEPT !.todo = proc[w].todo \ {p}].s = proc[w].s
        BY <2>0 DEF Proc
      <3> QED
        BY <1>5, <2>0, <3>1
    <2>4. CASE ThrowInJob(w)
      <3> PICK r : /\ proc' = [proc EXCEPT ![w] = r]
                   /\ \/ r = [proc[w] EXCEPT !.pc = "saveSettlement", !.target = "failed",
                                             !.todo = {}]
                      \/ r = [proc[w] EXCEPT !.pc = "unlock", !.ok = FALSE, !.todo = {}]
        BY <2>4 DEF ThrowInJob
      <3>1. r.kind = proc[w].kind /\ r.s = proc[w].s
        BY <2>0 DEF Proc
      <3> QED
        BY <1>5, <2>0, <3>1
    <2>5. CASE Finish(w) /\ Go(w, "unlock")
      <3>1. proc' = [proc EXCEPT ![w] = [proc[w] EXCEPT !.pc = "unlock"]]
        BY <2>5 DEF Go
      <3>2. /\ [proc[w] EXCEPT !.pc = "unlock"].kind = proc[w].kind
            /\ [proc[w] EXCEPT !.pc = "unlock"].s = proc[w].s
        BY <2>0 DEF Proc
      <3> QED
        BY <1>5, <2>0, <3>1, <3>2
    <2>6. CASE proc' = [proc EXCEPT ![w] = Idle]
      BY <1>i, <2>0, <2>6, HolderGoesOn
    <2> QED
      BY <1>6, <2>1, <2>2, <2>3, <2>4, <2>5, <2>6 DEF Finish
  <1>7. ASSUME NEW h \in Handlers,
               \/ HandleCallback(h) \/ ThrowInCallback(h) \/ ThrowInRetry(h)
               \/ \E s \in Settlements : RetrySettlement(h, s)
        PROVE  LockInv'
    <2>1. /\ lock' = lock /\ overruns' = overruns
          /\ \E r : proc' = [proc EXCEPT ![h] = r]
      BY <1>7 DEF HandleCallback, ThrowInCallback, ThrowInRetry, RetrySettlement
    <2> QED
      BY <2>1, HolderGoesOn
  <1>8. ASSUME NEW n \in Merchants, LockExpires(n) PROVE LockInv'
    <2>1. \A m \in Merchants : Inside(m)' = Inside(m)
      BY <1>8 DEF LockExpires, Inside, Holds
    <2>2. ASSUME NEW m \in Merchants
          PROVE  Cardinality(Inside(m)') <=
                     overruns'[m] + (IF lock'[m] \in Inside(m)' THEN 1 ELSE 0)
      <3>0. /\ Cardinality(Inside(m)) <=
                   overruns[m] + (IF lock[m] \in Inside(m) THEN 1 ELSE 0)
            /\ Cardinality(Inside(m)) \in Nat /\ overruns[m] \in Nat
        BY InsideFinite DEF LockInv
      <3>t. overruns \in [Merchants -> 0 .. MaxOverruns]
        BY DEF WorkInv, TypeOK
      <3>1. CASE m # n
        <4>1. lock'[m] = lock[m] /\ overruns'[m] = overruns[m]
          BY <1>8, <1>t, <3>1, <3>t DEF LockExpires
        <4> QED
          BY <2>1, <3>0, <4>1
      <3>2. CASE m = n /\ ~Holds(lock[n], n)
        <4>1. overruns' = overruns /\ lock[m] \notin Inside(m)
          BY <1>8, <3>2 DEF LockExpires, Inside
        <4> QED
          BY <2>1, <3>0, <4>1
      <3>3. CASE m = n /\ Holds(lock[n], n)
        <4>1. overruns'[m] = overruns[m] + 1
          BY <1>8, <3>3, <3>t DEF LockExpires
        <4> QED
          BY <2>1, <3>0, <4>1
      <3> QED
        BY <3>1, <3>2, <3>3
    <2> QED
      BY <2>2 DEF LockInv
  <1>9. ASSUME \/ \E s \in Settlements : PartnerReports(s)
               \/ \E j \in Jobs : Redeliver(j)
               \/ UNCHANGED vars
        PROVE  LockInv'
    BY <1>0, <1>9 DEF PartnerReports, Redeliver, vars
  <1> QED
    BY <1>1, <1>2, <1>3, <1>4, <1>6, <1>7, <1>8, <1>9 DEF Next, WorkerStep, HandlerStep

\* However many executions of a merchant outlast the 60 s, each lets in one worker
\* more and nothing else does; if none does, one worker pays at a time.
THEOREM OverrunsCounted == Spec => []OverlapBounded
  <1>1. Init => LockInv
    <2> SUFFICES ASSUME Init, NEW m \in Merchants
                 PROVE  Cardinality(Inside(m)) <=
                            overruns[m] + (IF lock[m] \in Inside(m) THEN 1 ELSE 0)
      BY DEF LockInv
    <2>1. Inside(m) = {} /\ overruns[m] = 0
      BY DEF Init, Inside, Holds, Idle
    <2>2. Cardinality({}) = 0
      BY FS_EmptySet
    <2> QED
      BY <2>1, <2>2
  <1>2. WorkInv /\ LockInv => OverlapBounded
    <2> SUFFICES ASSUME WorkInv, LockInv, NEW m \in Merchants
                 PROVE  Cardinality(Inside(m)) <= 1 + overruns[m]
      BY DEF OverlapBounded
    <2>1. /\ Cardinality(Inside(m)) <= overruns[m] + (IF lock[m] \in Inside(m) THEN 1 ELSE 0)
          /\ Cardinality(Inside(m)) \in Nat /\ overruns[m] \in Nat
      BY InsideFinite DEF LockInv
    <2> QED
      BY <2>1
  <1> QED
    BY <1>1, <1>2, WorkInitially, WorkStep, LockStep, PTL DEF Spec

--------------------------------------------------------------------------------
(* What the partner accepted                                               *)

Accepted(s) == partner[s] # "unknown"

\* Whoever is about to write a success writes about an accepted transfer: the
\* answer of the partner said so, or a callback, which only such transfers have.
AcceptFits(r) ==
    r.pc \in {"saveSettlement", "savePayments"} /\ r.target = "completed" => Accepted(r.s)

AcceptInv ==
    /\ SettledWasAccepted
    /\ \A w \in Workers \cup Handlers : AcceptFits(proc[w])
    /\ \A c \in callbacks : Accepted(c.reference)

\* The partner never forgets a transfer; no payment is written; and w moves to a
\* place that fits.
LEMMA AcceptKept ==
  ASSUME WorkInv, AcceptInv, NEW w \in Workers \cup Handlers, NEW r,
         proc' = [proc EXCEPT ![w] = r],
         r.pc \in {"saveSettlement", "savePayments"} /\ r.target = "completed"
            => partner'[r.s] # "unknown",
         \A s \in Settlements : Accepted(s) => partner'[s] # "unknown",
         \A s \in Settlements : \A p \in PaymentsOf[s] :
            pstatus'[p] = "settled" => pstatus[p] = "settled" \/ partner'[s] # "unknown",
         callbacks' = callbacks
  PROVE  AcceptInv'
  <1>1. \A v \in Workers \cup Handlers : proc'[v] = IF v = w THEN r ELSE proc[v]
    BY DEF WorkInv, TypeOK
  <1>2. ASSUME NEW v \in Workers \cup Handlers PROVE AcceptFits(proc[v])'
    <2>1. CASE v = w
      BY <1>1, <2>1 DEF AcceptFits, Accepted
    <2>2. CASE v # w
      <3>1. proc'[v] = proc[v] /\ AcceptFits(proc[v]) /\ ProcFits(v, proc[v], job)
        BY <1>1, <2>2 DEF AcceptInv, WorkInv
      <3>2. proc[v].pc \in {"saveSettlement", "savePayments"} => proc[v].s \in Settlements
        BY <3>1 DEF ProcFits, Idle
      <3> QED
        BY <3>1, <3>2 DEF AcceptFits, Accepted
    <2> QED
      BY <2>1, <2>2
  <1>3. SettledWasAccepted'
    BY DEF AcceptInv, SettledWasAccepted, Accepted
  <1>4. \A c \in callbacks : Accepted(c.reference)'
    BY DEF AcceptInv, Accepted, WorkInv, TypeOK
  <1> QED
    BY <1>2, <1>3, <1>4 DEF AcceptInv

\* Every step keeps what is known of accepted transfers.
LEMMA AcceptStep == WorkInv /\ AcceptInv /\ [Next]_vars => AcceptInv'
  <1> SUFFICES ASSUME WorkInv, AcceptInv, [Next]_vars PROVE AcceptInv'
    OBVIOUS
  <1>t. /\ proc \in [Workers \cup Handlers -> Proc]
        /\ partner \in [Settlements -> {"unknown", "accepted", "rejected"}]
        /\ pstatus \in [Payments -> {"settling", "settled", "failed"}]
    BY DEF WorkInv, TypeOK
  <1>p. \A w \in Workers \cup Handlers :
           proc[w] \in Proc /\ ProcFits(w, proc[w], job) /\ AcceptFits(proc[w])
    BY DEF WorkInv, TypeOK, AcceptInv
  <1>0. ASSUME UNCHANGED <<proc, partner, pstatus, callbacks>> PROVE AcceptInv'
    BY <1>0 DEF AcceptInv, SettledWasAccepted, AcceptFits, Accepted
  <1>1. ASSUME NEW w \in Workers \cup Handlers, NEW r, proc' = [proc EXCEPT ![w] = r],
               r.pc \in {"saveSettlement", "savePayments"} /\ r.target = "completed"
                  => Accepted(r.s),
               UNCHANGED <<partner, pstatus, callbacks>>
        PROVE  AcceptInv'
    BY <1>1, AcceptKept DEF Accepted
  <1>2. ASSUME NEW w \in Workers \cup Handlers, proc' = [proc EXCEPT ![w] = Idle],
               UNCHANGED <<partner, pstatus, callbacks>>
        PROVE  AcceptInv'
    BY <1>1, <1>2 DEF Idle
  <1>3. ASSUME NEW w \in Workers, TakeJob(w) PROVE AcceptInv'
    <2>1. UNCHANGED <<partner, pstatus, callbacks>>
      BY <1>3 DEF TakeJob
    <2>2. \/ proc' = proc
          \/ \E j \in Jobs : proc' = [proc EXCEPT ![w] =
                [Idle EXCEPT !.kind = "job", !.pc = "lock", !.s = job[j].s, !.j = j]]
      BY <1>3 DEF TakeJob
    <2>3. \A j \in Jobs :
             [Idle EXCEPT !.kind = "job", !.pc = "lock", !.s = job[j].s, !.j = j].pc = "lock"
      BY DEF Idle
    <2> QED
      BY <1>0, <1>1, <2>1, <2>2, <2>3
  <1>4. ASSUME NEW w \in Workers, AcquireLock(w) PROVE AcceptInv'
    <2>1. [proc[w] EXCEPT !.pc = "post"].pc = "post"
      BY <1>p DEF Proc
    <2> QED
      BY <1>1, <1>2, <1>4, <2>1 DEF AcquireLock, Go
  <1>5. ASSUME NEW w \in Workers, Unlock(w) \/ ThrowBeforeLock(w) \/ WorkerCrashes(w)
        PROVE  AcceptInv'
    BY <1>2, <1>5 DEF Unlock, ThrowBeforeLock, WorkerCrashes
  <1>6. ASSUME NEW w \in Workers, PostTransfer(w) PROVE AcceptInv'
    <2> PICK accepted \in BOOLEAN, answered \in BOOLEAN :
           /\ answered => accepted
           /\ partner' = IF accepted THEN [partner EXCEPT ![proc[w].s] = "accepted"]
                         ELSE partner
           /\ proc' = [proc EXCEPT ![w] = [proc[w] EXCEPT !.pc = "saveSettlement",
                         !.target = IF answered THEN "completed" ELSE "failed"]]
      BY <1>6 DEF PostTransfer
    <2> DEFINE r == [proc[w] EXCEPT !.pc = "saveSettlement",
                         !.target = IF answered THEN "completed" ELSE "failed"]
    <2>1. r.s = proc[w].s /\ (r.target = "completed" => answered)
      BY <1>p DEF Proc
    <2>2. proc[w].s \in Settlements /\ UNCHANGED <<pstatus, callbacks>>
      BY <1>6, <1>p DEF PostTransfer, ProcFits, Idle
    <2>3. /\ \A s \in Settlements : Accepted(s) => partner'[s] # "unknown"
          /\ accepted => partner'[proc[w].s] # "unknown"
      BY <1>t, <2>2 DEF Accepted
    <2> HIDE DEF r
    <2>4. proc' = [proc EXCEPT ![w] = r]
      BY DEF r
    <2> QED
      BY <2>1, <2>2, <2>3, <2>4, AcceptKept
  <1>7. ASSUME NEW w \in Workers \cup Handlers, SaveSettlement(w) PROVE AcceptInv'
    <2> DEFINE r == [proc[w] EXCEPT !.pc = "savePayments", !.todo = PaymentsOf[proc[w].s]]
    <2>1. /\ proc' = [proc EXCEPT ![w] = r] /\ proc[w].pc = "saveSettlement"
          /\ UNCHANGED <<partner, pstatus, callbacks>>
      BY <1>7 DEF SaveSettlement
    <2>2. r.s = proc[w].s /\ r.target = proc[w].target
      BY <1>p DEF Proc
    <2> HIDE DEF r
    <2> QED
      BY <1>1, <1>p, <2>1, <2>2 DEF AcceptFits
  <1>8. ASSUME NEW w \in Workers \cup Handlers, SavePayment(w) PROVE AcceptInv'
    <2> PICK p \in proc[w].todo :
           /\ pstatus' = [pstatus EXCEPT ![p] = PaymentStatusFor(proc[w].target)]
           /\ proc' = [proc EXCEPT ![w] = [proc[w] EXCEPT !.todo = proc[w].todo \ {p}]]
      BY <1>8 DEF SavePayment
    <2> DEFINE r == [proc[w] EXCEPT !.todo = proc[w].todo \ {p}]
    <2>1. proc[w].pc = "savePayments" /\ UNCHANGED <<partner, callbacks>>
      BY <1>8 DEF SavePayment
    <2>2. /\ proc[w].s \in Settlements /\ p \in PaymentsOf[proc[w].s]
          /\ proc[w].target \in SettlementStatus
      BY <1>p, <2>1 DEF ProcFits, Proc, Idle
    <2>3. PaymentStatusFor(proc[w].target) = "settled" => proc[w].target = "completed"
      BY <2>2 DEF PaymentStatusFor, SettlementStatus
    <2>4. \A s \in Settlements : p \in PaymentsOf[s] => s = proc[w].s
      BY <2>2, ExecutionAssumption DEF ExecutionAssumption
    <2>5. ASSUME NEW s \in Settlements, NEW q \in PaymentsOf[s], pstatus'[q] = "settled"
          PROVE  pstatus[q] = "settled" \/ partner'[s] # "unknown"
      <3>0. q \in Payments
        BY ExecutionAssumption DEF ExecutionAssumption
      <3>1. CASE q = p
        <4>1. proc[w].target = "completed" /\ s = proc[w].s
          BY <1>t, <2>3, <2>4, <2>5, <3>0, <3>1
        <4> QED
          BY <1>p, <2>1, <4>1 DEF AcceptFits, Accepted
      <3>2. CASE q # p
        BY <1>t, <2>5, <3>0, <3>2
      <3> QED
        BY <3>1, <3>2
    <2>6. r.s = proc[w].s /\ r.target = proc[w].target
      BY <1>p DEF Proc
    <2> HIDE DEF r
    <2>7. proc' = [proc EXCEPT ![w] = r]
      BY DEF r
    <2>8. r.target = "completed" => partner'[r.s] # "unknown"
      BY <1>p, <2>1, <2>6 DEF AcceptFits, Accepted
    <2> QED
      BY <2>1, <2>5, <2>7, <2>8, AcceptKept DEF Accepted
  <1>9. ASSUME NEW w \in Workers \cup Handlers, Finish(w) PROVE AcceptInv'
    <2>1. [proc[w] EXCEPT !.pc = "unlock"].pc = "unlock"
      BY <1>p DEF Proc
    <2>2. /\ UNCHANGED <<partner, pstatus, callbacks>>
          /\ \/ proc' = [proc EXCEPT ![w] = [proc[w] EXCEPT !.pc = "unlock"]]
             \/ proc' = [proc EXCEPT ![w] = Idle]
      BY <1>9 DEF Finish, Go
    <2> QED
      BY <1>1, <1>2, <2>1, <2>2
  <1>10. ASSUME NEW w \in Workers \cup Handlers, ThrowInJob(w) PROVE AcceptInv'
    <2> PICK r : /\ proc' = [proc EXCEPT ![w] = r]
                 /\ \/ r = [proc[w] EXCEPT !.pc = "saveSettlement", !.target = "failed",
                                           !.todo = {}]
                    \/ r = [proc[w] EXCEPT !.pc = "unlock", !.ok = FALSE, !.todo = {}]
      BY <1>10 DEF ThrowInJob
    <2>1. r.target = "failed" \/ r.pc = "unlock"
      BY <1>p DEF Proc
    <2> QED
      BY <1>1, <1>10, <2>1 DEF ThrowInJob
  <1>11. ASSUME NEW h \in Handlers, HandleCallback(h) PROVE AcceptInv'
    <2> PICK c \in callbacks :
           proc' = [proc EXCEPT ![h] =
              [Idle EXCEPT !.kind = "callback", !.pc = "saveSettlement", !.s = c.reference,
                           !.target = IF c.status = "success" THEN "completed" ELSE "failed"]]
      BY <1>11 DEF HandleCallback
    <2> DEFINE r == [Idle EXCEPT !.kind = "callback", !.pc = "saveSettlement", !.s = c.reference,
                           !.target = IF c.status = "success" THEN "completed" ELSE "failed"]
    <2>1. r.s = c.reference
      BY DEF Idle
    <2> HIDE DEF r
    <2>2. proc' = [proc EXCEPT ![h] = r]
      BY DEF r
    <2>3. UNCHANGED <<partner, pstatus, callbacks>>
      BY <1>11 DEF HandleCallback
    <2> QED
      BY <1>1, <2>1, <2>2, <2>3 DEF AcceptInv
  <1>12. ASSUME NEW h \in Handlers, NEW s \in Settlements, RetrySettlement(h, s)
         PROVE  AcceptInv'
    <2>1. [Idle EXCEPT !.kind = "retry", !.pc = "saveSettlement", !.s = s,
                       !.target = "processing"].target = "processing"
      BY DEF Idle
    <2> QED
      BY <1>1, <1>12, <2>1 DEF RetrySettlement
  <1>13. ASSUME NEW h \in Handlers, ThrowInCallback(h) \/ ThrowInRetry(h) PROVE AcceptInv'
    BY <1>2, <1>13 DEF ThrowInCallback, ThrowInRetry
  <1>14. ASSUME NEW s \in Settlements, PartnerReports(s) PROVE AcceptInv'
    <2>1. /\ \A x \in Settlements : Accepted(x) => partner'[x] # "unknown"
          /\ partner'[s] # "unknown" /\ UNCHANGED <<proc, pstatus>>
      BY <1>14, <1>t DEF PartnerReports, Accepted
    <2>2. \A c \in callbacks' : c \in callbacks \/ c.reference = s
      BY <1>14 DEF PartnerReports
    <2>3. \A c \in callbacks : c.reference \in Settlements
      BY DEF WorkInv, TypeOK
    <2>4. (\A c \in callbacks : Accepted(c.reference))'
      BY <2>1, <2>2, <2>3 DEF AcceptInv, Accepted
    <2>5. ASSUME NEW w \in Workers \cup Handlers PROVE AcceptFits(proc[w])'
      <3>1. proc[w].pc \in {"saveSettlement", "savePayments"} => proc[w].s \in Settlements
        BY <1>p DEF ProcFits, Idle
      <3> QED
        BY <1>p, <2>1, <3>1 DEF AcceptFits, Accepted
    <2>6. SettledWasAccepted'
      BY <2>1 DEF AcceptInv, SettledWasAccepted, Accepted
    <2> QED
      BY <2>4, <2>5, <2>6 DEF AcceptInv
  <1>15. ASSUME \/ \E m \in Merchants : LockExpires(m)
                \/ \E j \in Jobs : Redeliver(j)
                \/ UNCHANGED vars
         PROVE  AcceptInv'
    BY <1>0, <1>15 DEF LockExpires, Redeliver, vars
  <1> QED
    BY <1>3, <1>4, <1>5, <1>6, <1>7, <1>8, <1>9, <1>10, <1>11, <1>12, <1>13, <1>14, <1>15
       DEF Next, WorkerStep, HandlerStep

\* A payment is settled only if the partner accepted the transfer of its
\* settlement, for any number of workers, retries, callbacks and redeliveries,
\* and whether or not the lock outlives the execution.
THEOREM SettlesAccepted == Spec => []SettledWasAccepted
  <1>1. Init => AcceptInv
    <2> SUFFICES ASSUME Init PROVE AcceptInv
      OBVIOUS
    <2>1. \A s \in Settlements : \A p \in PaymentsOf[s] : pstatus[p] = "settling"
      BY ExecutionAssumption DEF Init, ExecutionAssumption
    <2> QED
      BY <2>1 DEF Init, AcceptInv, SettledWasAccepted, AcceptFits, Idle
  <1>2. AcceptInv => SettledWasAccepted
    BY DEF AcceptInv
  <1> QED
    BY <1>1, <1>2, WorkInitially, WorkStep, AcceptStep, PTL DEF Spec

--------------------------------------------------------------------------------
(* Settlements on their way                                                *)

\* The run of a job has written the status, and will end the job.
Wrote(r) == r.pc = "savePayments" \/ (r.pc = "unlock" /\ r.ok)

\* A job will write the settlement s: it waits, keeps its last failure, or runs
\* and has not written yet.
WillWrite(j, s) ==
    /\ job[j].s = s
    /\ \/ job[j].state \in {"waiting", "failed"}
       \/ /\ job[j].state = "active"
          /\ \A w \in Workers : proc[w].kind = "job" /\ proc[w].j = j => ~Wrote(proc[w])

OnItsWay(s) ==
    \/ \E h \in Handlers : proc[h].kind = "retry" /\ proc[h].s = s
    \/ \E j \in Jobs : WillWrite(j, s)
    \/ s \in aborted

WayInv == \A s \in Settlements : status[s] = "processing" => OnItsWay(s)

\* One process moves to r, the queue stays, and no settlement is set back to
\* processing but by the retry that moves.
LEMMA WayMoves ==
  ASSUME WorkInv, WayInv, NEW w \in Workers \cup Handlers, NEW r,
         proc' = [proc EXCEPT ![w] = r], job' = job, aborted' = aborted,
         proc[w].kind = "retry" => r.kind = "retry" /\ r.s = proc[w].s,
         \A s \in Settlements : status'[s] = "processing" =>
            status[s] = "processing" \/ (w \in Handlers /\ r.kind = "retry" /\ r.s = s),
         w \in Workers /\ r.kind = "job" /\ Wrote(r) =>
            \/ proc[w].kind = "job" /\ proc[w].j = r.j /\ Wrote(proc[w])
            \/ status'[job[r.j].s] # "processing"
  PROVE  WayInv'
  <1>1. \A v \in Workers \cup Handlers : proc'[v] = IF v = w THEN r ELSE proc[v]
    BY DEF WorkInv, TypeOK
  <1>2. ASSUME NEW s \in Settlements, status'[s] = "processing" PROVE OnItsWay(s)'
    <2>1. CASE w \in Handlers /\ r.kind = "retry" /\ r.s = s
      BY <1>1, <2>1 DEF OnItsWay
    <2>2. CASE OnItsWay(s)
      <3>1. CASE \E h \in Handlers : proc[h].kind = "retry" /\ proc[h].s = s
        BY <1>1, <3>1 DEF OnItsWay
      <3>2. ASSUME NEW j \in Jobs, WillWrite(j, s) PROVE WillWrite(j, s)'
        <4>1. CASE job[j].state \in {"waiting", "failed"}
          BY <3>2, <4>1 DEF WillWrite
        <4>2. CASE job[j].state = "active" /\ job[j].state \notin {"waiting", "failed"}
          <5>1. ASSUME NEW v \in Workers, proc'[v].kind = "job", proc'[v].j = j
                PROVE  ~Wrote(proc'[v])
            <6>1. CASE v = w
              BY <1>1, <1>2, <3>2, <4>2, <5>1, <6>1 DEF WillWrite
            <6>2. CASE v # w
              BY <1>1, <3>2, <4>2, <5>1, <6>2 DEF WillWrite
            <6> QED
              BY <6>1, <6>2
          <5> QED
            BY <3>2, <4>2, <5>1 DEF WillWrite, Wrote
        <4> QED
          BY <3>2, <4>1, <4>2 DEF WillWrite
      <3> QED
        BY <2>2, <3>1, <3>2 DEF OnItsWay
    <2> QED
      BY <1>2, <2>1, <2>2 DEF WayInv
  <1> QED
    BY <1>2 DEF WayInv

\* A worker stops; if it frees its slot, it had written.
LEMMA WayStops ==
  ASSUME WorkInv, WayInv, NEW w \in Workers, proc[w].kind = "job",
         NEW x, job' = [job EXCEPT ![proc[w].j] = x], proc' = [proc EXCEPT ![w] = Idle],
         (x.s = proc[w].s /\ x.state \in {"waiting", "failed"}) \/ Wrote(proc[w]),
         UNCHANGED <<status, aborted>>
  PROVE  WayInv'
  <1>1. /\ \A v \in Workers \cup Handlers : proc'[v] = IF v = w THEN Idle ELSE proc[v]
        /\ \A i \in Jobs : job'[i] = IF i = proc[w].j THEN x ELSE job[i]
        /\ proc[w].j \in Jobs /\ job[proc[w].j].s = proc[w].s
        /\ job[proc[w].j].state = "active" /\ w \notin Handlers
    BY ExecutionAssumption DEF WorkInv, TypeOK, ProcFits, ExecutionAssumption
  <1>2. ASSUME NEW s \in Settlements, status'[s] = "processing" PROVE OnItsWay(s)'
    <2>0. OnItsWay(s) /\ aborted' = aborted
      BY <1>2 DEF WayInv
    <2>1. CASE \E h \in Handlers : proc[h].kind = "retry" /\ proc[h].s = s
      BY <1>1, <2>1 DEF OnItsWay
    <2>2. ASSUME NEW j \in Jobs, WillWrite(j, s) PROVE WillWrite(j, s)'
      <3>1. CASE j = proc[w].j
        <4>1. ~Wrote(proc[w])
          BY <1>1, <2>2, <3>1 DEF WillWrite
        <4> QED
          BY <1>1, <2>2, <3>1, <4>1 DEF WillWrite
      <3>2. CASE j # proc[w].j
        BY <1>1, <2>2, <3>2 DEF WillWrite, Wrote, Idle
      <3> QED
        BY <3>1, <3>2
    <2> QED
      BY <2>0, <2>1, <2>2 DEF OnItsWay
  <1> QED
    BY <1>2 DEF WayInv

\* Every step keeps the jobs on their way.
LEMMA WayStep ==
  ASSUME \A s \in Settlements : PaymentsOf[s] # {}
  PROVE  WorkInv /\ WayInv /\ [Next]_vars => WayInv'
  <1> SUFFICES ASSUME WorkInv, WayInv, [Next]_vars PROVE WayInv'
    OBVIOUS
  <1> USE ExecutionAssumption DEF ExecutionAssumption
  <1>t. /\ proc \in [Workers \cup Handlers -> Proc] /\ job \in [Jobs -> Job]
        /\ status \in [Settlements -> SettlementStatus]
        /\ \A w \in Workers \cup Handlers : proc[w] \in Proc /\ ProcFits(w, proc[w], job)
        /\ \A j \in Jobs : JobFits(job[j])
    BY DEF WorkInv, TypeOK
  <1>i. Idle.kind = "idle"
    BY DEF Idle
  <1>k. \A w \in Workers : /\ proc[w].kind # "retry"
                           /\ proc[w].pc \in {"lock", "post", "unlock"} => proc[w].kind = "job"
    BY <1>t DEF ProcFits, Proc, Idle
  <1>0. ASSUME UNCHANGED <<proc, job, status, aborted>> PROVE WayInv'
    BY <1>0 DEF WayInv, OnItsWay, WillWrite, Wrote
  <1>1. ASSUME NEW w \in Workers \cup Handlers, NEW r, proc' = [proc EXCEPT ![w] = r],
               proc[w].kind # "retry", r.kind = "job" => ~Wrote(r),
               UNCHANGED <<job, status, aborted>>
        PROVE  WayInv'
    BY <1>1, WayMoves
  <1>2. ASSUME NEW w \in Workers, proc[w].kind = "job", FailAttempt(proc[w].j),
               proc' = [proc EXCEPT ![w] = Idle], UNCHANGED <<status, aborted>>
        PROVE  WayInv'
    BY <1>2, AttemptFails, WayStops
  <1>3. ASSUME NEW w \in Workers, TakeJob(w) PROVE WayInv'
    <2> PICK j \in Jobs :
           /\ job[j].state = "waiting"
           /\ IF PaymentsOf[job[j].s] = {}
              THEN /\ job' = [job EXCEPT ![j] = FreeJob]
                   /\ UNCHANGED proc
              ELSE /\ job' = [job EXCEPT ![j].state = "active"]
                   /\ proc' = [proc EXCEPT ![w] =
                         [Idle EXCEPT !.kind = "job", !.pc = "lock", !.s = job[j].s, !.j = j]]
      BY <1>3 DEF TakeJob
    <2> DEFINE r == [Idle EXCEPT !.kind = "job", !.pc = "lock", !.s = job[j].s, !.j = j]
    <2>1. job[j].s \in Settlements /\ UNCHANGED <<status, aborted>>
      BY <1>3, <1>t DEF TakeJob, JobFits
    <2>2. /\ \A i \in Jobs : i # j => job'[i] = job[i]
          /\ job'[j].s = job[j].s /\ job'[j].state = "active"
      BY <1>t, <2>1 DEF Job
    <2>3. \A v \in Workers : proc[v].kind = "job" => proc[v].j # j
      BY <1>t DEF ProcFits
    <2>4. proc' = [proc EXCEPT ![w] = r] /\ r.pc = "lock" /\ r.kind = "job" /\ r.j = j
      BY <2>1 DEF Idle
    <2> HIDE DEF r
    <2>5. \A v \in Workers \cup Handlers : proc'[v] = IF v = w THEN r ELSE proc[v]
      BY <1>t, <2>4
    <2>6. ASSUME NEW s \in Settlements, status'[s] = "processing" PROVE OnItsWay(s)'
      <3>0. OnItsWay(s)
        BY <2>1, <2>6 DEF WayInv
      <3>1. CASE \E h \in Handlers : proc[h].kind = "retry" /\ proc[h].s = s
        BY <2>5, <3>1 DEF OnItsWay
      <3>2. ASSUME NEW i \in Jobs, WillWrite(i, s) PROVE WillWrite(i, s)'
        <4>1. CASE i = j
          <5>1. \A v \in Workers : proc'[v].kind = "job" /\ proc'[v].j = j => ~Wrote(proc'[v])
            BY <2>3, <2>4, <2>5 DEF Wrote
          <5> QED
            BY <2>2, <3>2, <4>1, <5>1 DEF WillWrite, Wrote
        <4>2. CASE i # j
          <5>1. \A v \in Workers : proc'[v].kind = "job" /\ proc'[v].j = i => proc'[v] = proc[v]
            BY <2>4, <2>5, <4>2
          <5> QED
            BY <2>2, <3>2, <4>2, <5>1 DEF WillWrite, Wrote
        <4> QED
          BY <4>1, <4>2
      <3> QED
        BY <2>1, <3>0, <3>1, <3>2 DEF OnItsWay
    <2> QED
      BY <2>6 DEF WayInv
  <1>4. ASSUME NEW w \in Workers, AcquireLock(w) PROVE WayInv'
    <2>1. CASE Go(w, "post") /\ job' = job
      <3>1. proc' = [proc EXCEPT ![w] = [proc[w] EXCEPT !.pc = "post"]]
        BY <2>1 DEF Go
      <3>2. ~Wrote([proc[w] EXCEPT !.pc = "post"])
        BY <1>t DEF Wrote, Proc
      <3> QED
        BY <1>1, <1>4, <1>k, <2>1, <3>1, <3>2 DEF AcquireLock
    <2>2. CASE FailAttempt(proc[w].j) /\ proc' = [proc EXCEPT ![w] = Idle]
      BY <1>2, <1>4, <1>k, <2>2 DEF AcquireLock
    <2> QED
      BY <1>4, <2>1, <2>2 DEF AcquireLock
  <1>5. ASSUME NEW w \in Workers, Unlock(w) PROVE WayInv'
    <2>1. CASE FailAttempt(proc[w].j)
      BY <1>2, <1>5, <1>k, <2>1 DEF Unlock
    <2>2. CASE proc[w].ok /\ job' = [job EXCEPT ![proc[w].j] = FreeJob]
      BY <1>5, <1>k, <2>2, WayStops DEF Unlock, Wrote
    <2> QED
      BY <1>5, <2>1, <2>2 DEF Unlock
  <1>6. ASSUME NEW w \in Workers, ThrowBeforeLock(w) PROVE WayInv'
    BY <1>2, <1>6, <1>k DEF ThrowBeforeLock
  <1>7. ASSUME NEW w \in Workers, WorkerCrashes(w) PROVE WayInv'
    BY <1>1, <1>7, <1>i, <1>k DEF WorkerCrashes
  <1>8. ASSUME NEW w \in Workers, PostTransfer(w) PROVE WayInv'
    <2> PICK target : proc' = [proc EXCEPT ![w].pc = "saveSettlement", ![w].target = target]
      BY ONLY <1>8, Zenon DEF PostTransfer
    <2> DEFINE r == [proc[w] EXCEPT !.pc = "saveSettlement", !.target = target]
    <2>1. proc[w] \in Proc
      BY <1>t
    <2>2. r.pc = "saveSettlement"
      BY <2>1 DEF Proc
    <2> HIDE DEF r
    <2>3. proc' = [proc EXCEPT ![w] = r] /\ ~Wrote(r)
      BY <2>2 DEF r, Wrote
    <2> QED
      BY <1>1, <1>8, <1>k, <2>3 DEF PostTransfer
  <1>9. ASSUME NEW w \in Workers \cup Handlers, SaveSettlement(w) PROVE WayInv'
    <2> PICK r : r = [proc[w] EXCEPT !.pc = "savePayments", !.todo = PaymentsOf[proc[w].s]]
      OBVIOUS
    <2>1. /\ proc' = [proc EXCEPT ![w] = r] /\ proc[w].pc = "saveSettlement"
          /\ status' = [status EXCEPT ![proc[w].s] = proc[w].target]
          /\ UNCHANGED <<job, aborted>>
      BY <1>9 DEF SaveSettlement
    <2>2. r.kind = proc[w].kind /\ r.s = proc[w].s /\ r.j = proc[w].j
      BY <1>t DEF Proc
    <2>3. proc[w].s \in Settlements /\ (proc[w].target = "processing" => proc[w].kind = "retry")
      BY <1>t, <2>1 DEF ProcFits, Proc, Idle
    <2>4. \A s \in Settlements : status'[s] = IF s = proc[w].s THEN proc[w].target ELSE status[s]
      BY <1>t, <2>1
    <2>5. proc[w].kind = "retry" => w \in Handlers
      BY <1>t DEF ProcFits
    <2>6. proc[w].kind = "job" => job[proc[w].j].s = proc[w].s /\ proc[w].target # "processing"
      BY <1>t DEF ProcFits
    <2>7. \A s \in Settlements : status'[s] = "processing" =>
             status[s] = "processing" \/ (w \in Handlers /\ r.kind = "retry" /\ r.s = s)
      BY <2>2, <2>3, <2>4, <2>5
    <2>8. w \in Workers /\ r.kind = "job" /\ Wrote(r) => status'[job[r.j].s] # "processing"
      BY <2>2, <2>3, <2>4, <2>6
    <2>9. /\ proc[w].kind = "retry" => r.kind = "retry" /\ r.s = proc[w].s
          /\ w \in Workers /\ r.kind = "job" /\ Wrote(r) =>
                \/ proc[w].kind = "job" /\ proc[w].j = r.j /\ Wrote(proc[w])
                \/ status'[job[r.j].s] # "processing"
      BY <2>2, <2>8
    <2> QED
      <3>1. proc' = [proc EXCEPT ![w] = r] /\ job' = job /\ aborted' = aborted
        BY <2>1
      <3> QED
        BY <2>7, <2>9, <3>1, WayMoves, ZenonT(30)
  <1>10. ASSUME NEW w \in Workers \cup Handlers, SavePayment(w) PROVE WayInv'
    <2> PICK p : proc' = [proc EXCEPT ![w] = [proc[w] EXCEPT !.todo = proc[w].todo \ {p}]]
      BY <1>10 DEF SavePayment
    <2> DEFINE r == [proc[w] EXCEPT !.todo = proc[w].todo \ {p}]
    <2>1. /\ r.kind = proc[w].kind /\ r.s = proc[w].s /\ r.j = proc[w].j
          /\ r.pc = proc[w].pc /\ r.ok = proc[w].ok
      BY <1>t DEF Proc
    <2>2. proc' = [proc EXCEPT ![w] = r]
      OBVIOUS
    <2> HIDE DEF r
    <2>3. Wrote(r) => Wrote(proc[w])
      BY <2>1 DEF Wrote
    <2>4. UNCHANGED <<job, aborted, status>>
      BY <1>10 DEF SavePayment
    <2>5. /\ proc[w].kind = "retry" => r.kind = "retry" /\ r.s = proc[w].s
          /\ w \in Workers /\ r.kind = "job" /\ Wrote(r) =>
                proc[w].kind = "job" /\ proc[w].j = r.j /\ Wrote(proc[w])
      BY <2>1, <2>3
    <2> QED
      BY <2>2, <2>4, <2>5, WayMoves
  <1>11. ASSUME NEW w \in Workers \cup Handlers, Finish(w) PROVE WayInv'
    <2>0. UNCHANGED <<status, aborted>> /\ proc[w].pc = "savePayments"
      BY <1>11 DEF Finish
    <2>1. CASE proc[w].kind = "job" /\ Go(w, "unlock") /\ job' = job
      <3> DEFINE r == [proc[w] EXCEPT !.pc = "unlock"]
      <3>1. r.kind = proc[w].kind /\ r.s = proc[w].s /\ r.j = proc[w].j
        BY <1>t DEF Proc
      <3>2. proc' = [proc EXCEPT ![w] = r] /\ Wrote(proc[w])
        BY <2>0, <2>1 DEF Go, Wrote
      <3> HIDE DEF r
      <3> QED
        BY <2>0, <2>1, <3>1, <3>2, WayMoves
    <2>2. CASE proc[w].kind = "callback" /\ proc' = [proc EXCEPT ![w] = Idle] /\ job' = job
      BY <1>1, <1>i, <2>0, <2>2
    <2>3. CASE /\ proc[w].kind = "retry" /\ proc' = [proc EXCEPT ![w] = Idle]
               /\ \E j \in Jobs :
                     /\ job[j].state = "free"
                     /\ job' = [job EXCEPT ![j] =
                                   [state |-> "waiting", s |-> proc[w].s, tries |-> 0]]
      <3> PICK j \in Jobs :
             /\ job[j].state = "free"
             /\ job' = [job EXCEPT ![j] = [state |-> "waiting", s |-> proc[w].s, tries |-> 0]]
        BY <2>3
      <3>1. \A v \in Workers \cup Handlers : proc'[v] = IF v = w THEN Idle ELSE proc[v]
        BY <1>t, <2>3
      <3>2. /\ \A i \in Jobs : i # j => job'[i] = job[i]
            /\ job'[j].state = "waiting" /\ job'[j].s = proc[w].s
        BY <1>t
      <3>3. ASSUME NEW s \in Settlements, status'[s] = "processing" PROVE OnItsWay(s)'
        <4>0. OnItsWay(s)
          BY <2>0, <3>3 DEF WayInv
        <4>1. CASE \E h \in Handlers : proc[h].kind = "retry" /\ proc[h].s = s
          <5> PICK h \in Handlers : proc[h].kind = "retry" /\ proc[h].s = s
            BY <4>1
          <5>1. CASE h = w
            <6>1. WillWrite(j, s)'
              BY <3>2, <5>1 DEF WillWrite
            <6> QED
              BY <6>1 DEF OnItsWay
          <5>2. CASE h # w
            BY <3>1, <5>2 DEF OnItsWay
          <5> QED
            BY <5>1, <5>2
        <4>2. ASSUME NEW i \in Jobs, WillWrite(i, s) PROVE WillWrite(i, s)'
          <5>1. i # j
            BY <4>2 DEF WillWrite
          <5>2. \A v \in Workers : proc'[v].kind = "job" => proc'[v] = proc[v]
            BY <1>i, <3>1
          <5> QED
            BY <3>2, <4>2, <5>1, <5>2 DEF WillWrite, Wrote
        <4> QED
          BY <2>0, <4>0, <4>1, <4>2 DEF OnItsWay
      <3> QED
        BY <3>3 DEF WayInv
    <2>4. proc[w].kind = "retry" => PaymentsOf[proc[w].s] # {}
      BY <1>t DEF ProcFits
    <2> QED
      BY <1>11, <2>1, <2>2, <2>3, <2>4 DEF Finish
  <1>12. ASSUME NEW w \in Workers, ThrowInJob(w) PROVE WayInv'
    <2> PICK r : /\ proc' = [proc EXCEPT ![w] = r]
                 /\ \/ r = [proc[w] EXCEPT !.pc = "saveSettlement", !.target = "failed",
                                           !.todo = {}]
                    \/ r = [proc[w] EXCEPT !.pc = "unlock", !.ok = FALSE, !.todo = {}]
      BY <1>12 DEF ThrowInJob
    <2>0. proc[w] \in Proc
      BY <1>t
    <2>a. r.pc = "saveSettlement" \/ (r.pc = "unlock" /\ r.ok = FALSE)
      BY <2>0 DEF Proc
    <2>1. ~Wrote(r)
      BY <2>a DEF Wrote
    <2> QED
      BY <1>1, <1>12, <1>k, <2>1 DEF ThrowInJob
  <1>13. ASSUME NEW h \in Handlers,
                HandleCallback(h) \/ \E s \in Settlements : RetrySettlement(h, s)
         PROVE  WayInv'
    <2>1. ASSUME NEW r, proc' = [proc EXCEPT ![h] = r], r.pc = "saveSettlement" PROVE WayInv'
      <3>1. ~Wrote(r)
        BY <2>1 DEF Wrote
      <3>2. proc[h].kind # "retry" /\ UNCHANGED <<job, status, aborted>>
        BY <1>13, <1>i DEF HandleCallback, RetrySettlement
      <3> QED
        BY <1>1, <2>1, <3>1, <3>2
    <2>2. CASE HandleCallback(h)
      <3> PICK c \in callbacks :
             proc' = [proc EXCEPT ![h] =
               [Idle EXCEPT !.kind = "callback", !.pc = "saveSettlement", !.s = c.reference,
                            !.target = IF c.status = "success" THEN "completed" ELSE "failed"]]
        BY <2>2 DEF HandleCallback
      <3> DEFINE r == [Idle EXCEPT !.kind = "callback", !.pc = "saveSettlement",
                            !.s = c.reference,
                            !.target = IF c.status = "success" THEN "completed" ELSE "failed"]
      <3>1. r.pc = "saveSettlement" /\ proc' = [proc EXCEPT ![h] = r]
        BY DEF Idle
      <3> HIDE DEF r
      <3> QED
        BY <2>1, <3>1
    <2>3. ASSUME NEW s \in Settlements, RetrySettlement(h, s) PROVE WayInv'
      <3>1. [Idle EXCEPT !.kind = "retry", !.pc = "saveSettlement", !.s = s,
                         !.target = "processing"].pc = "saveSettlement"
        BY DEF Idle
      <3> QED
        BY <2>1, <2>3, <3>1 DEF RetrySettlement
    <2> QED
      BY <1>13, <2>2, <2>3
  <1>14. ASSUME NEW h \in Handlers, ThrowInCallback(h) PROVE WayInv'
    BY <1>1, <1>14, <1>i DEF ThrowInCallback
  <1>15. ASSUME NEW h \in Handlers, ThrowInRetry(h) PROVE WayInv'
    <2>1. /\ \A v \in Workers \cup Handlers : v # h => proc'[v] = proc[v]
          /\ aborted' = aborted \cup {proc[h].s} /\ UNCHANGED <<job, status>>
          /\ h \notin Workers
      BY <1>15, <1>t DEF ThrowInRetry
    <2>2. ASSUME NEW s \in Settlements, OnItsWay(s) PROVE OnItsWay(s)'
      <3>1. CASE \E g \in Handlers : proc[g].kind = "retry" /\ proc[g].s = s
        BY <2>1, <3>1 DEF OnItsWay
      <3>2. CASE \E j \in Jobs : WillWrite(j, s)
        <4>1. \A v \in Workers : proc'[v] = proc[v]
          BY <2>1
        <4> QED
          BY <2>1, <3>2, <4>1 DEF OnItsWay, WillWrite, Wrote
      <3> QED
        BY <2>1, <2>2, <3>1, <3>2 DEF OnItsWay
    <2> QED
      BY <2>1, <2>2 DEF WayInv
  <1>16. ASSUME NEW j \in Jobs, Redeliver(j) PROVE WayInv'
    <2>1. /\ \A i \in Jobs : i # j => job'[i] = job[i]
          /\ job'[j].state = "waiting" /\ job'[j].s = job[j].s
          /\ UNCHANGED <<proc, status, aborted>>
      BY <1>16, <1>t DEF Redeliver, Job
    <2>2. ASSUME NEW s \in Settlements, NEW i \in Jobs, WillWrite(i, s) PROVE WillWrite(i, s)'
      <3>1. CASE i = j
        BY <2>1, <2>2, <3>1 DEF WillWrite
      <3>2. CASE i # j
        BY <2>1, <2>2, <3>2 DEF WillWrite, Wrote
      <3> QED
        BY <3>1, <3>2
    <2> QED
      BY <2>1, <2>2 DEF WayInv, OnItsWay
  <1>17. ASSUME \/ \E s \in Settlements : PartnerReports(s)
                \/ \E m \in Merchants : LockExpires(m)
                \/ UNCHANGED vars
         PROVE  WayInv'
    BY <1>0, <1>17 DEF PartnerReports, LockExpires, vars
  <1> QED
    BY <1>3, <1>4, <1>5, <1>6, <1>7, <1>8, <1>9, <1>10, <1>11, <1>12, <1>13, <1>14, <1>15,
       <1>16, <1>17
       DEF Next, WorkerStep, HandlerStep

\* A settlement in processing is never abandoned but where a retry was cut short:
\* a job will write it, or keeps it as failed, or a retry is under way.
THEOREM NobodyStranded ==
  ASSUME \A s \in Settlements : PaymentsOf[s] # {}
  PROVE  Spec => []NoStranded
  <1>1. Init => WayInv
    <2> SUFFICES ASSUME Init, NEW s \in Settlements PROVE OnItsWay(s)
      BY DEF WayInv
    <2> PICK f \in [Settlements -> Jobs] :
          /\ \A x, y \in Settlements : f[x] = f[y] => x = y
          /\ job = [j \in Jobs |-> IF \E x \in Settlements : f[x] = j
                                   THEN [state |-> "waiting", tries |-> 0,
                                         s |-> CHOOSE x \in Settlements : f[x] = j]
                                   ELSE FreeJob]
      BY DEF Init
    <2>1. (CHOOSE x \in Settlements : f[x] = f[s]) = s
      OBVIOUS
    <2>2. f[s] \in Jobs /\ job[f[s]] = [state |-> "waiting", tries |-> 0, s |-> s]
      BY <2>1
    <2>3. WillWrite(f[s], s)
      BY <2>2 DEF WillWrite
    <2> QED
      BY <2>2, <2>3 DEF OnItsWay
  <1>2. WayInv => NoStranded
    BY DEF WayInv, OnItsWay, WillWrite, NoStranded, AtWork, HasJob
  <1> QED
    BY <1>1, <1>2, WorkInitially, WorkStep, WayStep, PTL DEF Spec

--------------------------------------------------------------------------------
(* Settlements that only the queue writes                                  *)

Agree(s) == \A p \in PaymentsOf[s] : pstatus[p] = PaymentStatusFor(status[s])

\* The payments saved so far say what the settlement says, and all of them do
\* when the run is about to end the job.
RowsFit(r) ==
    /\ r.pc = "savePayments" =>
          /\ status[r.s] = r.target
          /\ \A p \in PaymentsOf[r.s] \ r.todo : pstatus[p] = PaymentStatusFor(r.target)
    /\ r.pc = "unlock" /\ r.ok => Agree(r.s)

\* A settlement has one job at most.
OneJobEach ==
    \A i, j \in Jobs :
        job[i].state # "free" /\ job[j].state # "free" /\ job[i].s = job[j].s => i = j

NoJobFor(s) == \A j \in Jobs : job[j].s = s => job[j].state = "free"

RowsInv ==
    /\ OneJobEach
    /\ \A w \in Workers : proc[w].kind = "job" => RowsFit(proc[w])
    /\ \A s \in Settlements : NoJobFor(s) => Agree(s)

\* Two workers write two settlements, and so different payments.
LEMMA WorkersApart ==
  ASSUME WorkInv, RowsInv, NEW v \in Workers, NEW w \in Workers, v # w,
         proc[v].kind = "job", proc[w].kind = "job"
  PROVE  /\ proc[v].s # proc[w].s /\ proc[v].s \in Settlements /\ proc[w].s \in Settlements
         /\ PaymentsOf[proc[v].s] \cap PaymentsOf[proc[w].s] = {}
  <1>1. ProcFits(v, proc[v], job) /\ ProcFits(w, proc[w], job)
    BY DEF WorkInv
  <1>2. /\ proc[v].j \in Jobs /\ job[proc[v].j].state = "active" /\ job[proc[v].j].s = proc[v].s
        /\ proc[w].j \in Jobs /\ job[proc[w].j].state = "active" /\ job[proc[w].j].s = proc[w].s
        /\ proc[v].s \in Settlements /\ proc[w].s \in Settlements
    BY <1>1 DEF ProcFits
  <1>3. proc[v].j # proc[w].j
    BY DEF WorkInv, OneWorkerEach
  <1>4. proc[v].s # proc[w].s
    BY <1>2, <1>3 DEF RowsInv, OneJobEach
  <1> QED
    BY <1>2, <1>4, ExecutionAssumption DEF ExecutionAssumption

\* No row and no job comes or goes; w moves to a place that fits.
LEMMA RowsStay ==
  ASSUME WorkInv, RowsInv, UNCHANGED <<status, pstatus>>,
         \A j \in Jobs : /\ job'[j].s = job[j].s
                         /\ (job'[j].state = "free") <=> (job[j].state = "free"),
         \A v \in Workers : proc'[v].kind = "job" => proc'[v] = proc[v] \/ RowsFit(proc'[v])
  PROVE  RowsInv'
  <1>1. \A s : Agree(s)' <=> Agree(s)
    BY DEF Agree
  <1>2. \A r : RowsFit(r) => /\ r.pc = "savePayments" =>
                                 /\ status'[r.s] = r.target
                                 /\ \A p \in PaymentsOf[r.s] \ r.todo :
                                        pstatus'[p] = PaymentStatusFor(r.target)
                             /\ r.pc = "unlock" /\ r.ok => Agree(r.s)
    BY DEF RowsFit
  <1>3. \A w \in Workers : proc'[w].kind = "job" => RowsFit(proc[w])'
    BY <1>1, <1>2 DEF RowsInv, RowsFit, Agree
  <1>4. \A s \in Settlements : NoJobFor(s)' => NoJobFor(s)
    BY DEF NoJobFor
  <1>5. OneJobEach'
    BY DEF RowsInv, OneJobEach
  <1> QED
    BY <1>1, <1>3, <1>4, <1>5 DEF RowsInv

\* A job goes whose settlement agrees with its payments.
LEMMA RowsFreed ==
  ASSUME WorkInv, RowsInv, UNCHANGED <<status, pstatus>>, NEW j \in Jobs,
         job' = [job EXCEPT ![j] = FreeJob], Agree(job[j].s),
         \A v \in Workers : proc'[v].kind = "job" => proc'[v] = proc[v]
  PROVE  RowsInv'
  <1>1. \A i \in Jobs : job'[i] = IF i = j THEN FreeJob ELSE job[i]
    BY DEF WorkInv, TypeOK
  <1>2. FreeJob.state = "free"
    BY DEF FreeJob
  <1>3. \A s : Agree(s)' <=> Agree(s)
    BY DEF Agree
  <1>4. OneJobEach'
    BY <1>1, <1>2 DEF RowsInv, OneJobEach
  <1>5. \A s \in Settlements : NoJobFor(s)' => NoJobFor(s) \/ s = job[j].s
    BY <1>1, <1>2 DEF NoJobFor
  <1>6. \A s \in Settlements : (NoJobFor(s) => Agree(s))'
    BY <1>3, <1>5 DEF RowsInv
  <1>7. \A w \in Workers : proc'[w].kind = "job" => RowsFit(proc[w])'
    BY <1>3 DEF RowsInv, RowsFit, Agree
  <1> QED
    BY <1>4, <1>6, <1>7 DEF RowsInv

\* The writes of one worker leave what the others write.
LEMMA RowsWritten ==
  ASSUME WorkInv, RowsInv, NEW w \in Workers, proc[w].kind = "job", job' = job,
         \A v \in Workers : v # w => proc'[v] = proc[v], RowsFit(proc[w])',
         \A s \in Settlements : s # proc[w].s => status'[s] = status[s],
         \A p \in Payments : p \notin PaymentsOf[proc[w].s] => pstatus'[p] = pstatus[p]
  PROVE  RowsInv'
  <1> USE ExecutionAssumption DEF ExecutionAssumption
  <1>0. proc[w].s \in Settlements /\ ~NoJobFor(proc[w].s)
    BY DEF WorkInv, ProcFits, NoJobFor
  <1>1. \A s \in Settlements : s # proc[w].s => (Agree(s)' <=> Agree(s))
    BY <1>0 DEF Agree
  <1>2. ASSUME NEW v \in Workers, v # w, proc[v].kind = "job" PROVE RowsFit(proc[v])'
    <2>1. /\ proc[v].s # proc[w].s /\ proc[v].s \in Settlements
          /\ PaymentsOf[proc[v].s] \cap PaymentsOf[proc[w].s] = {}
      BY <1>2, WorkersApart
    <2>2. /\ status'[proc[v].s] = status[proc[v].s]
          /\ \A p \in PaymentsOf[proc[v].s] : pstatus'[p] = pstatus[p]
      BY <2>1
    <2>3. RowsFit(proc[v]) /\ proc'[v] = proc[v]
      BY <1>2 DEF RowsInv
    <2> QED
      BY <2>2, <2>3 DEF RowsFit, Agree
  <1>3. \A s \in Settlements : (NoJobFor(s) => Agree(s))'
    BY <1>0, <1>1 DEF RowsInv, NoJobFor
  <1>4. OneJobEach'
    BY DEF RowsInv, OneJobEach
  <1>5. \A v \in Workers : proc'[v].kind = "job" => RowsFit(proc[v])'
    BY <1>2
  <1> QED
    BY <1>3, <1>4, <1>5 DEF RowsInv

\* Every step keeps the rows and the jobs together.
LEMMA RowsStep ==
  ASSUME Handlers = {}
  PROVE  WorkInv /\ RowsInv /\ [Next]_vars => RowsInv'
  <1> SUFFICES ASSUME WorkInv, RowsInv, [Next]_vars PROVE RowsInv'
    OBVIOUS
  <1> USE ExecutionAssumption DEF ExecutionAssumption
  <1>t. /\ proc \in [Workers \cup Handlers -> Proc] /\ job \in [Jobs -> Job]
        /\ status \in [Settlements -> SettlementStatus]
        /\ pstatus \in [Payments -> {"settling", "settled", "failed"}]
        /\ \A w \in Workers : proc[w] \in Proc /\ ProcFits(w, proc[w], job)
        /\ \A j \in Jobs : job[j] \in Job /\ JobFits(job[j])
    BY DEF WorkInv, TypeOK
  <1>i. Idle.kind = "idle"
    BY DEF Idle
  <1>k. \A w \in Workers : /\ proc[w].kind # "retry" /\ proc[w].kind # "callback"
                           /\ proc[w].pc # "idle" => proc[w].kind = "job"
    BY <1>t DEF ProcFits, Proc, Idle
  <1>0. ASSUME UNCHANGED <<proc, job, status, pstatus>> PROVE RowsInv'
    BY <1>0 DEF RowsInv, RowsFit, Agree, OneJobEach, NoJobFor
  <1>1. ASSUME NEW w \in Workers, NEW r, proc' = [proc EXCEPT ![w] = r],
               r.kind = "job" => RowsFit(r), UNCHANGED <<job, status, pstatus>>
        PROVE  RowsInv'
    <2>1. \A v \in Workers : proc'[v] = IF v = w THEN r ELSE proc[v]
      BY <1>t, <1>1
    <2> QED
      BY <1>1, <2>1, RowsStay
  <1>2. ASSUME NEW w \in Workers, proc[w].kind = "job", FailAttempt(proc[w].j),
               proc' = [proc EXCEPT ![w] = Idle], UNCHANGED <<status, pstatus>>
        PROVE  RowsInv'
    <2> PICK x \in Job : /\ x.state \in {"waiting", "failed"} /\ x.s = proc[w].s
                         /\ job' = [job EXCEPT ![proc[w].j] = x]
      BY <1>2, AttemptFails
    <2>1. /\ proc[w].j \in Jobs /\ job[proc[w].j].state = "active"
          /\ job[proc[w].j].s = proc[w].s
      BY <1>2, <1>t DEF ProcFits
    <2>2. \A j \in Jobs : job'[j] = IF j = proc[w].j THEN x ELSE job[j]
      BY <1>t
    <2>3. \A j \in Jobs : /\ job'[j].s = job[j].s
                          /\ (job'[j].state = "free") <=> (job[j].state = "free")
      BY <2>1, <2>2
    <2>4. \A v \in Workers : proc'[v] = IF v = w THEN Idle ELSE proc[v]
      BY <1>t, <1>2
    <2> QED
      BY <1>2, <1>i, <2>3, <2>4, RowsStay
  <1>3. ASSUME NEW w \in Workers, TakeJob(w) PROVE RowsInv'
    <2> PICK j \in Jobs :
           /\ job[j].state = "waiting"
           /\ IF PaymentsOf[job[j].s] = {}
              THEN /\ job' = [job EXCEPT ![j] = FreeJob]
                   /\ UNCHANGED proc
              ELSE /\ job' = [job EXCEPT ![j].state = "active"]
                   /\ proc' = [proc EXCEPT ![w] =
                         [Idle EXCEPT !.kind = "job", !.pc = "lock", !.s = job[j].s, !.j = j]]
      BY <1>3 DEF TakeJob
    <2>0. UNCHANGED <<status, pstatus>>
      BY <1>3 DEF TakeJob
    <2>1. CASE PaymentsOf[job[j].s] = {}
      <3>1. Agree(job[j].s)
        BY <2>1 DEF Agree
      <3> QED
        BY <2>0, <2>1, <3>1, RowsFreed
    <2>2. CASE PaymentsOf[job[j].s] # {}
      <3> DEFINE r == [Idle EXCEPT !.kind = "job", !.pc = "lock", !.s = job[j].s, !.j = j]
      <3>1. r.pc = "lock" /\ proc' = [proc EXCEPT ![w] = r]
        BY <2>2 DEF Idle
      <3> HIDE DEF r
      <3>2. RowsFit(r)
        BY <3>1 DEF RowsFit
      <3>3. job[j] \in Job /\ job' = [job EXCEPT ![j] = [job[j] EXCEPT !.state = "active"]]
        BY <1>t, <2>2
      <3>4. \A i \in Jobs : /\ job'[i].s = job[i].s
                            /\ (job'[i].state = "free") <=> (job[i].state = "free")
        BY <1>t, <3>3 DEF Job
      <3>5. \A v \in Workers : proc'[v] = IF v = w THEN r ELSE proc[v]
        BY <1>t, <3>1
      <3> QED
        BY <2>0, <3>2, <3>4, <3>5, RowsStay
    <2> QED
      BY <2>1, <2>2
  <1>4. ASSUME NEW w \in Workers, AcquireLock(w) PROVE RowsInv'
    <2>0. proc[w] \in Proc /\ proc[w].kind = "job"
      BY <1>4, <1>k, <1>t DEF AcquireLock
    <2>1. CASE Go(w, "post") /\ job' = job
      <3> DEFINE r == [proc[w] EXCEPT !.pc = "post"]
      <3>1. r.pc = "post" /\ proc' = [proc EXCEPT ![w] = r]
        BY <2>0, <2>1 DEF Go, Proc
      <3> HIDE DEF r
      <3>2. RowsFit(r)
        BY <3>1 DEF RowsFit
      <3> QED
        BY <1>1, <1>4, <2>1, <3>1, <3>2 DEF AcquireLock
    <2>2. CASE FailAttempt(proc[w].j) /\ proc' = [proc EXCEPT ![w] = Idle]
      BY <1>2, <1>4, <2>0, <2>2 DEF AcquireLock
    <2> QED
      BY <1>4, <2>1, <2>2 DEF AcquireLock
  <1>5. ASSUME NEW w \in Workers, Unlock(w) PROVE RowsInv'
    <2>0. proc[w].kind = "job" /\ proc[w].pc = "unlock"
      BY <1>5, <1>k DEF Unlock
    <2>1. CASE FailAttempt(proc[w].j)
      BY <1>2, <1>5, <2>0, <2>1 DEF Unlock
    <2>2. CASE proc[w].ok /\ job' = [job EXCEPT ![proc[w].j] = FreeJob]
      <3>1. proc[w].j \in Jobs /\ job[proc[w].j].s = proc[w].s
        BY <1>t, <2>0 DEF ProcFits
      <3>2. Agree(job[proc[w].j].s)
        BY <2>0, <2>2, <3>1 DEF RowsInv, RowsFit
      <3>3. \A v \in Workers : proc'[v] = IF v = w THEN Idle ELSE proc[v]
        BY <1>t, <1>5 DEF Unlock
      <3>4. UNCHANGED <<status, pstatus>>
        BY <1>5 DEF Unlock
      <3> QED
        BY <1>i, <2>2, <3>1, <3>2, <3>3, <3>4, RowsFreed
    <2> QED
      BY <1>5, <2>1, <2>2 DEF Unlock
  <1>6. ASSUME NEW w \in Workers, ThrowBeforeLock(w) PROVE RowsInv'
    BY <1>2, <1>6, <1>k DEF ThrowBeforeLock
  <1>7. ASSUME NEW w \in Workers, WorkerCrashes(w) PROVE RowsInv'
    BY <1>1, <1>7, <1>i DEF WorkerCrashes
  <1>8. ASSUME NEW w \in Workers, PostTransfer(w) PROVE RowsInv'
    <2> PICK answered \in BOOLEAN :
           proc' = [proc EXCEPT ![w] = [proc[w] EXCEPT !.pc = "saveSettlement",
                       !.target = IF answered THEN "completed" ELSE "failed"]]
      BY <1>8 DEF PostTransfer
    <2> DEFINE r == [proc[w] EXCEPT !.pc = "saveSettlement",
                       !.target = IF answered THEN "completed" ELSE "failed"]
    <2>1. proc[w] \in Proc
      BY <1>t
    <2>2. r.pc = "saveSettlement"
      BY <2>1 DEF Proc
    <2> HIDE DEF r
    <2>3. proc' = [proc EXCEPT ![w] = r] /\ RowsFit(r)
      BY <2>2 DEF r, RowsFit
    <2> QED
      BY <1>1, <1>8, <2>3 DEF PostTransfer
  <1>9. ASSUME NEW w \in Workers, SaveSettlement(w) PROVE RowsInv'
    <2> PICK r : r = [proc[w] EXCEPT !.pc = "savePayments", !.todo = PaymentsOf[proc[w].s]]
      OBVIOUS
    <2>0. proc[w] \in Proc /\ proc[w].kind = "job" /\ proc[w].s \in Settlements
      BY <1>9, <1>k, <1>t DEF SaveSettlement, ProcFits
    <2>1. /\ proc' = [proc EXCEPT ![w] = r]
          /\ status' = [status EXCEPT ![proc[w].s] = proc[w].target]
          /\ UNCHANGED <<job, pstatus>>
      BY <1>9 DEF SaveSettlement
    <2>2. /\ r.s = proc[w].s /\ r.target = proc[w].target /\ r.pc = "savePayments"
          /\ r.todo = PaymentsOf[proc[w].s]
      BY <2>0 DEF Proc
    <2>3. \A v \in Workers : proc'[v] = IF v = w THEN r ELSE proc[v]
      BY <1>t, <2>1
    <2>4. \A s \in Settlements : status'[s] = IF s = proc[w].s THEN proc[w].target ELSE status[s]
      BY <1>t, <2>1
    <2>5. RowsFit(proc[w])'
      BY <2>0, <2>2, <2>3, <2>4 DEF RowsFit
    <2>6. UNCHANGED job /\ (\A v \in Workers : v # w => proc'[v] = proc[v])
      BY <2>1, <2>3
    <2>7. /\ \A s \in Settlements : s # proc[w].s => status'[s] = status[s]
          /\ \A p \in Payments : p \notin PaymentsOf[proc[w].s] => pstatus'[p] = pstatus[p]
      BY <2>1, <2>4
    <2>8. proc'[w].kind = "job"
      BY <2>0, <2>3 DEF Proc
    <2> QED
      BY <2>0, <2>5, <2>6, <2>7, <2>8, RowsWritten
  <1>10. ASSUME NEW w \in Workers, SavePayment(w) PROVE RowsInv'
    <2> PICK p \in proc[w].todo :
           /\ pstatus' = [pstatus EXCEPT ![p] = PaymentStatusFor(proc[w].target)]
           /\ proc' = [proc EXCEPT ![w] = [proc[w] EXCEPT !.todo = proc[w].todo \ {p}]]
      BY <1>10 DEF SavePayment
    <2> PICK r : r = [proc[w] EXCEPT !.todo = proc[w].todo \ {p}]
      OBVIOUS
    <2>0. /\ proc[w] \in Proc /\ proc[w].kind = "job" /\ proc[w].s \in Settlements
          /\ proc[w].pc = "savePayments" /\ UNCHANGED <<job, status>>
      BY <1>10, <1>k, <1>t DEF SavePayment, ProcFits
    <2>1. p \in PaymentsOf[proc[w].s] /\ PaymentsOf[proc[w].s] \subseteq Payments
      BY <1>t, <2>0 DEF ProcFits
    <2>2. /\ r.s = proc[w].s /\ r.target = proc[w].target /\ r.pc = "savePayments"
          /\ r.todo = proc[w].todo \ {p}
      BY <2>0 DEF Proc
    <2>3. \A v \in Workers : proc'[v] = IF v = w THEN r ELSE proc[v]
      BY <1>t
    <2>4. \A q \in Payments :
             pstatus'[q] = IF q = p THEN PaymentStatusFor(proc[w].target) ELSE pstatus[q]
      BY <1>t
    <2>5. RowsFit(proc[w])
      BY <2>0 DEF RowsInv
    <2>6. RowsFit(r)'
      <3>1. status'[r.s] = r.target
        BY <2>0, <2>2, <2>5 DEF RowsFit
      <3>2. ASSUME NEW q \in PaymentsOf[r.s] \ r.todo
            PROVE  pstatus'[q] = PaymentStatusFor(r.target)
        <4>1. q \in Payments /\ (q = p \/ q \in PaymentsOf[proc[w].s] \ proc[w].todo)
          BY <2>1, <2>2
        <4> QED
          BY <2>0, <2>2, <2>4, <2>5, <4>1 DEF RowsFit
      <3> QED
        BY <2>2, <3>1, <3>2 DEF RowsFit
    <2>7. RowsFit(proc[w])'
      BY <2>3, <2>6 DEF RowsFit, Agree
    <2>8. \A q \in Payments : q \notin PaymentsOf[proc[w].s] => pstatus'[q] = pstatus[q]
      BY <2>1, <2>4
    <2>9. UNCHANGED job /\ (\A v \in Workers : v # w => proc'[v] = proc[v])
      BY <2>0, <2>3
    <2>10. \A s \in Settlements : s # proc[w].s => status'[s] = status[s]
      BY <2>0
    <2>11. proc'[w].kind = "job"
      BY <2>0, <2>3 DEF Proc
    <2> QED
      BY <2>0, <2>7, <2>8, <2>9, <2>10, <2>11, RowsWritten
  <1>11. ASSUME NEW w \in Workers, Finish(w) PROVE RowsInv'
    <2>0. /\ proc[w] \in Proc /\ proc[w].kind = "job" /\ proc[w].s \in Settlements
          /\ proc[w].pc = "savePayments" /\ proc[w].todo = {}
          /\ UNCHANGED <<job, status, pstatus>> /\ Go(w, "unlock")
      BY <1>11, <1>k, <1>t DEF Finish, ProcFits
    <2> PICK r : r = [proc[w] EXCEPT !.pc = "unlock"]
      OBVIOUS
    <2>1. r.s = proc[w].s /\ r.pc = "unlock" /\ proc' = [proc EXCEPT ![w] = r]
      BY <2>0 DEF Go, Proc
    <2>2. RowsFit(proc[w])
      BY <2>0 DEF RowsInv
    <2>3. Agree(proc[w].s)
      BY <2>0, <2>2 DEF RowsFit, Agree
    <2>4. RowsFit(r)
      BY <2>1, <2>3 DEF RowsFit
    <2> QED
      BY <1>1, <2>0, <2>1, <2>4
  <1>12. ASSUME NEW w \in Workers, ThrowInJob(w) PROVE RowsInv'
    <2> PICK r : /\ proc' = [proc EXCEPT ![w] = r]
                 /\ \/ r = [proc[w] EXCEPT !.pc = "saveSettlement", !.target = "failed",
                                           !.todo = {}]
                    \/ r = [proc[w] EXCEPT !.pc = "unlock", !.ok = FALSE, !.todo = {}]
      BY <1>12 DEF ThrowInJob
    <2>0. proc[w] \in Proc
      BY <1>t
    <2>1. r.pc = "saveSettlement" \/ (r.pc = "unlock" /\ r.ok = FALSE)
      BY <2>0 DEF Proc
    <2>2. RowsFit(r)
      BY <2>1 DEF RowsFit
    <2> QED
      BY <1>1, <1>12, <2>2 DEF ThrowInJob
  <1>13. ASSUME NEW j \in Jobs, Redeliver(j) PROVE RowsInv'
    <2>1. /\ job[j] \in Job /\ job[j].state = "active"
          /\ job' = [job EXCEPT ![j] = [job[j] EXCEPT !.state = "waiting"]]
          /\ UNCHANGED <<proc, status, pstatus>>
      BY <1>13, <1>t DEF Redeliver
    <2>2. \A i \in Jobs : /\ job'[i].s = job[i].s
                          /\ (job'[i].state = "free") <=> (job[i].state = "free")
      BY <1>t, <2>1 DEF Job
    <2> QED
      BY <2>1, <2>2, RowsStay
  <1>14. ASSUME \/ \E s \in Settlements : PartnerReports(s)
                \/ \E m \in Merchants : LockExpires(m)
                \/ UNCHANGED vars
         PROVE  RowsInv'
    BY <1>0, <1>14 DEF PartnerReports, LockExpires, vars
  <1> QED
    BY <1>3, <1>4, <1>5, <1>6, <1>7, <1>8, <1>9, <1>10, <1>11, <1>12, <1>13, <1>14
       DEF Next, WorkerStep

\* Without callbacks and retries the payments of a settlement say what the
\* settlement says whenever its job is done, though workers crash and jobs are
\* delivered again.
THEOREM RowsEndAgreed == ASSUME Handlers = {} PROVE Spec => []RowsAgree
  <1>1. Init => RowsInv
    <2> SUFFICES ASSUME Init PROVE RowsInv
      OBVIOUS
    <2> PICK f \in [Settlements -> Jobs] :
          /\ \A x, y \in Settlements : f[x] = f[y] => x = y
          /\ job = [j \in Jobs |-> IF \E x \in Settlements : f[x] = j
                                   THEN [state |-> "waiting", tries |-> 0,
                                         s |-> CHOOSE x \in Settlements : f[x] = j]
                                   ELSE FreeJob]
      BY DEF Init
    <2>1. \A s \in Settlements : (CHOOSE x \in Settlements : f[x] = f[s]) = s
      OBVIOUS
    <2>2. \A s \in Settlements :
             f[s] \in Jobs /\ job[f[s]] = [state |-> "waiting", tries |-> 0, s |-> s]
      BY <2>1
    <2>3. \A j \in Jobs : job[j].state # "free" => \E s \in Settlements : j = f[s]
      BY DEF FreeJob
    <2>4. OneJobEach
      BY <2>2, <2>3 DEF OneJobEach
    <2>5. \A s \in Settlements : ~NoJobFor(s)
      BY <2>2 DEF NoJobFor
    <2> QED
      BY <2>4, <2>5 DEF Init, RowsInv, Idle
  <1>2. WorkInv /\ RowsInv => RowsAgree
    <2> SUFFICES ASSUME WorkInv, RowsInv, NEW s \in Settlements,
                        ~HasJob(s, {"waiting", "active", "failed"})
                 PROVE  Agree(s)
      BY DEF RowsAgree, Agree
    <2>1. \A j \in Jobs : job[j].state \in {"free", "waiting", "active", "failed"}
      BY DEF WorkInv, TypeOK, Job
    <2>2. NoJobFor(s)
      BY <2>1 DEF HasJob, NoJobFor
    <2> QED
      BY <2>2 DEF RowsInv
  <1> QED
    BY <1>1, <1>2, WorkInitially, WorkStep, RowsStep, PTL DEF Spec
================================================================================
