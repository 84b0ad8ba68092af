------------------------------- MODULE SorobanRpc -------------------------------
(***************************************************************************)
(* Contract calls over Soroban RPC: SorobanService.invokeContract and      *)
(* submitTx (backend/src/soroban/soroban.service.ts) with their retries,   *)
(* and StellarService.invokeContract (backend/src/stellar/                 *)
(* stellar.service.ts), which sends once and does not wait; and the retry  *)
(* queue, RetryQueueService.run (backend/src/retry/retry-queue.service.ts) *)
(* with the delays of RetryConfigService: a task is run once and retried   *)
(* up to maxAttempts times.                                                *)
(*                                                                         *)
(* All calls sign with one source account, so calls that overlap build     *)
(* transactions with the same sequence number.  The network is modelled    *)
(* from how it is used: it takes a transaction into a pool, includes each  *)
(* at most once and only with the next sequence number.                    *)
(***************************************************************************)
EXTENDS Integers, FiniteSets, Sequences

CONSTANTS
    Calls,         \* contract calls
    maxAttempts,   \* of withRetry
    MaxRpcFaults,  \* bound: requests that fail
    RetryConfigs   \* of the retry queue: records [maxAttempts, delaysMs]

ASSUME RpcAssumption == maxAttempts \in Nat \ {0} /\ MaxRpcFaults \in Nat

ASSUME RetryAssumption ==
    \A c \in RetryConfigs : c.maxAttempts \in Nat /\ c.delaysMs \in Seq(Nat) /\ Len(c.delaysMs) > 0

CallKinds == {"read", "submit", "send"}

VARIABLES
    call,        \* where each call is: kind, stage, attempt, sequence number
    sequence,    \* sequence number of the source account
    pool,        \* transactions the RPC server has taken: call and sequence
    included,    \* inclusions of transactions in ledgers: call, sequence, success
    rpcFaults

rpcVars == <<call, sequence, pool, included, rpcFaults>>

RpcInit ==
    /\ call \in [Calls -> [kind : CallKinds, pc : {"load"}, attempt : {1}, seq : {0}]]
    /\ sequence = 0 /\ pool = {} /\ included = {} /\ rpcFaults = 0

Tx(c) == [call |-> c, seq |-> call[c].seq]
At(c, pc) == call[c].pc = pc
Go(c, pc) == call' = [call EXCEPT ![c].pc = pc, ![c].attempt = 1]

--------------------------------------------------------------------------------
(* withRetry                                                               *)

RpcFault == rpcFaults < MaxRpcFaults /\ rpcFaults' = rpcFaults + 1

\* A request fails.  A retryable error is tried again up to maxAttempts times;
\* StellarService does not retry.
AttemptFails(c) ==
    \/ /\ call[c].kind # "send" /\ call[c].attempt < maxAttempts
       /\ call' = [call EXCEPT ![c].attempt = @ + 1]
    \/ Go(c, "failed")

RequestFails(c) ==
    /\ call[c].pc \in {"load", "simulate", "prepare", "post", "poll"}
    /\ RpcFault /\ AttemptFails(c)
    /\ UNCHANGED <<sequence, pool, included>>

--------------------------------------------------------------------------------
(* invokeContract and submitTx                                             *)

\* getAccount: the transaction is built with the next sequence number.
LoadAccount(c) ==
    /\ At(c, "load")
    /\ call' = [call EXCEPT ![c].pc = IF call[c].kind = "read" THEN "simulate" ELSE "prepare",
                            ![c].attempt = 1, ![c].seq = sequence + 1]
    /\ UNCHANGED <<sequence, pool, included, rpcFaults>>

\* simulateTx ends a read-only call; an error in the simulation fails it.
Simulate(c) ==
    /\ At(c, "simulate")
    /\ Go(c, "ok") \/ Go(c, "failed")
    /\ UNCHANGED <<sequence, pool, included, rpcFaults>>

\* prepareTransaction (or simulation and assembly), then the signature.
Prepare(c) ==
    /\ At(c, "prepare")
    /\ Go(c, "post") \/ Go(c, "failed")
    /\ UNCHANGED <<sequence, pool, included, rpcFaults>>

\* sendTransaction.  With another sequence number than the next the server
\* answers an error: submitTx polls for the hash nevertheless, StellarService
\* fails because the status is not PENDING.
Send(c) ==
    /\ At(c, "post")
    /\ IF call[c].seq > sequence
       THEN pool' = pool \cup {Tx(c)} /\ Go(c, IF call[c].kind = "send" THEN "ok" ELSE "poll")
       ELSE pool' = pool /\ Go(c, IF call[c].kind = "send" THEN "failed" ELSE "poll")
    /\ UNCHANGED <<sequence, included, rpcFaults>>

\* Mutant: the retry builds the transaction again.
SendUnansweredRebuilds(c) ==
    /\ At(c, "post") /\ call[c].seq > sequence
    /\ pool' = pool \cup {Tx(c)}
    /\ RpcFault
    /\ \/ /\ call[c].kind # "send" /\ call[c].attempt < maxAttempts
          /\ call' = [call EXCEPT ![c].pc = "load"]
       \/ Go(c, "failed")
    /\ UNCHANGED <<sequence, included>>

\* The server takes the transaction and its answer is lost, or has no hash.
SendUnanswered(c) ==
    /\ At(c, "post") /\ call[c].seq > sequence
    /\ pool' = pool \cup {Tx(c)}
    /\ RpcFault /\ AttemptFails(c)
    /\ UNCHANGED <<sequence, included>>

InclusionsOf(c) == {t \in included : t.call = c}

\* Mutant: any final answer is taken for a success.
PollUnchecked(c) ==
    /\ At(c, "poll")
    /\ Go(c, "ok")
    /\ UNCHANGED <<sequence, pool, included, rpcFaults>>

\* pollTransaction asks up to five times; anything but SUCCESS, NOT_FOUND too, fails the
\* call.  (An empty status would pass, but every answer of the SDK has one.)
Poll(c) ==
    /\ At(c, "poll")
    /\ Go(c, IF \E t \in InclusionsOf(c) : t.seq = call[c].seq /\ t.success
             THEN "ok" ELSE "failed")
    /\ UNCHANGED <<sequence, pool, included, rpcFaults>>

--------------------------------------------------------------------------------
(* The network                                                             *)

\* A transaction is applied, or fails and uses up its sequence number only.
Include(t) ==
    /\ t.seq = sequence + 1
    /\ sequence' = t.seq
    /\ \E success \in BOOLEAN :
           included' = included \cup {[call |-> t.call, seq |-> t.seq, success |-> success]}
    /\ pool' = pool \ {t}
    /\ UNCHANGED <<call, rpcFaults>>

\* It is too late (setTimeout(30)), or its sequence number is used.
Drop(t) ==
    /\ pool' = pool \ {t}
    /\ UNCHANGED <<call, sequence, included, rpcFaults>>

RpcNext ==
    \/ \E c \in Calls : \/ LoadAccount(c) \/ Simulate(c) \/ Prepare(c) \/ Send(c)
                        \/ SendUnanswered(c) \/ Poll(c) \/ RequestFails(c)
    \/ \E t \in pool : Include(t) \/ Drop(t)

--------------------------------------------------------------------------------
(* The retry queue: the last delay is repeated when the list is short.     *)

VARIABLES
    retryConfig,  \* the config of this run
    retryRun,     \* attempt (counted from 0) and outcome
    waited        \* history: the delays slept so far

retryVars == <<retryConfig, retryRun, waited>>

RetryInit ==
    /\ retryConfig \in RetryConfigs
    /\ retryRun = [attempt |-> 0, outcome |-> "running"]
    /\ waited = << >>

DelayAfter(attempt) ==
    retryConfig.delaysMs[IF attempt < Len(retryConfig.delaysMs) THEN attempt + 1
                         ELSE Len(retryConfig.delaysMs)]

TaskSucceeds ==
    /\ retryRun.outcome = "running"
    /\ retryRun' = [retryRun EXCEPT !.outcome = "returned"]
    /\ UNCHANGED <<retryConfig, waited>>

TaskFails ==
    /\ retryRun.outcome = "running"
    /\ IF retryRun.attempt = retryConfig.maxAttempts
       THEN retryRun' = [retryRun EXCEPT !.outcome = "threw"] /\ UNCHANGED waited
       ELSE /\ retryRun' = [retryRun EXCEPT !.attempt = @ + 1]
            /\ waited' = Append(waited, DelayAfter(retryRun.attempt))
    /\ UNCHANGED retryConfig

RetryNext == TaskSucceeds \/ TaskFails

--------------------------------------------------------------------------------
(* Properties                                                              *)

\* However often a request is sent again, a call takes effect at most once.
CallAppliedOnce == \A c \in Calls : Cardinality(InclusionsOf(c)) <= 1

\* submitTx answers success only for a transaction that was applied, also when
\* overlapping calls were built with the same sequence number; a read-only call
\* leaves nothing on the ledger.
OkMeansApplied ==
    \A c \in Calls :
        /\ At(c, "ok") /\ call[c].kind = "submit" => \E t \in InclusionsOf(c) : t.success
        /\ call[c].kind = "read" => InclusionsOf(c) = {}

\* The error surfaces only after maxAttempts retries, and the waits are the
\* configured delays in order, the last one repeated.
RetriesAsConfigured ==
    /\ retryRun.outcome = "threw" => Len(waited) = retryConfig.maxAttempts
    /\ \A k \in DOMAIN waited :
           \/ k <= Len(retryConfig.delaysMs) /\ waited[k] = retryConfig.delaysMs[k]
           \/ k > Len(retryConfig.delaysMs) /\ waited[k] = waited[k - 1]
================================================================================
