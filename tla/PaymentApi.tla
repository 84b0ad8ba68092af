-------------------------------- MODULE PaymentApi --------------------------------
(***************************************************************************)
(* The payment API (backend/src/payment): creation behind the idempotency  *)
(* interceptor for one key, cancellation by the merchant and notifications *)
(* of the processor.  Requests interleave at every await.                  *)
(***************************************************************************)
EXTENDS Integers

CONSTANTS
    Creates,    \* POST requests that carry the key
    Cancels, Notifies,   \* cancel and notify calls
    NotifyStatuses,      \* statuses a notification may carry
    MaxApiFaults         \* bound

ASSUME ApiAssumption == MaxApiFaults \in Nat /\ "none" \notin NotifyStatuses

VARIABLES
    apiPayments,  \* payment of each create that saved one: its status, and a version as history
    keyCache,     \* the cached answer for the key: the payment it names, or none
    creating,     \* step of each create, the answer it gave, and whether it
                  \* began after an answer was cached
    changing,     \* step of each cancel or notify, with what it loaded
    apiMetrics,   \* payments counted as processed and failed
    apiFaults

apiVars == <<apiPayments, keyCache, creating, changing, apiMetrics, apiFaults>>

NoPayment == [status |-> "none", version |-> 0]
Unset == "none"
NotChanging == [pc |-> "idle", payment |-> Unset, row |-> NoPayment, to |-> "none"]
Existing == {p \in Creates : apiPayments[p].status # "none"}

ApiInit ==
    /\ apiPayments = [p \in Creates |-> NoPayment] /\ keyCache = Unset
    /\ creating = [c \in Creates |-> [pc |-> "new", answer |-> Unset, late |-> FALSE]]
    /\ changing = [c \in Cancels \cup Notifies |-> NotChanging]
    /\ apiMetrics = [processed |-> 0, failed |-> 0] /\ apiFaults = 0

\* The interceptor returns the cached answer or goes on to the handler.
intercept(c) ==
    /\ creating[c].pc = "new"
    /\ creating' = [creating EXCEPT ![c] =
           [pc |-> IF keyCache # Unset THEN "done" ELSE "handle", answer |-> keyCache,
            late |-> keyCache # Unset]]
    /\ UNCHANGED <<apiPayments, keyCache, changing, apiMetrics, apiFaults>>

\* createPayment saves a pending payment and the client is answered; the answer is
\* cached after that (tap is not awaited).
createPayment(c) ==
    /\ creating[c].pc = "handle"
    /\ apiPayments' = [apiPayments EXCEPT ![c] = [status |-> "pending", version |-> 1]]
    /\ creating' = [creating EXCEPT ![c].pc = "cache", ![c].answer = c]
    /\ UNCHANGED <<keyCache, changing, apiMetrics, apiFaults>>

CacheAnswer(c) ==
    /\ creating[c].pc = "cache"
    /\ keyCache' = creating[c].answer
    /\ creating' = [creating EXCEPT ![c].pc = "done"]
    /\ UNCHANGED <<apiPayments, changing, apiMetrics, apiFaults>>

\* The database fails (nothing is cached and the client may try again), or Redis
\* does and the answer is not cached.
CreateFails(c) ==
    /\ creating[c].pc \in {"handle", "cache"} /\ apiFaults < MaxApiFaults
    /\ apiFaults' = apiFaults + 1
    /\ creating' = [creating EXCEPT ![c].pc = IF @ = "handle" THEN "new" ELSE "done"]
    /\ UNCHANGED <<apiPayments, keyCache, changing, apiMetrics>>

--------------------------------------------------------------------------------

LoadPayment(c, p, to) ==
    /\ changing[c].pc = "idle" /\ p \in Existing
    /\ changing' = [changing EXCEPT ![c] = [pc |-> "loaded", payment |-> p, row |-> apiPayments[p], to |-> to]]
    /\ UNCHANGED <<apiPayments, keyCache, creating, apiMetrics, apiFaults>>

\* Mutant: any payment can be cancelled.
CancelAny(c, p) == LoadPayment(c, p, "cancelled")

\* getPaymentDetails; only a pending payment goes on.
cancelPayment(c, p) == apiPayments[p].status = "pending" /\ LoadPayment(c, p, "cancelled")

handleNotify(c, p) == \E st \in NotifyStatuses : LoadPayment(c, p, st)

\* save writes the status decided on, and a notification is counted.
SaveStatus(c) ==
    LET ch == changing[c]
    IN  /\ ch.pc = "loaded"
        /\ apiPayments' = [apiPayments EXCEPT ![ch.payment] = [status |-> ch.to, version |-> @.version + 1]]
        /\ changing' = [changing EXCEPT ![c].pc = "done"]
        /\ apiMetrics' = CASE c \in Notifies /\ ch.to = "completed" -> [apiMetrics EXCEPT !.processed = @ + 1]
                           [] c \in Notifies /\ ch.to = "failed" -> [apiMetrics EXCEPT !.failed = @ + 1]
                           [] OTHER -> apiMetrics
        /\ UNCHANGED <<keyCache, creating, apiFaults>>

ApiNext ==
    \/ \E c \in Creates : intercept(c) \/ createPayment(c) \/ CacheAnswer(c) \/ CreateFails(c)
    \/ \E c \in Cancels, p \in Creates : cancelPayment(c, p)
    \/ \E c \in Notifies, p \in Creates : handleNotify(c, p)
    \/ \E c \in Cancels \cup Notifies : SaveStatus(c)

--------------------------------------------------------------------------------
(* Properties                                                              *)

\* A request that begins after an answer was cached creates no payment; it is
\* given the answer of a request that did.
LateCreatesNothing ==
    \A c \in Creates : creating[c].late =>
        apiPayments[c].status = "none" /\ (creating[c].pc = "done" => creating[c].answer \in Existing)

\* A payment the processor has decided on is cancelled only by a request that
\* read it before the decision.
OnlyRacesCancelDecided ==
    [][\A p \in Creates :
          (apiPayments[p].status \in NotifyStatuses /\ apiPayments'[p].status = "cancelled") =>
              \E c \in Cancels : changing[c].payment = p /\ changing[c].row.version < apiPayments[p].version]_apiVars
================================================================================
