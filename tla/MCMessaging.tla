------------------------------ MODULE MCMessaging -------------------------------
(***************************************************************************)
(* The components that talk to the outside through queues, retries and the *)
(* network.  They share no state, so each behaviour runs one of them,      *)
(* chosen at the start, and the others stay as they were initialised.      *)
(***************************************************************************)
EXTENDS EventIndexer, WebhookDelivery, EmailDelivery, SorobanRpc, Wallets, PaymentApi,
    NotificationPrefs, HealthCheck, TLC

VARIABLE active   \* the component that runs

mcBlocks == {<<"known">>, <<"other">>, <<"malformed", "known">>}
mcRetryConfigs == [maxAttempts : 1 .. 4, delaysMs : {<<1>>, <<1, 2>>, <<1, 2, 3, 4, 5>>}]
mcLegacyAddress == [u \in LegacyUsers |-> -1]
mcItem(channel, event, on) == [pair |-> <<channel, event>>, enabled |-> on]
mcPrefUpdates ==
    "c1" :> <<mcItem("email", "settled", FALSE), mcItem("in_app", "settled", TRUE)>>
    @@ "c2" :> <<mcItem("email", "settled", FALSE), mcItem("email", "failed", FALSE), mcItem("email", "settled", TRUE)>>
    @@ "c3" :> <<mcItem("email", "failed", TRUE), mcItem("in_app", "failed", FALSE)>>

Init ==
    /\ active \in {"indexer", "webhooks", "mail", "rpc", "retry", "pause", "api", "wallets", "prefs", "health"}
    /\ IndexInit
    /\ HookInit
    /\ MailInit
    /\ RpcInit
    /\ RetryInit
    /\ PauseInit
    /\ ApiInit
    /\ WalletInit
    /\ PrefInit
    /\ HealthInit
    /\ active # "rpc" => \A c \in Calls : call[c].kind = "send"
    /\ active # "retry" => retryConfig = [maxAttempts |-> 1, delaysMs |-> <<1>>]

Next ==
    \/ /\ active = "indexer" /\ IndexNext
       /\ UNCHANGED <<active, hookVars, mailVars, rpcVars, retryVars, pauseVars, apiVars, walletVars, prefVars,
                      healthVars>>
    \/ /\ active = "webhooks" /\ HookNext
       /\ UNCHANGED <<active, indexVars, mailVars, rpcVars, retryVars, pauseVars, apiVars, walletVars, prefVars,
                      healthVars>>
    \/ /\ active = "mail" /\ MailNext
       /\ UNCHANGED <<active, indexVars, hookVars, rpcVars, retryVars, pauseVars, apiVars, walletVars, prefVars,
                      healthVars>>
    \/ /\ active = "rpc" /\ RpcNext
       /\ UNCHANGED <<active, indexVars, hookVars, mailVars, retryVars, pauseVars, apiVars, walletVars, prefVars,
                      healthVars>>
    \/ /\ active = "retry" /\ RetryNext
       /\ UNCHANGED <<active, indexVars, hookVars, mailVars, rpcVars, pauseVars, apiVars, walletVars, prefVars,
                      healthVars>>
    \/ /\ active = "pause" /\ PauseNext
       /\ UNCHANGED <<active, indexVars, hookVars, mailVars, rpcVars, retryVars, apiVars, walletVars, prefVars,
                      healthVars>>
    \/ /\ active = "api" /\ ApiNext
       /\ UNCHANGED <<active, indexVars, hookVars, mailVars, rpcVars, retryVars, pauseVars, walletVars, prefVars,
                      healthVars>>
    \/ /\ active = "wallets" /\ WalletNext
       /\ UNCHANGED <<active, indexVars, hookVars, mailVars, rpcVars, retryVars, pauseVars, apiVars, prefVars,
                      healthVars>>
    \/ /\ active = "prefs" /\ PrefNext
       /\ UNCHANGED <<active, indexVars, hookVars, mailVars, rpcVars, retryVars, pauseVars, apiVars, walletVars,
                      healthVars>>
    \/ /\ active = "health" /\ HealthNext
       /\ UNCHANGED <<active, indexVars, hookVars, mailVars, rpcVars, retryVars, pauseVars, apiVars, walletVars,
                      prefVars>>

vars == <<active, indexVars, hookVars, mailVars, rpcVars, retryVars, pauseVars, apiVars,
          walletVars, prefVars, healthVars>>

\* The cron starts a poll every 5 s on each instance and awaits end; Bull runs
\* every webhook job, delayed ones when their time has come, and every mail job;
\* a request that has saved its mail goes on.
Fairness ==
    /\ \A i \in Indexers : WF_indexVars(active = "indexer" /\ IndexStep(i))
    /\ \A d \in Deliveries : WF_hookVars(active = "webhooks" /\ ProcessorStep(d))
    /\ \A m \in Mails : WF_mailVars(active = "mail" /\ MailStep(m))

Spec == Init /\ [][Next]_vars /\ Fairness
---------------------------------------------------------------------------------
\* What was taken over is not lost: no event of the contract is skipped, every mail
\* has its outcome on record and every wallet its key, whichever step fails or runs
\* twice.
NothingLost == NothingSkipped /\ OutcomeRecorded /\ SecretsRecoverable

\* Retries, workers that take over and requests that arrive again do no more than
\* was asked once: no further post, mail, contract call or payment than the attempts
\* and the failures account for.
NoMoreThanAsked ==
    /\ PostsBounded /\ MailsBounded
    /\ CallAppliedOnce /\ RetriesAsConfigured
    /\ LateCreatesNothing

\* What the backend records or answers did happen: failed posts, sent mails, applied
\* calls, registered addresses, pauses of the contract and probes of the services.
RecordsTellTheTruth ==
    /\ CountsOnlyFailures /\ SentWasAccepted
    /\ OkMeansApplied /\ RegisteredIsStored
    /\ LogTellsPauses /\ VerdictAgreesWithReadiness

\* A decision of somebody else (a deactivated webhook, a payment the processor has
\* decided on, a preference) is undone only by a request that overlapped it.
OnlyRacesUndo == OnlyStaleSavesRevive /\ OnlyRacesCancelDecided /\ UpdateInForce

\* What was queued is dealt with: events are handled, deliveries and mails end.
QueuesDrain == EventsAreHandled /\ DeliveriesEnd /\ MailsEnd
=================================================================================
