----------------------------- MODULE WebhookDelivery -----------------------------
(***************************************************************************)
(* Webhooks of merchants: registration and dispatch                        *)
(* (backend/src/webhooks/webhooks.service.ts, webhook-delivery.service.ts) *)
(* and the processor that posts, retries on a schedule and deactivates     *)
(* (webhook-delivery.processor.ts).                                        *)
(*                                                                         *)
(* The processor loads a webhook, changes it and saves all of it: a save   *)
(* undoes what happened to the row since it was loaded, and inserts the    *)
(* row again when it was removed meanwhile.                                *)
(***************************************************************************)
EXTENDS Integers

CONSTANTS
    Webhooks,       \* webhook ids
    HookEvents,     \* events dispatched, each once
    ScheduleLength, \* entries of webhookRetrySchedule
    DeactivateAt,   \* failures that deactivate a webhook, 10
    MaxHookFaults   \* bound: database errors and crashes

ASSUME WebhookAssumption ==
    ScheduleLength \in Nat \ {0} /\ DeactivateAt \in Nat \ {0} /\ MaxHookFaults \in Nat

VARIABLES
    hook,        \* rows: exists, isActive, failureCount
    delivery,    \* the job chain of each webhook and event
    hookFaults,
    posts,       \* history: posts of each webhook and event
    hookFailures \* history: posts of each webhook that were counted as failures

hookVars == <<hook, delivery, hookFaults, posts, hookFailures>>

Deliveries == Webhooks \X HookEvents
NoHook == [exists |-> FALSE, isActive |-> FALSE, failureCount |-> 0]
NewHook == [exists |-> TRUE, isActive |-> TRUE, failureCount |-> 0]
NoDelivery == [pc |-> "none", attempt |-> 0, loaded |-> NoHook]

HookInit ==
    /\ hook = [w \in Webhooks |-> NoHook]
    /\ delivery = [d \in Deliveries |-> NoDelivery]
    /\ hookFaults = 0
    /\ posts = [d \in Deliveries |-> 0]
    /\ hookFailures = [w \in Webhooks |-> 0]

HookFault == hookFaults < MaxHookFaults /\ hookFaults' = hookFaults + 1
Step(d, from, to) ==
    delivery[d].pc = from /\ delivery' = [delivery EXCEPT ![d].pc = to, ![d].loaded = NoHook]

--------------------------------------------------------------------------------
(* WebhooksService                                                         *)

createWebhook(w) ==
    /\ ~hook[w].exists /\ \A e \in HookEvents : delivery[<<w, e>>].pc = "none"
    /\ hook' = [hook EXCEPT ![w] = NewHook]
    /\ UNCHANGED <<delivery, hookFaults, posts, hookFailures>>

removeWebhook(w) ==
    /\ hook[w].exists
    /\ hook' = [hook EXCEPT ![w] = NoHook]
    /\ UNCHANGED <<delivery, hookFaults, posts, hookFailures>>

\* dispatch enqueues a first attempt for every active webhook of the event.
dispatch(e) ==
    /\ \A w \in Webhooks : delivery[<<w, e>>].pc = "none"
    /\ \E w \in Webhooks : hook[w].isActive
    /\ delivery' = [d \in Deliveries |->
                       IF d[2] = e /\ hook[d[1]].isActive
                       THEN [NoDelivery EXCEPT !.pc = "queued", !.attempt = 1]
                       ELSE delivery[d]]
    /\ UNCHANGED <<hook, hookFaults, posts, hookFailures>>

--------------------------------------------------------------------------------
(* WebhookDeliveryProcessor.process                                        *)

\* axios.post; a webhook that was removed or deactivated is posted to as well.
Post(d) ==
    /\ posts' = [posts EXCEPT ![d] = @ + 1]
    /\ \/ Step(d, "queued", "succeeded") /\ UNCHANGED hookFailures
       \/ /\ Step(d, "queued", "failed")
          /\ hookFailures' = [hookFailures EXCEPT ![d[1]] = @ + 1]
    /\ UNCHANGED <<hook, hookFaults>>

\* logDelivery and findOne of markWebhookSuccess and markWebhookFailure.
LoadHook(d, from, to) ==
    /\ delivery[d].pc = from
    /\ delivery' = [delivery EXCEPT ![d].pc = to, ![d].loaded = hook[d[1]]]
    /\ UNCHANGED <<hook, hookFaults, posts, hookFailures>>

\* The loaded row is saved as changed; a row that was not found is left alone.
SaveHook(d, row) ==
    hook' = IF delivery[d].loaded.exists THEN [hook EXCEPT ![d[1]] = row] ELSE hook

markWebhookSuccess(d) ==
    /\ Step(d, "markSuccess", "done")
    /\ SaveHook(d, [delivery[d].loaded EXCEPT !.failureCount = 0])
    /\ UNCHANGED <<hookFaults, posts, hookFailures>>

\* The alert that follows changes nothing here.
markWebhookFailure(d) ==
    /\ Step(d, "markFailure", "retry")
    /\ LET count == delivery[d].loaded.failureCount + 1
       IN  SaveHook(d, [delivery[d].loaded EXCEPT !.failureCount = count,
                            !.isActive = IF count >= DeactivateAt THEN FALSE ELSE @])
    /\ UNCHANGED <<hookFaults, posts, hookFailures>>

\* Mutant: the attempt is counted by the job and again by its payload.
RetryCountsTwice(d) ==
    /\ delivery[d].pc = "retry"
    /\ delivery' = [delivery EXCEPT ![d] =
           IF @.attempt < ScheduleLength
           THEN [NoDelivery EXCEPT !.pc = "queued", !.attempt = delivery[d].attempt + 2]
           ELSE [@ EXCEPT !.pc = "done"]]
    /\ UNCHANGED <<hook, hookFaults, posts, hookFailures>>

\* The next attempt is a new job, delayed by the entry of the schedule.
Retry(d) ==
    /\ delivery[d].pc = "retry"
    /\ delivery' = [delivery EXCEPT ![d] =
           IF @.attempt < ScheduleLength
           THEN [NoDelivery EXCEPT !.pc = "queued", !.attempt = delivery[d].attempt + 1]
           ELSE [@ EXCEPT !.pc = "done"]]
    /\ UNCHANGED <<hook, hookFaults, posts, hookFailures>>

\* A database error behind a successful post is taken for a failed one; on the
\* failure path it ends the job, which has no attempts of its own, and the
\* retry is lost.
HookDatabaseFails(d) ==
    /\ HookFault
    /\ \/ /\ delivery[d].pc \in {"succeeded", "markSuccess"}
          /\ delivery' = [delivery EXCEPT ![d].pc = "failed", ![d].loaded = NoHook]
          /\ hookFailures' = [hookFailures EXCEPT ![d[1]] = @ + 1]
       \/ /\ delivery[d].pc \in {"failed", "markFailure", "retry"}
          /\ delivery' = [delivery EXCEPT ![d].pc = "lost", ![d].loaded = NoHook]
          /\ UNCHANGED hookFailures
    /\ UNCHANGED <<hook, posts>>

\* The worker dies; Bull runs the stalled job again.
WorkerDies(d) ==
    /\ HookFault
    /\ delivery[d].pc \in {"succeeded", "markSuccess", "failed", "markFailure", "retry"}
    /\ delivery' = [delivery EXCEPT ![d].pc = "queued", ![d].loaded = NoHook]
    /\ UNCHANGED <<hook, posts, hookFailures>>

ProcessorStep(d) ==
    \/ Post(d)
    \/ LoadHook(d, "succeeded", "markSuccess") \/ markWebhookSuccess(d)
    \/ LoadHook(d, "failed", "markFailure") \/ markWebhookFailure(d)
    \/ Retry(d)

HookNext ==
    \/ \E w \in Webhooks : createWebhook(w) \/ removeWebhook(w)
    \/ \E e \in HookEvents : dispatch(e)
    \/ \E d \in Deliveries : ProcessorStep(d) \/ HookDatabaseFails(d) \/ WorkerDies(d)

--------------------------------------------------------------------------------
(* Properties                                                              *)

\* An event is posted to a webhook at most once per entry of the schedule, and
\* once more for every worker that died over it.
PostsBounded == \A d \in Deliveries : posts[d] <= ScheduleLength + hookFaults

\* Lost updates make failureCount too small, never too large: a webhook is
\* deactivated only after DeactivateAt posts failed.
CountsOnlyFailures ==
    \A w \in Webhooks :
        /\ hook[w].failureCount <= hookFailures[w]
        /\ hook[w].exists /\ ~hook[w].isActive => hookFailures[w] >= DeactivateAt

\* A deactivated or removed webhook comes back only when a processor saves a
\* row it had loaded before.
OnlyStaleSavesRevive ==
    [][\A w \in Webhooks :
          ~hook[w].isActive /\ hook'[w].isActive =>
              \/ hook'[w] = NewHook /\ \A e \in HookEvents : delivery[<<w, e>>].pc = "none"
              \/ \E e \in HookEvents : delivery[<<w, e>>].loaded.isActive]_hookVars

\* Every delivery ends, and without database errors and crashes every attempt
\* that was scheduled has been posted, exactly once.
DeliveriesEnd ==
    \A d \in Deliveries :
        delivery[d].pc = "queued" ~>
            delivery[d].pc \in {"done", "lost"} /\ (posts[d] = delivery[d].attempt \/ hookFaults > 0)
================================================================================
