-------------------------------- MODULE HealthCheck --------------------------------
(***************************************************************************)
(* HealthController (backend/src/health): five probes side by side, while  *)
(* the services they reach come and go, then one verdict; and the          *)
(* readiness check beside it.                                              *)
(***************************************************************************)
EXTENDS Integers

CONSTANTS
    PartnerConfigured,  \* PARTNER_API_URL is set
    MaxOutages          \* bound

ASSUME HealthAssumption == PartnerConfigured \in BOOLEAN /\ MaxOutages \in Nat

VARIABLES
    serviceUp,    \* the services a probe can reach: up, slow (over its limit) or down
    probe,        \* result of each probe of the request under way
    verdict503,   \* the answer: "none", "healthy", "degraded" or "down" (HTTP 503)
    outages,      \* changes of the services so far
    changedAt     \* history: probed services that changed since the request began

healthVars == <<serviceUp, probe, verdict503, outages, changedAt>>

ProbeNames == {"database", "stellar", "partnerApi", "redis", "queue"}
Reachable == {"database", "stellar", "partnerApi"}

HealthInit ==
    /\ serviceUp = [s \in Reachable |-> "up"] /\ probe = [s \in ProbeNames |-> "none"]
    /\ verdict503 = "none" /\ outages = 0 /\ changedAt = {}

ServiceChanges(s) ==
    /\ outages < MaxOutages /\ outages' = outages + 1
    /\ \E st \in {"up", "slow", "down"} \ {serviceUp[s]} : serviceUp' = [serviceUp EXCEPT ![s] = st]
    /\ changedAt' = IF \A q \in ProbeNames : probe[q] = "none" THEN {} ELSE changedAt \cup {s}
    /\ UNCHANGED <<probe, verdict503>>

PingResult(s) ==
    CASE serviceUp[s] = "up" -> "ok" [] serviceUp[s] = "slow" -> "degraded" [] OTHER -> "down"

checkDatabase == PingResult("database")
checkStellar == PingResult("stellar")

\* An unconfigured partner is fine, an unreachable one degrades.
checkPartnerApi ==
    IF ~PartnerConfigured \/ serviceUp["partnerApi"] = "up" THEN "ok" ELSE "degraded"

\* Neither Redis nor the queue is asked yet.
checkRedis == "ok"
checkQueue == "ok"

RunProbe(s) ==
    /\ verdict503 = "none" /\ probe[s] = "none"
    /\ probe' = [probe EXCEPT ![s] =
           CASE s = "database" -> checkDatabase [] s = "stellar" -> checkStellar
             [] s = "partnerApi" -> checkPartnerApi [] s = "redis" -> checkRedis [] OTHER -> checkQueue]
    /\ UNCHANGED <<serviceUp, verdict503, outages, changedAt>>

criticalComponents == {"database", "stellar"}

\* Promise.allSettled has all results.
adminHealth ==
    /\ verdict503 = "none" /\ \A s \in ProbeNames : probe[s] # "none"
    /\ verdict503' = IF \E s \in criticalComponents : probe[s] = "down" THEN "down"
                     ELSE IF \E s \in ProbeNames : probe[s] # "ok" THEN "degraded" ELSE "healthy"
    /\ UNCHANGED <<serviceUp, probe, outages, changedAt>>

NextRequest ==
    /\ verdict503 # "none"
    /\ verdict503' = "none" /\ probe' = [s \in ProbeNames |-> "none"] /\ changedAt' = {}
    /\ UNCHANGED <<serviceUp, outages>>

\* GET ready: both pings answer.
readiness == serviceUp["database"] # "down" /\ serviceUp["stellar"] # "down"

HealthNext ==
    \/ \E s \in Reachable : ServiceChanges(s)
    \/ \E s \in ProbeNames : RunProbe(s)
    \/ adminHealth \/ NextRequest

--------------------------------------------------------------------------------
(* Properties                                                              *)

\* The verdict and the readiness check agree on what takes the service out of
\* rotation, unless a service changed after it was probed.
VerdictAgreesWithReadiness ==
    (verdict503 # "none" /\ changedAt = {}) =>
        /\ (verdict503 = "down") <=> ~readiness
        /\ verdict503 = "healthy" =>
               \A s \in Reachable : serviceUp[s] = "up" \/ (s = "partnerApi" /\ ~PartnerConfigured)
================================================================================
