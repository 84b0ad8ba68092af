------------------------------ MODULE MerchantSignups ------------------------------
(***************************************************************************)
(* getMetrics of MerchantAnalyticsService (backend/src/analytics): the     *)
(* daily signups, the activation rate and the monthly active users, read by*)
(* three parallel queries for one moment asOf.  The cache in front of them,*)
(* cache.getOrSet, is the one of module FeeCache and left out.  Time is    *)
(* counted in parts of a day, because the signup query starts at the time  *)
(* of day it is asked while its series is made of whole days.              *)
(***************************************************************************)
EXTENDS Integers, FiniteSets

CONSTANTS
    Signers,        \* users that are neither administrators nor treasury
    DayParts,       \* parts of a day
    WindowDays,     \* DAILY_SIGNUP_WINDOW_DAYS: 30
    ActivationDays, \* ACTIVATION_WINDOW_DAYS: 7
    MonthDays,      \* days of a month
    MaxSignupTime   \* bound

ASSUME SignupAssumption ==
    /\ {DayParts, WindowDays, MonthDays} \subseteq Nat \ {0}
    /\ {ActivationDays, MaxSignupTime} \subseteq Nat
    /\ IsFiniteSet(Signers)

VARIABLES
    signupClock,
    signedUp,     \* createdAt of a user, or Never
    firstSeen,    \* createdAt of the user's first session, or Never
    lastSeen,     \* last_seen_at of that session
    request       \* the last request: its time and what has been read for it

signupVars == <<signupClock, signedUp, firstSeen, lastSeen, request>>

Never == -1
Day(t) == t \div DayParts
Month(t) == Day(t) \div MonthDays

SignupInit ==
    /\ signupClock = 0 /\ signedUp = [u \in Signers |-> Never]
    /\ firstSeen = [u \in Signers |-> Never] /\ lastSeen = [u \in Signers |-> Never]
    /\ request = [asked |-> FALSE, asOf |-> 0, got |-> << >>]

SignupTick ==
    /\ signupClock < MaxSignupTime /\ signupClock' = signupClock + 1
    /\ UNCHANGED <<signedUp, firstSeen, lastSeen, request>>

\* The users and sessions tables, which the service only reads.
SignUp(u) ==
    /\ signedUp[u] = Never /\ signedUp' = [signedUp EXCEPT ![u] = signupClock]
    /\ UNCHANGED <<signupClock, firstSeen, lastSeen, request>>

IsSeen(u) ==
    /\ signedUp[u] # Never /\ lastSeen' = [lastSeen EXCEPT ![u] = signupClock]
    /\ firstSeen' = IF firstSeen[u] = Never THEN [firstSeen EXCEPT ![u] = signupClock] ELSE firstSeen
    /\ UNCHANGED <<signupClock, signedUp, request>>

--------------------------------------------------------------------------------
(* getMetrics                                                              *)

SignedUpUsers == {u \in Signers : signedUp[u] # Never}

\* The rows of the last WindowDays - 1 times 24 hours, counted by day.
SignupRows(asOf) ==
    LET rows == {u \in SignedUpUsers : signedUp[u] >= asOf - (WindowDays - 1) * DayParts}
    IN  [d \in {Day(signedUp[u]) : u \in rows} |-> Cardinality({u \in rows : Day(signedUp[u]) = d})]

buildDailySignupSeries(asOf, rows) ==
    [d \in Day(asOf) - (WindowDays - 1) .. Day(asOf) |-> IF d \in DOMAIN rows THEN rows[d] ELSE 0]

Activated == {u \in SignedUpUsers : firstSeen[u] # Never /\ firstSeen[u] <= signedUp[u] + ActivationDays * DayParts}

ActiveInMonth(asOf) == {u \in SignedUpUsers : lastSeen[u] # Never /\ Month(lastSeen[u]) = Month(asOf)}

MetricsPart(asOf, part) ==
    CASE part = "signups"    -> buildDailySignupSeries(asOf, SignupRows(asOf))
      [] part = "activation" -> [activated |-> Cardinality(Activated), total |-> Cardinality(SignedUpUsers)]
      [] part = "active"     -> Cardinality(ActiveInMonth(asOf))

StartMetrics ==
    /\ request' = [asked |-> TRUE, asOf |-> signupClock, got |-> << >>]
    /\ UNCHANGED <<signupClock, signedUp, firstSeen, lastSeen>>

\* The queries of the Promise.all, in any order.
QueryMetrics ==
    /\ request.asked
    /\ \E part \in {"signups", "activation", "active"} \ DOMAIN request.got :
           request' = [request EXCEPT !.got = [q \in DOMAIN @ \cup {part} |->
                          IF q = part THEN MetricsPart(request.asOf, part) ELSE @[q]]]
    /\ UNCHANGED <<signupClock, signedUp, firstSeen, lastSeen>>

SignupNext == SignupTick \/ StartMetrics \/ QueryMetrics \/ \E u \in Signers : SignUp(u) \/ IsSeen(u)

--------------------------------------------------------------------------------
(* Properties                                                              *)

\* The signup series shows every user who had signed up when it was asked for, on
\* the right day; only its first day may miss those who came earlier that day.
SignupsShown ==
    "signups" \in DOMAIN request.got =>
        \A d \in Day(request.asOf) - (WindowDays - 1) .. Day(request.asOf) :
            LET early == {u \in SignedUpUsers : Day(signedUp[u]) = d /\ signedUp[u] < request.asOf}
                cut == {u \in early : signedUp[u] < request.asOf - (WindowDays - 1) * DayParts}
            IN  /\ d \in DOMAIN request.got["signups"]
                /\ request.got["signups"][d] >= Cardinality(early \ cut)
================================================================================
