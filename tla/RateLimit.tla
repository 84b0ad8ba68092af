-------------------------------- MODULE RateLimit --------------------------------
(***************************************************************************)
(* The sliding window of RateLimitService.checkApiKeyRateLimit             *)
(* (backend/src/auth/rate-limit.service.ts) behind ApiKeyRateLimitGuard,   *)
(* for one key: three Redis commands in a row, admitted or denied, which   *)
(* interleave with those of other requests handled at the same time.       *)
(***************************************************************************)
EXTENDS Integers, FiniteSets, FiniteSetsExt

CONSTANTS
    Slots,         \* requests with this key handled at the same time
    Limit,         \* RATE_LIMITS[role]
    Window,        \* WINDOW_SECONDS
    MaxLatency,    \* seconds a check may take
    MaxRateTime, MaxAdmitted   \* bounds

ASSUME RateAssumption ==
    /\ IsFiniteSet(Slots) /\ Limit \in Nat \ {0} /\ Window \in Nat \ {0} /\ MaxRateTime \in Nat /\ MaxAdmitted \in Nat
    /\ MaxLatency \in Nat /\ MaxLatency < Window

VARIABLES
    rateClock,  \* seconds
    zset,       \* the sorted set: members with their score
    check,      \* the check of each slot, with the now it took at the start
    admitted    \* history: every member ever added

rateVars == <<rateClock, zset, check, admitted>>

NoCheck == [pc |-> "idle", now |-> 0, resetAt |-> 0]
Checking(s) == check[s].pc \in {"trimmed", "full", "counted"}

RateInit ==
    /\ rateClock = 0 /\ zset = {} /\ admitted = {}
    /\ check = [s \in Slots |-> NoCheck]

RateTick ==
    /\ rateClock < MaxRateTime
    /\ \A s \in Slots : Checking(s) => rateClock < check[s].now + MaxLatency
    /\ rateClock' = rateClock + 1
    /\ UNCHANGED <<zset, check, admitted>>

\* zremrangebyscore(key, '-inf', now - WINDOW_SECONDS); the key itself expires
\* no earlier than its last member leaves the window.
Trimmed(now) == {m \in zset : m.score > now - Window}

TrimWindow(s) ==
    /\ ~Checking(s)
    /\ zset' = Trimmed(rateClock)
    /\ check' = [check EXCEPT ![s] = [pc |-> "trimmed", now |-> rateClock, resetAt |-> 0]]
    /\ UNCHANGED <<rateClock, admitted>>

IsFull(count) == count >= Limit

\* zcard.
CountWindow(s) ==
    /\ check[s].pc = "trimmed"
    /\ check' = [check EXCEPT ![s].pc = IF IsFull(Cardinality(zset)) THEN "full" ELSE "counted"]
    /\ UNCHANGED <<rateClock, zset, admitted>>

\* zrange: at the limit the request is denied, and told when the oldest member leaves the
\* window.  A later check may have trimmed members since the count, even all of them.
DenyRequest(s) ==
    LET oldest == IF zset = {} THEN check[s].now ELSE Min({m.score : m \in zset})
    IN  /\ check[s].pc = "full"
        /\ check' = [check EXCEPT ![s].pc = "denied", ![s].resetAt = oldest + Window]
        /\ UNCHANGED <<rateClock, zset, admitted>>

\* zadd with the now of the start.
AdmitRequest(s) ==
    LET member == [score |-> check[s].now, member |-> Cardinality(admitted) + 1]
    IN  /\ check[s].pc = "counted" /\ Cardinality(admitted) < MaxAdmitted
        /\ zset' = zset \cup {member}
        /\ admitted' = admitted \cup {member}
        /\ check' = [check EXCEPT ![s] = NoCheck]
        /\ UNCHANGED rateClock

RateNext ==
    \/ RateTick
    \/ \E s \in Slots : TrimWindow(s) \/ CountWindow(s) \/ DenyRequest(s) \/ AdmitRequest(s)

--------------------------------------------------------------------------------
(* Properties                                                              *)

AdmittedIn(from, to) == {m \in admitted : from < m.score /\ m.score <= to}

\* No window admits more than the limit and one more for every other request
\* that was between its count and its zadd.  A check that started later may trim
\* members the window of an earlier one still holds, so the window is shorter
\* by the time a check takes.
WindowBounded ==
    \A t \in 0 .. MaxRateTime :
        Cardinality(AdmittedIn(t - (Window - MaxLatency), t)) <= Limit + Cardinality(Slots) - 1

\* A request is denied only when the window before it was full, and it is told
\* to come back after now and within a window.
DenialsJustified ==
    \A s \in Slots :
        check[s].pc = "denied" =>
            /\ Cardinality(AdmittedIn(check[s].now - Window, MaxRateTime)) >= Limit
            /\ check[s].now < check[s].resetAt /\ check[s].resetAt <= rateClock + Window
================================================================================
