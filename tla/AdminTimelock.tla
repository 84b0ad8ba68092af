----------------------------- MODULE AdminTimelock -----------------------------
(***************************************************************************)
(* The contract admin_timelock (dabdub_contracts/contracts/admin_timelock/ *)
(* src/lib.rs): the admin schedules parameter changes and applies or       *)
(* cancels each of them.  A change is known by the hash of a counter,      *)
(* modelled by the counter.                                                *)
(***************************************************************************)
EXTENDS SorobanLedger

CONSTANTS
    TimelockAdmin,      \* DataKey::Admin
    MinDelayLedgers,    \* MIN_DELAY_LEDGERS
    Delays,             \* delays asked for, too short ones included
    Params, Values,     \* parameter names and values
    MaxChanges          \* bound on the number of changes

ASSUME TimelockAssumption ==
    /\ MinDelayLedgers \in Nat /\ Delays \subseteq Nat /\ MaxChanges \in Nat

VARIABLES
    changeCounter,   \* DataKey::Counter
    changes,         \* DataKey::Change(id), for the ids handed out so far
    delayOf,         \* history: the delay each change was scheduled with
    events           \* history: ledger and content of each change_applied event

timelockVars == <<changeCounter, changes, delayOf, events>>

Change == [param : Params, value : Values, scheduled_at : Nat, execute_after : Nat,
           status : {"Pending", "Applied", "Cancelled"}]

TimelockInit ==
    /\ changeCounter = 0
    /\ changes = << >>
    /\ delayOf = << >>
    /\ events = {}

require_timelock_admin(caller) == caller = TimelockAdmin
ChangePending(c) == c \in DOMAIN changes /\ changes[c].status = "Pending"

\* Mutant: the id is the counter before it is increased, and the first entry
\* is overwritten.
schedule_over_first(caller, param, value, delay) ==
    /\ require_timelock_admin(caller) /\ delay >= MinDelayLedgers
    /\ changeCounter < MaxChanges
    /\ changeCounter' = changeCounter + 1
    /\ changes' = [c \in 1 .. 1 |-> [param |-> param, value |-> value, scheduled_at |-> ledger,
                                     execute_after |-> SatAdd(ledger, delay),
                                     status |-> "Pending"]]
    /\ delayOf' = [c \in 1 .. 1 |-> delay]
    /\ UNCHANGED events

schedule_change(caller, param, value, delay) ==
    /\ require_timelock_admin(caller)
    /\ delay >= MinDelayLedgers
    /\ changeCounter < MaxChanges
    /\ changeCounter' = changeCounter + 1
    /\ changes' = [c \in 1 .. changeCounter' |->
           IF c = changeCounter'
           THEN [param |-> param, value |-> value, scheduled_at |-> ledger,
                 execute_after |-> SatAdd(ledger, delay), status |-> "Pending"]
           ELSE changes[c]]
    /\ delayOf' = [c \in 1 .. changeCounter' |->
           IF c = changeCounter' THEN delay ELSE delayOf[c]]
    /\ UNCHANGED events

\* Mutant: the delay may be cut short by one ledger.
apply_early(caller, c) ==
    /\ require_timelock_admin(caller) /\ ChangePending(c)
    /\ ledger + 1 >= changes[c].execute_after
    /\ changes' = [changes EXCEPT ![c].status = "Applied"]
    /\ events' = events \cup {[id |-> c, at |-> ledger]}
    /\ UNCHANGED <<changeCounter, delayOf>>

apply_change(caller, c) ==
    /\ require_timelock_admin(caller)
    /\ ChangePending(c)
    /\ ledger >= changes[c].execute_after
    /\ changes' = [changes EXCEPT ![c].status = "Applied"]
    /\ events' = events \cup {[id |-> c, at |-> ledger]}
    /\ UNCHANGED <<changeCounter, delayOf>>

cancel_change(caller, c) ==
    /\ require_timelock_admin(caller)
    /\ ChangePending(c)
    /\ changes' = [changes EXCEPT ![c].status = "Cancelled"]
    /\ UNCHANGED <<changeCounter, delayOf, events>>

TimelockNext ==
    \E caller \in Accounts :
        \/ \E p \in Params, v \in Values, d \in Delays : schedule_change(caller, p, v, d)
        \/ \E c \in 1 .. MaxChanges : apply_change(caller, c) \/ cancel_change(caller, c)

--------------------------------------------------------------------------------
\* A change takes effect at most once, never after it was cancelled, and not
\* before the delay it was scheduled with is over (near the top of the u32
\* range the saturated deadline is earlier).
AppliedOnceAfterDelay ==
    /\ \A e \in events :
          /\ e.id \in DOMAIN changes /\ changes[e.id].status = "Applied"
          /\ e.at >= SatAdd(changes[e.id].scheduled_at, delayOf[e.id])
    /\ \A e, f \in events : e.id = f.id => e = f

\* What was scheduled is what is applied: scheduling, applying and cancelling
\* other changes never rewrites a change, and a finished one stays as it is.
ChangeStep(c) ==
    c \in DOMAIN changes =>
        /\ c \in DOMAIN changes'
        /\ \A f \in {"param", "value", "scheduled_at", "execute_after"} :
               changes'[c][f] = changes[c][f]
        /\ changes[c].status # "Pending" => changes'[c] = changes[c]
ChangesKept == [][\A c \in 1 .. MaxChanges : ChangeStep(c)]_timelockVars
================================================================================
