--------------------------------- MODULE FeeCache ---------------------------------
(***************************************************************************)
(* Values cached in Redis by CacheService.getOrSet: the platform fees,     *)
(* which updateGlobalFee changes and then deletes from the cache, and      *)
(* figures that only expire (live analytics, merchant metrics).  A read    *)
(* that missed may store what it fetched after the value has changed.      *)
(***************************************************************************)
EXTENDS Integers, Sequences

CONSTANTS
    CacheReaders, Updaters, \* requests under way at the same time
    Ttl,                    \* ttlSeconds
    MaxRead,                \* seconds between a miss and the set
    MaxCacheTime, MaxUpdates, MaxCacheFaults   \* bounds

ASSUME CacheAssumption ==
    /\ Ttl \in Nat \ {0} /\ MaxRead \in Nat
    /\ MaxCacheTime \in Nat /\ MaxUpdates \in Nat /\ MaxCacheFaults \in Nat

VARIABLES
    cacheClock,
    expiresOnly, \* the value at hand is not deleted when it changes
    source,      \* its version in the database
    replacedAt,  \* history: when each version but the last was replaced
    cached,      \* Redis: version, expiry, and whether it was current when stored
    reading,     \* getOrSet of each reader
    updating,    \* updateGlobalFee of each updater
    feeHistory,  \* fee_history: previous and new value
    cacheFaults

cacheVars == <<cacheClock, expiresOnly, source, replacedAt, cached, reading, updating, feeHistory, cacheFaults>>

NoEntry == [version |-> 0, until |-> 0, fresh |-> TRUE]
NotReading == [pc |-> "idle", version |-> 0, since |-> 0]
NotUpdating == [pc |-> "idle", previous |-> 0, new |-> 0]

CacheInit ==
    /\ cacheClock = 0 /\ source = 1 /\ replacedAt = << >> /\ cached = NoEntry
    /\ expiresOnly \in BOOLEAN
    /\ reading = [r \in CacheReaders |-> NotReading]
    /\ updating = [u \in Updaters |-> NotUpdating]
    /\ feeHistory = {} /\ cacheFaults = 0

Present == cached.version # 0 /\ cacheClock < cached.until

CacheTick ==
    /\ cacheClock < MaxCacheTime
    /\ \A r \in CacheReaders : reading[r].pc # "idle" => cacheClock < reading[r].since + MaxRead
    /\ cacheClock' = cacheClock + 1
    /\ UNCHANGED <<expiresOnly, source, replacedAt, cached, reading, updating, feeHistory, cacheFaults>>

\* get misses (a hit returns the entry and changes nothing).
GetMisses(r) ==
    /\ reading[r].pc = "idle" /\ ~Present
    /\ reading' = [reading EXCEPT ![r] = [pc |-> "fetch", version |-> 0, since |-> cacheClock]]
    /\ UNCHANGED <<cacheClock, expiresOnly, source, replacedAt, cached, updating, feeHistory, cacheFaults>>

\* fetchFn: the fees of getGlobalFees or the figures of getLiveAnalytics.
Fetch(r) ==
    /\ reading[r].pc = "fetch"
    /\ reading' = [reading EXCEPT ![r].pc = "set", ![r].version = source]
    /\ UNCHANGED <<cacheClock, expiresOnly, source, replacedAt, cached, updating, feeHistory, cacheFaults>>

Expiry == cacheClock + Ttl

\* set with EX, fresh or not.
Store(r) ==
    /\ reading[r].pc = "set"
    /\ cached' = [version |-> reading[r].version, until |-> Expiry, fresh |-> reading[r].version = source]
    /\ reading' = [reading EXCEPT ![r] = NotReading]
    /\ UNCHANGED <<cacheClock, expiresOnly, source, replacedAt, updating, feeHistory, cacheFaults>>

\* updateGlobalFee loads the row and saves the new rate; values that only expire
\* change by other code, without a trace here.
UpdateLoad(u) ==
    /\ updating[u].pc = "idle" /\ ~expiresOnly
    /\ updating' = [updating EXCEPT ![u] = [pc |-> "save", previous |-> source, new |-> 0]]
    /\ UNCHANGED <<cacheClock, expiresOnly, source, replacedAt, cached, reading, feeHistory, cacheFaults>>

Replace ==
    /\ source <= MaxUpdates
    /\ source' = source + 1
    /\ replacedAt' = Append(replacedAt, cacheClock)

UpdateSave(u) ==
    /\ updating[u].pc = "save"
    /\ Replace
    /\ updating' = [updating EXCEPT ![u].pc = "del", ![u].new = source + 1]
    /\ UNCHANGED <<cacheClock, expiresOnly, cached, reading, feeHistory, cacheFaults>>

SourceChanges ==
    /\ expiresOnly
    /\ Replace
    /\ UNCHANGED <<cacheClock, expiresOnly, cached, reading, updating, feeHistory, cacheFaults>>

UpdateDel(u) ==
    /\ updating[u].pc = "del"
    /\ cached' = NoEntry
    /\ updating' = [updating EXCEPT ![u].pc = "record"]
    /\ UNCHANGED <<cacheClock, expiresOnly, source, replacedAt, reading, feeHistory, cacheFaults>>

recordFeeHistory(u) ==
    /\ updating[u].pc = "record"
    /\ feeHistory' = feeHistory \cup {[previous |-> updating[u].previous, new |-> updating[u].new]}
    /\ updating' = [updating EXCEPT ![u] = NotUpdating]
    /\ UNCHANGED <<cacheClock, expiresOnly, source, replacedAt, cached, reading, cacheFaults>>

\* Redis or the database fails: the update answers with an error.
UpdateFails(u) ==
    /\ updating[u].pc # "idle" /\ cacheFaults < MaxCacheFaults
    /\ updating' = [updating EXCEPT ![u] = NotUpdating] /\ cacheFaults' = cacheFaults + 1
    /\ UNCHANGED <<cacheClock, expiresOnly, source, replacedAt, cached, reading, feeHistory>>

flushCache ==
    /\ cached' = NoEntry
    /\ UNCHANGED <<cacheClock, expiresOnly, source, replacedAt, reading, updating, feeHistory, cacheFaults>>

CacheNext ==
    \/ CacheTick \/ flushCache
    \/ \E r \in CacheReaders : Fetch(r) \/ Store(r) \/ GetMisses(r)
    \/ \E u \in Updaters : UpdateSave(u) \/ UpdateDel(u) \/ recordFeeHistory(u) \/ UpdateFails(u) \/ UpdateLoad(u)
    \/ SourceChanges

--------------------------------------------------------------------------------
(* Properties                                                              *)

\* A read served from the cache is older than the database by at most the time to
\* live and the time a miss takes, whatever races with the deletion.
BoundedStaleness ==
    (Present /\ cached.version < source) =>
        cacheClock - replacedAt[cached.version] < Ttl + MaxRead + 1

\* Where changes delete the value from the cache, an entry that was current when
\* it was stored is outdated only while the update that outdated it has yet to
\* delete it, or after that failed.
NoQuietStale ==
    (~expiresOnly /\ Present /\ cached.fresh /\ cached.version < source /\ cacheFaults = 0) =>
        \E u \in Updaters : updating[u].pc = "del"

\* Every change of a fee is in the history once its update is done, with the
\* value it wrote.
HistoryIsComplete ==
    (~expiresOnly /\ cacheFaults = 0) =>
        \A v \in 2 .. source :
            \/ \E h \in feeHistory : h.new = v /\ h.previous < v
            \/ \E u \in Updaters : updating[u].new = v
================================================================================
