------------------------------ MODULE EventIndexer ------------------------------
(***************************************************************************)
(* SorobanEventIndexer.pollEvents                                          *)
(* (backend/src/stellar/soroban-event-indexer.service.ts): every 5 s each  *)
(* backend instance reads the contract's events behind a cursor all        *)
(* instances share in the cache, page by page, and emits each one or puts  *)
(* it on the dead letter queue.                                            *)
(***************************************************************************)
EXTENDS Integers, Sequences, FiniteSetsExt

CONSTANTS
    Indexers,      \* backend instances
    Blocks,        \* what a ledger may hold: sequences of event kinds
    IndexPage,     \* PAGE_LIMIT
    MaxLedger, MaxIndexFaults   \* bounds

EventKinds == {"known", "malformed", "other"}

ASSUME IndexerAssumption ==
    /\ Blocks \subseteq Seq(EventKinds)
    /\ IndexPage \in Nat \ {0} /\ MaxLedger \in Nat /\ MaxIndexFaults \in Nat

VARIABLES
    contractLog,  \* events of the contract with kind and ledger, oldest first
    ledger,       \* latest closed ledger
    ledgerCursor, \* CURSOR_KEY in the cache, 0 when missing
    cycle,        \* the poll of each instance; idle iff its polling flag is off
    indexFaults,  \* awaits that threw, crashes and cache losses so far
    handled       \* history: events emitted or dead-lettered

indexVars == <<contractLog, ledger, ledgerCursor, cycle, indexFaults, handled>>

IdleCycle == [pc |-> "idle", last |-> 0, seen |-> 0, after |-> 0, todo |-> {}, full |-> FALSE]

IndexInit ==
    /\ contractLog = << >> /\ ledger = 0 /\ ledgerCursor = 0
    /\ cycle = [i \in Indexers |-> IdleCycle]
    /\ indexFaults = 0 /\ handled = {}

IndexFault == indexFaults < MaxIndexFaults /\ indexFaults' = indexFaults + 1

\* A ledger closes with all its events.
CloseBlock(block) ==
    /\ ledger < MaxLedger
    /\ ledger' = ledger + 1
    /\ contractLog' = contractLog \o [k \in DOMAIN block |-> [kind |-> block[k], ledger |-> ledger + 1]]
    /\ UNCHANGED <<ledgerCursor, cycle, indexFaults, handled>>

\* startLedger is the ledger after the cursor.
StartsAfter(e, last) == contractLog[e].ledger > last

\* The polling flag lets an instance start only when its last poll has ended.
PollStart(i) ==
    /\ cycle[i].pc = "idle"
    /\ cycle' = [cycle EXCEPT ![i] = [IdleCycle EXCEPT
                     !.pc = "fetch", !.last = ledgerCursor, !.seen = ledgerCursor]]
    /\ UNCHANGED <<contractLog, ledger, ledgerCursor, indexFaults, handled>>

\* getEvents: the first page starts behind the cursor, the next ones behind the
\* paging token of the last event read.
Unread(i) == {e \in DOMAIN contractLog : e > cycle[i].after /\ StartsAfter(e, cycle[i].last)}
PageOf(unread) == {e \in unread : Cardinality({d \in unread : d < e}) < IndexPage}

FetchPage(i) ==
    /\ cycle[i].pc = "fetch"
    /\ LET page == PageOf(Unread(i))
       IN  cycle' = [cycle EXCEPT ![i].pc = IF page = {} THEN "save" ELSE "apply",
                                  ![i].seen = IF @ < ledger THEN ledger ELSE @,
                                  ![i].todo = page,
                                  ![i].full = Cardinality(page) = IndexPage]
    /\ UNCHANGED <<contractLog, ledger, ledgerCursor, indexFaults, handled>>

\* The events of a page are taken oldest first.
NextEvent(i) == Min(cycle[i].todo)
Shift(i) == cycle' = [cycle EXCEPT ![i].after = NextEvent(i), ![i].todo = @ \ {NextEvent(i)}]

\* An event with an unknown topic is skipped (parseEvent returns null).
SkipEvent(i) ==
    /\ cycle[i].pc = "apply" /\ cycle[i].todo # {}
    /\ contractLog[NextEvent(i)].kind = "other"
    /\ Shift(i)
    /\ UNCHANGED <<contractLog, ledger, ledgerCursor, indexFaults, handled>>

\* emitAsync took the event, or it is malformed or a listener threw and the
\* dead letter queue took it.
HandleEvent(i) ==
    /\ cycle[i].pc = "apply" /\ cycle[i].todo # {}
    /\ contractLog[NextEvent(i)].kind # "other"
    /\ handled' = handled \cup {NextEvent(i)}
    /\ Shift(i)
    /\ UNCHANGED <<contractLog, ledger, ledgerCursor, indexFaults>>

\* Mutant: pages behind a full one are not read.
StopAfterPage(i) ==
    /\ cycle[i].pc = "apply" /\ cycle[i].todo = {}
    /\ cycle' = [cycle EXCEPT ![i].pc = "save"]
    /\ UNCHANGED <<contractLog, ledger, ledgerCursor, indexFaults, handled>>

\* A full page is followed by another.
PageDone(i) ==
    /\ cycle[i].pc = "apply" /\ cycle[i].todo = {}
    /\ cycle' = [cycle EXCEPT ![i].pc = IF cycle[i].full THEN "fetch" ELSE "save"]
    /\ UNCHANGED <<contractLog, ledger, ledgerCursor, indexFaults, handled>>

\* cache.set, only when the poll saw a later ledger than it started from.
SaveCursor(i) ==
    /\ cycle[i].pc = "save"
    /\ ledgerCursor' = IF cycle[i].seen > cycle[i].last THEN cycle[i].seen ELSE ledgerCursor
    /\ cycle' = [cycle EXCEPT ![i] = IdleCycle]
    /\ UNCHANGED <<contractLog, ledger, indexFaults, handled>>

\* A request, the cache or the dead letter queue fails, or the process dies: the
\* polling flag is off again and the cursor stays where it was.
PollFails(i) ==
    /\ cycle[i].pc # "idle" /\ IndexFault
    /\ cycle' = [cycle EXCEPT ![i] = IdleCycle]
    /\ UNCHANGED <<contractLog, ledger, ledgerCursor, handled>>

\* The key expires (CURSOR_TTL_SECONDS) or an admin flushes the cache.
CursorLost ==
    /\ ledgerCursor > 0 /\ IndexFault
    /\ ledgerCursor' = 0
    /\ UNCHANGED <<contractLog, ledger, cycle, handled>>

IndexStep(i) == \/ PollStart(i) \/ FetchPage(i) \/ SkipEvent(i) \/ HandleEvent(i)
                \/ PageDone(i) \/ SaveCursor(i)

IndexNext ==
    \/ \E b \in Blocks : CloseBlock(b)
    \/ \E i \in Indexers : IndexStep(i) \/ PollFails(i)
    \/ CursorLost

--------------------------------------------------------------------------------
(* Properties                                                              *)

\* At-least-once: the shared cursor never passes an event that no instance has
\* emitted or dead-lettered, whichever poll fails, dies or overlaps another's.
NothingSkipped ==
    \A e \in DOMAIN contractLog :
        contractLog[e].ledger <= ledgerCursor => e \in handled \/ contractLog[e].kind = "other"

\* Every event of the contract is handled in the end.
EventsAreHandled ==
    \A e \in 1 .. MaxLedger * Max({Len(b) : b \in Blocks}) :
        (e \in DOMAIN contractLog /\ contractLog[e].kind # "other") ~> e \in handled
================================================================================
