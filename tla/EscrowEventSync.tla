---------------------------- MODULE EscrowEventSync ----------------------------
(***************************************************************************)
(* SorobanMonitorService.pollEscrowEvents                                  *)
(* (backend/src/stellar/soroban-monitor.service.ts), which copies the      *)
(* events of the escrow contract into the payments table, and              *)
(* PaymentsService.confirmPayment, which writes the same column.           *)
(*                                                                         *)
(* The cursor and the set of processed event ids live in memory, and both  *)
(* move before an event is applied: what a failing save or a page limit    *)
(* drops is not read again.  The property about the rows excuses exactly   *)
(* the payments this can happen to.                                        *)
(***************************************************************************)
EXTENDS Integers, Sequences, SequencesExt

CONSTANTS
    EscrowIds,     \* payments with a row; an event may also name none of them
    ForeignId,     \* an escrow payment id no row has
    EventPage,     \* pagination limit of getEvents, 200
    DedupMax,      \* size of processedEventIds, 10 000
    Confirmers,    \* confirmPayment requests, one call each
    MaxEvents, MaxSyncFaults   \* bounds

ASSUME SyncAssumption ==
    /\ ForeignId \notin EscrowIds
    /\ EventPage \in Nat \ {0} /\ DedupMax \in Nat /\ EventPage <= DedupMax
    /\ MaxEvents \in Nat /\ MaxSyncFaults \in Nat

VARIABLES
    shortPaid,   \* payments whose escrow holds less than amountUsdc
    rows,        \* status of each payment row, "none" before it is created
    escrowLog,   \* events of the contract, oldest first, with their ledger
    closed,      \* the latest closed ledger
    startLedger, \* this.startLedger
    processed,   \* processedEventIds in insertion order
    poll,        \* the poll under way: events of the page still to do, snapshot of the rows
    confirms,    \* confirmPayment requests under way
    syncFaults,  \* awaits that threw and restarts so far
    applied,     \* history: event last applied to each row since the start
    fetched,     \* history: how far getEvents has read the log
    unsure       \* history: rows that may differ from the chain, see above

syncVars == <<shortPaid, rows, escrowLog, closed, startLedger, processed, poll, confirms,
              syncFaults, applied, fetched, unsure>>
chainVars == <<escrowLog, closed, shortPaid>>

Topics == {"deposit", "release", "refund", "expired", "dispute"}

mapTopicToStatus(topic) ==
    CASE topic = "deposit" -> "confirmed"
      [] topic = "release" -> "settled"
      [] topic = "refund"  -> "refunded"
      [] topic = "expired" -> "expired"
      [] topic = "dispute" -> "failed"

Unpolled == [pc |-> "idle", todo |-> {}, snapshot |-> [p \in EscrowIds |-> "none"]]
NoConfirm == [pc |-> "idle", id |-> ForeignId]

SyncInit ==
    /\ rows = [p \in EscrowIds |-> "none"]
    /\ escrowLog = << >> /\ closed = 1 /\ shortPaid \in SUBSET EscrowIds
    /\ startLedger = 0 /\ processed = << >> /\ poll = Unpolled
    /\ confirms = [c \in Confirmers |-> NoConfirm]
    /\ syncFaults = 0
    /\ applied = [p \in EscrowIds |-> 0]
    /\ fetched = 0 /\ unsure = {}

SyncThrows == syncFaults < MaxSyncFaults /\ syncFaults' = syncFaults + 1
PaymentsOf(events) == {escrowLog[e].id : e \in events}

--------------------------------------------------------------------------------
(* The table and the contract                                              *)

CreateRow(p) ==
    /\ rows[p] = "none"
    /\ rows' = [rows EXCEPT ![p] = "pending"]
    /\ UNCHANGED <<chainVars, startLedger, processed, poll, confirms, syncFaults,
                   applied, fetched, unsure>>

\* What the escrow may do after the last event of a payment.
NextTopics(p) ==
    LET past == SelectSeq(escrowLog, LAMBDA e : e.id = p)
    IN  IF past = << >> THEN {"deposit"}
        ELSE CASE Last(past).topic = "deposit" -> {"release", "expired", "dispute"}
               [] Last(past).topic = "dispute" -> {"release", "refund"}
               [] Last(past).topic = "expired" -> {"refund"}
               [] OTHER -> {}

\* The contract emits an event in the ledger that is closing.
EmitEscrowEvent(p, topic) ==
    /\ Len(escrowLog) < MaxEvents
    /\ p \in EscrowIds => rows[p] # "none"
    /\ topic \in NextTopics(p)
    /\ escrowLog' = Append(escrowLog, [id |-> p, topic |-> topic, ledger |-> closed + 1])
    /\ UNCHANGED <<rows, closed, shortPaid, startLedger, processed, poll, confirms, syncFaults,
                   applied, fetched, unsure>>

CloseEscrowLedger ==
    /\ escrowLog # << >> /\ Last(escrowLog).ledger > closed
    /\ closed' = closed + 1
    /\ UNCHANGED <<rows, escrowLog, shortPaid, startLedger, processed, poll, confirms, syncFaults,
                   applied, fetched, unsure>>

--------------------------------------------------------------------------------
(* pollEscrowEvents                                                        *)

\* getEvents: the first EventPage events of closed ledgers from startLedger on.
EventsFrom(start) ==
    {e \in DOMAIN escrowLog : start <= escrowLog[e].ledger /\ escrowLog[e].ledger <= closed}
PageFrom(start) == {e \in EventsFrom(start) : Cardinality({d \in EventsFrom(start) : d < e}) < EventPage}

\* The cursor moves to the latest ledger before anything is applied.  A failed
\* request raises an alert and changes nothing.
PollFetch ==
    /\ poll.pc = "idle"
    /\ LET all == EventsFrom(startLedger)
           page == PageFrom(startLedger)
       IN  /\ page # {}
           /\ startLedger' = closed
           /\ fetched' = Max(page)
           /\ unsure' = unsure \cup PaymentsOf(all \ page)
           /\ poll' = [poll EXCEPT !.pc = "find", !.todo = page]
    /\ UNCHANGED <<rows, chainVars, processed, confirms, syncFaults, applied>>

\* paymentsRepo.find(); an empty table drops the page.
PollFind ==
    /\ poll.pc = "find"
    /\ poll' = IF \A p \in EscrowIds : rows[p] = "none" THEN Unpolled
               ELSE [poll EXCEPT !.pc = "events", !.snapshot = rows]
    /\ UNCHANGED <<rows, chainVars, startLedger, processed, confirms, syncFaults,
                   applied, fetched, unsure>>

IsNew(e) == e \notin Range(processed)

\* The oldest id leaves the set when it is full.
Remember(e) ==
    LET all == Append(processed, e)
    IN  IF Len(all) > DedupMax THEN Tail(all) ELSE all

\* The loop goes through the page from its oldest event on.
Current == Min(poll.todo)
NextEvent == poll' = [poll EXCEPT !.pc = "events", !.todo = @ \ {Current}]

\* Mutant: the loop is left, with return for continue.
SkipRest == poll' = Unpolled

\* An event that was seen before or belongs to no row.
SkipEvent == NextEvent

\* What get_balance answers, compared with amountUsdc in stroops; null when the
\* simulation fails.
queryContractBalance(p) == {IF p \in shortPaid THEN "short" ELSE "enough", "null"}

\* Mutant: the balance is read and not compared.
NeverShort(balance) == FALSE

\* TRUE for a short deposit; an unknown balance lets the deposit pass.
verifyDepositBalance(balance) == balance = "short"

\* The event is applied to the snapshot, or changes nothing there.
ApplyToSnapshot(p, next) ==
    IF poll.snapshot[p] = next THEN NextEvent
    ELSE poll' = [poll EXCEPT !.pc = "save", !.snapshot[p] = next]

\* One event of the page up to the save: an id seen before, an unknown payment,
\* a short deposit and an unchanged status end its handling.
PollEvent ==
    /\ poll.pc = "events" /\ poll.todo # {}
    /\ LET e == Current
           p == escrowLog[e].id
           topic == escrowLog[e].topic
       IN  /\ processed' = IF IsNew(e) THEN Remember(e) ELSE processed
           /\ IF ~IsNew(e) \/ p = ForeignId \/ poll.snapshot[p] = "none"
              THEN SkipEvent /\ UNCHANGED syncFaults
              ELSE \/ /\ topic # "deposit"
                      /\ ApplyToSnapshot(p, mapTopicToStatus(topic)) /\ UNCHANGED syncFaults
                   \/ /\ topic = "deposit"
                      /\ \E balance \in queryContractBalance(p) :
                             /\ IF balance = "null" THEN SyncThrows ELSE UNCHANGED syncFaults
                             /\ IF verifyDepositBalance(balance) THEN NextEvent
                                ELSE ApplyToSnapshot(p, mapTopicToStatus(topic))
    /\ UNCHANGED <<rows, chainVars, startLedger, confirms, applied, fetched, unsure>>

PollSave ==
    /\ poll.pc = "save"
    /\ LET e == Current
           p == escrowLog[e].id
       IN  /\ rows' = [rows EXCEPT ![p] = poll.snapshot[p]]
           /\ applied' = [applied EXCEPT ![p] = e]
    /\ NextEvent
    /\ UNCHANGED <<chainVars, startLedger, processed, confirms, syncFaults, fetched, unsure>>

PollEnd ==
    /\ poll.pc = "events" /\ poll.todo = {}
    /\ poll' = Unpolled
    /\ UNCHANGED <<rows, chainVars, startLedger, processed, confirms, syncFaults,
                   applied, fetched, unsure>>

\* The query, an alert or a save throws: the rest of the page is dropped.
PollThrows ==
    /\ poll.pc # "idle" /\ SyncThrows
    /\ poll' = Unpolled
    /\ unsure' = unsure \cup PaymentsOf(poll.todo)
    /\ UNCHANGED <<rows, chainVars, startLedger, processed, confirms, applied, fetched>>

\* The process restarts: cursor and ids are forgotten, and all is read again.
SyncRestart ==
    /\ SyncThrows
    /\ startLedger' = 0 /\ processed' = << >> /\ poll' = Unpolled
    /\ applied' = [p \in EscrowIds |-> 0] /\ fetched' = 0
    /\ confirms' = [c \in Confirmers |-> NoConfirm]
    /\ UNCHANGED <<rows, chainVars, unsure>>

--------------------------------------------------------------------------------
(* confirmPayment                                                          *)

\* The row is loaded and the contract asked; its answer says which status.
ConfirmAsk(c, p) ==
    /\ confirms[c].pc = "idle" /\ rows[p] # "none"
    /\ \E answer \in {"confirmed", "expired"} :
           confirms' = [confirms EXCEPT ![c] = [pc |-> answer, id |-> p]]
    /\ UNCHANGED <<rows, chainVars, startLedger, processed, poll, syncFaults,
                   applied, fetched, unsure>>

\* The loaded row is saved, whatever the poll has written meanwhile.
ConfirmSave(c) ==
    /\ confirms[c].pc \in {"confirmed", "expired"}
    /\ rows' = [rows EXCEPT ![confirms[c].id] = confirms[c].pc]
    /\ confirms' = [confirms EXCEPT ![c].pc = "done"]
    /\ unsure' = unsure \cup {confirms[c].id}
    /\ UNCHANGED <<chainVars, startLedger, processed, poll, syncFaults, applied, fetched>>

SyncNext ==
    \/ \E p \in EscrowIds : CreateRow(p)
    \/ \E p \in EscrowIds \cup {ForeignId}, t \in Topics : EmitEscrowEvent(p, t)
    \/ CloseEscrowLedger
    \/ PollFetch \/ PollFind \/ PollEvent \/ PollSave \/ PollEnd \/ PollThrows \/ SyncRestart
    \/ \E c \in Confirmers, p \in EscrowIds : ConfirmAsk(c, p)
    \/ \E c \in Confirmers : ConfirmSave(c)

--------------------------------------------------------------------------------
(* Properties                                                              *)

Statuses == {"none", "pending", "confirmed", "settled", "refunded", "expired", "failed"}

\* Since the last start the events of a payment are applied in the order of the
\* chain and none twice, although every poll reads the last ledger again.
AppliedInOrder ==
    [][\A p \in EscrowIds : applied'[p] >= applied[p] \/ fetched' = 0]_syncVars

\* Between polls a row has the status of the last event read for it, except
\* where a save or a page was lost or confirmPayment wrote to the row.
RowsFollowChain ==
    poll.pc = "idle" =>
        \A p \in EscrowIds \ (unsure \cup shortPaid) :
            LET mine == {e \in 1 .. fetched : escrowLog[e].id = p}
            IN  mine # {} => rows[p] = mapTopicToStatus(
                    escrowLog[Max(mine)].topic)

\* A short deposit is not confirmed by the poll as long as balances can be read.
ShortNeverConfirmed ==
    [][\A p \in shortPaid :
          rows[p] # "confirmed" /\ rows'[p] = "confirmed" =>
              syncFaults > 0 \/ \E c \in Confirmers : confirms[c].id = p]_syncVars
================================================================================
