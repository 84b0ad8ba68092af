---------------------------- MODULE NotificationPrefs ----------------------------
(***************************************************************************)
(* The notification preferences of one merchant: NotificationPrefsService  *)
(* (backend/src/notifications).  An update is checked as a whole and then  *)
(* written item by item, without a transaction.                            *)
(***************************************************************************)
EXTENDS Integers, Sequences

CONSTANTS
    Channels, PrefEvents,  \* "in_app" is one of the channels
    PrefUpdates,           \* what callers send: the items of their updates
    MaxPrefFaults          \* bound: database errors

ASSUME PrefAssumption ==
    /\ "in_app" \in Channels /\ MaxPrefFaults \in Nat
    /\ \A c \in DOMAIN PrefUpdates :
           PrefUpdates[c] \in Seq([pair : Channels \X PrefEvents, enabled : BOOLEAN])

VARIABLES
    prefs,       \* notification_preferences: a pair of channel and event, or no row
    updating,    \* per update the index of its next item, and its outcome
    overlapped,  \* history: updates that ran beside another
    prefFaults

prefVars == <<prefs, updating, overlapped, prefFaults>>

Pairs == Channels \X PrefEvents
PrefCallers == DOMAIN PrefUpdates

PrefInit ==
    /\ prefs = << >>
    /\ updating = [c \in PrefCallers |-> [pc |-> "idle", next |-> 1]]
    /\ overlapped = {} /\ prefFaults = 0

Running == {c \in PrefCallers : updating[c].pc = "writing"}

\* in_app cannot be switched off.
Validates(items) == \A k \in DOMAIN items : ~(items[k].pair[1] = "in_app" /\ ~items[k].enabled)

BeginUpdate(c) ==
    /\ updating[c].pc = "idle"
    /\ updating' = [updating EXCEPT ![c].pc = IF Validates(PrefUpdates[c]) THEN "writing" ELSE "refused"]
    /\ overlapped' = IF Running = {} THEN overlapped ELSE overlapped \cup Running \cup {c}
    /\ UNCHANGED <<prefs, prefFaults>>

Upsert(pair, enabled) ==
    prefs' = [p \in DOMAIN prefs \cup {pair} |-> IF p = pair THEN enabled ELSE prefs[p]]

\* insert ... orUpdate of one item; in_app is written as enabled.
UpsertItem(c) ==
    LET item == PrefUpdates[c][updating[c].next]
    IN  /\ updating[c].pc = "writing" /\ updating[c].next <= Len(PrefUpdates[c])
        /\ Upsert(item.pair, item.pair[1] = "in_app" \/ item.enabled)
        /\ updating' = [updating EXCEPT ![c].next = @ + 1]
        /\ UNCHANGED <<overlapped, prefFaults>>

\* The items before stay written.
UpsertThrows(c) ==
    /\ updating[c].pc = "writing" /\ updating[c].next <= Len(PrefUpdates[c])
    /\ prefFaults < MaxPrefFaults /\ prefFaults' = prefFaults + 1
    /\ updating' = [updating EXCEPT ![c].pc = "threw"]
    /\ UNCHANGED <<prefs, overlapped>>

EndUpdate(c) ==
    /\ updating[c].pc = "writing" /\ updating[c].next > Len(PrefUpdates[c])
    /\ updating' = [updating EXCEPT ![c] = [pc |-> "done", next |-> 1]]
    /\ UNCHANGED <<prefs, overlapped, prefFaults>>

\* The caller sends its update again.
SendAgain(c) ==
    /\ updating[c].pc \in {"done", "threw", "refused"}
    /\ updating' = [updating EXCEPT ![c] = [pc |-> "idle", next |-> 1]]
    /\ overlapped' = overlapped \ {c}
    /\ UNCHANGED <<prefs, prefFaults>>

PrefNext ==
    \E c \in PrefCallers : \/ BeginUpdate(c) \/ UpsertItem(c) \/ UpsertThrows(c) \/ EndUpdate(c) \/ SendAgain(c)

\* The matrix a merchant is shown: a pair without a row is enabled.
getPrefs == [p \in Pairs |-> IF p[1] = "in_app" \/ p \notin DOMAIN prefs THEN TRUE ELSE prefs[p]]

\* One pair, as the senders ask for it.
isEnabled(pair) == pair[1] = "in_app" \/ pair \notin DOMAIN prefs \/ prefs[pair]

--------------------------------------------------------------------------------
(* Properties                                                              *)

\* The last item of an update for its pair counts.
LastForPair(items) == {k \in DOMAIN items : \A j \in DOMAIN items : j > k => items[j].pair # items[k].pair}

\* When an update that ran alone ends, its items are in force, for the senders and
\* in the matrix the merchant is shown.
UpdateInForce ==
    [][\A c \in PrefCallers :
          (updating'[c].pc = "done" /\ updating[c].pc = "writing" /\ c \notin overlapped) =>
              \A k \in LastForPair(PrefUpdates[c]) :
                  /\ isEnabled(PrefUpdates[c][k].pair) = PrefUpdates[c][k].enabled
                  /\ getPrefs[PrefUpdates[c][k].pair] = PrefUpdates[c][k].enabled]_prefVars
================================================================================
