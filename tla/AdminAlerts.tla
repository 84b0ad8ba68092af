------------------------------- MODULE AdminAlerts -------------------------------
(***************************************************************************)
(* AdminAlertService (backend/src/alerts/admin-alert.service.ts) for one   *)
(* type and dedupeKey: raise counts and notifies again only after a        *)
(* cooldown, acknowledge closes the alert.  Both load the row, change it   *)
(* and save all of it; a raise notifies after its save, in an await of its *)
(* own, and its process may die in between.                                *)
(***************************************************************************)
EXTENDS Integers

CONSTANTS
    Raisers,       \* raise calls under way at the same time
    Admins,        \* acknowledge calls under way at the same time
    Cooldown,      \* ADMIN_ALERT_COOLDOWN_MINUTES
    MaxAlertTime, MaxRaises, MaxAlertCrashes   \* bounds

ASSUME AlertAssumption ==
    /\ Cooldown \in Nat \ {0} /\ Raisers \cap Admins = {}
    /\ MaxAlertTime \in Nat /\ MaxRaises \in Nat /\ MaxAlertCrashes \in Nat

VARIABLES
    alert,       \* the row; the unique index allows one
    alertClock,
    editing,     \* each caller: its await, the row and version it loaded, and its now
    version,     \* history: saves of the row so far
    raises,      \* raise calls begun so far
    notified,    \* history: the now of each raise whose notification went out
    untold,      \* history: the now of each raise that died before it went out
    alertCrashes,
    overwritten  \* history: some save undid a change made since its load

alertVars == <<alert, alertClock, editing, version, raises, notified, untold, alertCrashes, overwritten>>

NoAlert == [status |-> "none", occurrenceCount |-> 0, lastNotifiedAt |-> 0]
NotEditing == [pc |-> "idle", row |-> NoAlert, version |-> 0, now |-> 0]

AlertInit ==
    /\ alert = NoAlert /\ alertClock = 0 /\ version = 0 /\ raises = 0
    /\ editing = [c \in Raisers \cup Admins |-> NotEditing]
    /\ notified = {} /\ untold = {} /\ alertCrashes = 0 /\ overwritten = FALSE

AlertTick ==
    /\ alertClock < MaxAlertTime
    /\ alertClock' = alertClock + 1
    /\ UNCHANGED <<alert, editing, version, raises, notified, untold, alertCrashes, overwritten>>

LoadAlert(c) ==
    editing' = [editing EXCEPT ![c] = 
        [pc |-> "loaded", row |-> alert, version |-> version, now |-> alertClock]]

SaveAlert(c, row, after) ==
    /\ alert' = row
    /\ version' = version + 1
    /\ overwritten' = (overwritten \/ editing[c].version # version)
    /\ editing' = [editing EXCEPT ![c] = after]
    /\ UNCHANGED <<alertClock, raises, notified, untold, alertCrashes>>

\* findOne, when the value meets the threshold.
RaiseLoad(c) ==
    /\ editing[c].pc = "idle" /\ raises < MaxRaises
    /\ raises' = raises + 1
    /\ LoadAlert(c)
    /\ UNCHANGED <<alert, alertClock, version, notified, untold, alertCrashes, overwritten>>

isCoolingDown(row, now) == now - row.lastNotifiedAt < Cooldown

\* Mutant: every raise starts the cooldown again.
RaiseSliding(c) ==
    /\ c \in Raisers /\ editing[c].pc = "loaded" /\ editing[c].row.status # "none"
    /\ isCoolingDown(editing[c].row, editing[c].now)
    /\ SaveAlert(c, [editing[c].row EXCEPT !.occurrenceCount = @ + 1, !.lastNotifiedAt = editing[c].now],
                 NotEditing)

\* The alert exists and cools down: counted only.
RaiseCooling(c) ==
    /\ c \in Raisers /\ editing[c].pc = "loaded" /\ editing[c].row.status # "none"
    /\ isCoolingDown(editing[c].row, editing[c].now)
    /\ SaveAlert(c, [editing[c].row EXCEPT !.occurrenceCount = @ + 1], NotEditing)

ToNotify(c) == [NotEditing EXCEPT !.pc = "notify", !.now = editing[c].now]

\* The alert is opened again and saved, as notified now.
RaiseReopen(c) ==
    /\ c \in Raisers /\ editing[c].pc = "loaded" /\ editing[c].row.status # "none"
    /\ ~isCoolingDown(editing[c].row, editing[c].now)
    /\ SaveAlert(c, [status |-> "open", lastNotifiedAt |-> editing[c].now,
                     occurrenceCount |-> editing[c].row.occurrenceCount + 1], ToNotify(c))

\* The first one is inserted; the unique index refuses a second insert, and that
\* raise throws.
RaiseCreate(c) ==
    /\ c \in Raisers /\ editing[c].pc = "loaded" /\ editing[c].row.status = "none"
    /\ IF alert.status = "none"
       THEN SaveAlert(c, [status |-> "open", occurrenceCount |-> 1, lastNotifiedAt |-> editing[c].now],
                      ToNotify(c))
       ELSE /\ editing' = [editing EXCEPT ![c] = NotEditing]
            /\ UNCHANGED <<alert, alertClock, version, raises, notified, untold, alertCrashes, overwritten>>

\* To Slack and by mail, whatever becomes of the two requests.
notify(c) ==
    /\ c \in Raisers /\ editing[c].pc = "notify"
    /\ notified' = notified \cup {editing[c].now}
    /\ editing' = [editing EXCEPT ![c] = NotEditing]
    /\ UNCHANGED <<alert, alertClock, version, raises, untold, alertCrashes, overwritten>>

AcknowledgeLoad(c) ==
    /\ editing[c].pc = "idle" /\ alert.status = "open"
    /\ LoadAlert(c)
    /\ UNCHANGED <<alert, alertClock, version, raises, notified, untold, alertCrashes, overwritten>>

acknowledge(c) ==
    /\ c \in Admins /\ editing[c].pc = "loaded"
    /\ SaveAlert(c, [editing[c].row EXCEPT !.status = "acknowledged"], NotEditing)

Telling(callers) == {editing[c].now : c \in {d \in callers : editing[d].pc = "notify"}}

\* The process of these calls dies.
AlertProcessDies(callers) ==
    /\ callers # {} /\ \A c \in callers : editing[c].pc # "idle"
    /\ alertCrashes < MaxAlertCrashes /\ alertCrashes' = alertCrashes + 1
    /\ untold' = untold \cup Telling(callers)
    /\ editing' = [c \in Raisers \cup Admins |-> IF c \in callers THEN NotEditing ELSE editing[c]]
    /\ UNCHANGED <<alert, alertClock, version, raises, notified, overwritten>>

AlertNext ==
    \/ AlertTick
    \/ \E c \in Raisers : RaiseLoad(c) \/ RaiseCooling(c) \/ RaiseReopen(c) \/ RaiseCreate(c) \/ notify(c)
    \/ \E c \in Admins : AcknowledgeLoad(c) \/ acknowledge(c)
    \/ \E callers \in SUBSET (Raisers \cup Admins) : AlertProcessDies(callers)

--------------------------------------------------------------------------------
(* Properties                                                              *)

\* By the now of their raises, two notifications are a cooldown apart, unless a stale
\* save (an acknowledge that overtook a raise) put an earlier lastNotifiedAt back.
NotificationsSpaced ==
    ~overwritten => \A s, t \in notified : s < t => t - s >= Cooldown

\* A raise of a known alert that saves and tells nobody falls in the cooldown of a raise
\* that told, is still to tell, or died between its save and its notification: one such
\* death silences one cooldown, and nothing else silences an alert.
SilenceIsRecent ==
    [][\A c \in Raisers :
          /\ editing[c].pc = "loaded" /\ editing[c].row.status # "none"
          /\ editing'[c].pc = "idle" /\ alertCrashes' = alertCrashes
          => \E t \in notified \cup untold \cup Telling(Raisers) : editing[c].now - t < Cooldown]_alertVars
================================================================================
