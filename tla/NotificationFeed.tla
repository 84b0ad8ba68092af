----------------------------- MODULE NotificationFeed -----------------------------
(***************************************************************************)
(* The in-app notifications of one merchant: NotificationService           *)
(* (backend/src/notifications).  A client walks through the feed page by   *)
(* page with a cursor, the id of the last row it was given, while          *)
(* notifications arrive, are marked as read and are purged.                *)
(***************************************************************************)
EXTENDS Integers, FiniteSetsExt

CONSTANTS
    Notes,        \* notifications
    PageLimit,    \* rows of a page: min(limit, 100)
    MaxAge,       \* age at which a notification is purged: 30 days
    MaxFeedTime   \* bound

\* Cursors that are no row: of a new walk and of one that has ended.
Top == "top"
End == "end"

ASSUME FeedAssumption ==
    /\ IsFiniteSet(Notes) /\ {Top, End} \cap Notes = {}
    /\ PageLimit \in Nat \ {0} /\ MaxAge \in Nat /\ MaxFeedTime \in Nat

VARIABLES
    feedClock,
    feed,      \* the rows: createdAt and read
    marking,   \* rows that markRead has loaded and not yet saved
    walk,      \* the client: its cursor, what it was shown and how often
    lost       \* history: rows that were purged

feedVars == <<feedClock, feed, marking, walk, lost>>

NoNote == [at |-> -1, read |-> FALSE]
NewWalk == [cursor |-> Top, shown |-> {}, count |-> 0, began |-> {}]
Rows == {n \in Notes : feed[n] # NoNote}

FeedInit ==
    /\ feedClock = 0 /\ feed = [n \in Notes |-> NoNote] /\ marking = {}
    /\ walk = NewWalk /\ lost = {}

FeedTick ==
    /\ feedClock < MaxFeedTime /\ feedClock' = feedClock + 1
    /\ UNCHANGED <<feed, marking, walk, lost>>

\* create
Notify(n) ==
    /\ feed[n] = NoNote /\ n \notin lost
    /\ feed' = [feed EXCEPT ![n] = [at |-> feedClock, read |-> FALSE]]
    /\ UNCHANGED <<feedClock, marking, walk, lost>>

\* findOne of markRead.
LoadNote(n) ==
    /\ n \in Rows
    /\ marking' = marking \cup {[note |-> n, at |-> feed[n].at]}
    /\ UNCHANGED <<feedClock, feed, walk, lost>>

\* save of markRead: inserts the row again when it was purged meanwhile.
SaveRead(loaded) ==
    /\ marking' = marking \ {loaded}
    /\ feed' = [feed EXCEPT ![loaded.note] = [at |-> loaded.at, read |-> TRUE]]
    /\ UNCHANGED <<feedClock, walk, lost>>

markAllRead ==
    /\ feed' = [n \in Notes |-> IF n \in Rows THEN [feed[n] EXCEPT !.read = TRUE] ELSE feed[n]]
    /\ UNCHANGED <<feedClock, marking, walk, lost>>

purgeOldNotifications ==
    LET old == {n \in Rows : feed[n].at < feedClock - MaxAge}
    IN  /\ old # {}
        /\ feed' = [n \in Notes |-> IF n \in old THEN NoNote ELSE feed[n]]
        /\ lost' = lost \cup old
        /\ UNCHANGED <<feedClock, marking, walk>>

\* The rows behind the cursor.  Those of the same time are left out; when the
\* cursor's row is gone the comparison is with NULL and no row is left.
Behind(cursor) ==
    IF cursor = Top THEN Rows
    ELSE {n \in Rows : cursor \in Rows /\ feed[n].at < feed[cursor].at}

Newest(S, k) == {I \in kSubset(k, S) : \A n \in I, m \in S \ I : feed[n].at >= feed[m].at}

\* One page: the newest rows, and the last of them as the next cursor when there
\* are more.  Rows of the same time come in any order.
listForUser ==
    LET rows == Behind(walk.cursor)
        more == Cardinality(rows) > PageLimit
    IN  /\ walk.cursor # End
        /\ \E items \in Newest(rows, IF more THEN PageLimit ELSE Cardinality(rows)) :
             \E next \in IF more THEN {n \in items : \A m \in items : feed[n].at <= feed[m].at} ELSE {End} :
               walk' = [cursor |-> next, shown |-> walk.shown \cup items, count |-> walk.count + Cardinality(items),
                        began |-> IF walk.cursor = Top THEN Rows ELSE walk.began]
        /\ UNCHANGED <<feedClock, feed, marking, lost>>

\* The client begins again.
Restart ==
    /\ walk.cursor = End
    /\ walk' = NewWalk
    /\ UNCHANGED <<feedClock, feed, marking, lost>>

FeedNext ==
    \/ FeedTick \/ markAllRead \/ purgeOldNotifications \/ listForUser \/ Restart
    \/ \E n \in Notes : Notify(n) \/ LoadNote(n)
    \/ \E loaded \in marking : SaveRead(loaded)

--------------------------------------------------------------------------------
(* Properties                                                              *)

\* A walk to the end has shown every notification that was there at its start and
\* was not purged, once, except one that arrived at the same time as another: a
\* purge that takes the cursor's row takes all that is left of the walk with it.
WalkIsComplete ==
    walk.cursor = End =>
        /\ walk.count = Cardinality(walk.shown)
        /\ \A n \in walk.began \ (walk.shown \cup lost) : \E m \in walk.shown : feed[m].at = feed[n].at
================================================================================
