------------------------------- MODULE MCServices -------------------------------
(***************************************************************************)
(* The services of the backend that work on the database, the cache and the*)
(* clock.  They share no state but the tables of the reports and their     *)
(* exports, so each behaviour runs one of them, chosen at the start, and   *)
(* the others stay as they were initialised.                               *)
(***************************************************************************)
EXTENDS EscrowEventSync, AnalyticsExport, Analytics, MerchantSignups, MerchantAccounts, FeeCache,
    Authentication, Groups, RateLimit, AdminAlerts, NotificationFeed, DailyBackup, TLC

VARIABLE active   \* the component that runs

mcRowDay == [x \in Payments |-> IF x = "p1" THEN 9 ELSE 12]
mcRowUsd == [x \in Payments \cup Settlements |-> CASE x = "p1" -> 7 [] x = "p2" -> 15 [] OTHER -> 4]
mcRowNetwork == [x \in Payments |-> IF x = "p1" THEN "stellar" ELSE "base"]
mcRowMerchant == [x \in Payments \cup Settlements |-> IF x = "s1" THEN "m2" ELSE "m1"]
mcMonthStarts == <<1, 4, 6, 9, 12, 14, 17>>
mcBulkIds == <<"a1", "a1">>

Init ==
    /\ active \in {"escrowSync", "export", "analytics", "signups", "accounts", "fees", "sessions", "totp", "groups", "rate", "alerts", "feed", "backup"}
    /\ SyncInit
    /\ ExportInit
    /\ SignupInit
    /\ AccountInit
    /\ CacheInit
    /\ SessionInit
    /\ TotpInit
    /\ GroupsInit
    /\ RateInit
    /\ AlertInit
    /\ FeedInit
    /\ BackupInit
    /\ active # "escrowSync" => shortPaid = {}
    /\ active # "totp" => secretBytes = <<90>>
    /\ active # "fees" => expiresOnly

Next ==
    \/ /\ active = "escrowSync" /\ SyncNext
       /\ UNCHANGED <<active, exportVars, analyticsVars, signupVars, accountVars, cacheVars, sessionVars,
                      totpVars, groupVars, rateVars, alertVars, feedVars, backupVars>>
    \/ /\ active = "export" /\ ExportNext
       /\ UNCHANGED <<active, syncVars, signupVars, accountVars, cacheVars, sessionVars, totpVars, groupVars,
                      rateVars, alertVars, feedVars, backupVars>>
    \/ /\ active = "analytics" /\ AnalyticsNext
       /\ UNCHANGED <<active, exportRow, exportJob, links, lastToken, exportFaults, syncVars, signupVars,
                      accountVars, cacheVars, sessionVars, totpVars, groupVars, rateVars, alertVars, feedVars,
                      backupVars>>
    \/ /\ active = "signups" /\ SignupNext
       /\ UNCHANGED <<active, syncVars, exportVars, analyticsVars, accountVars, cacheVars, sessionVars, totpVars,
                      groupVars, rateVars, alertVars, feedVars, backupVars>>
    \/ /\ active = "accounts" /\ AccountNext
       /\ UNCHANGED <<active, syncVars, exportVars, analyticsVars, signupVars, cacheVars, sessionVars, totpVars,
                      groupVars, rateVars, alertVars, feedVars, backupVars>>
    \/ /\ active = "fees" /\ CacheNext
       /\ UNCHANGED <<active, syncVars, exportVars, analyticsVars, signupVars, accountVars, sessionVars, totpVars,
                      groupVars, rateVars, alertVars, feedVars, backupVars>>
    \/ /\ active = "sessions" /\ SessionNext
       /\ UNCHANGED <<active, syncVars, exportVars, analyticsVars, signupVars, accountVars, cacheVars, totpVars,
                      groupVars, rateVars, alertVars, feedVars, backupVars>>
    \/ /\ active = "totp" /\ TotpNext
       /\ UNCHANGED <<active, syncVars, exportVars, analyticsVars, signupVars, accountVars, cacheVars,
                      sessionVars, groupVars, rateVars, alertVars, feedVars, backupVars>>
    \/ /\ active = "groups" /\ GroupsNext
       /\ UNCHANGED <<active, syncVars, exportVars, analyticsVars, signupVars, accountVars, cacheVars,
                      sessionVars, totpVars, rateVars, alertVars, feedVars, backupVars>>
    \/ /\ active = "rate" /\ RateNext
       /\ UNCHANGED <<active, syncVars, exportVars, analyticsVars, signupVars, accountVars, cacheVars,
                      sessionVars, totpVars, groupVars, alertVars, feedVars, backupVars>>
    \/ /\ active = "alerts" /\ AlertNext
       /\ UNCHANGED <<active, syncVars, exportVars, analyticsVars, signupVars, accountVars, cacheVars,
                      sessionVars, totpVars, groupVars, rateVars, feedVars, backupVars>>
    \/ /\ active = "feed" /\ FeedNext
       /\ UNCHANGED <<active, syncVars, exportVars, analyticsVars, signupVars, accountVars, cacheVars,
                      sessionVars, totpVars, groupVars, rateVars, alertVars, backupVars>>
    \/ /\ active = "backup" /\ BackupNext
       /\ UNCHANGED <<active, syncVars, exportVars, analyticsVars, signupVars, accountVars, cacheVars,
                      sessionVars, totpVars, groupVars, rateVars, alertVars, feedVars>>

vars == <<active, syncVars, exportVars, analyticsVars, signupVars, accountVars, cacheVars,
          sessionVars, totpVars, groupVars, rateVars, alertVars, feedVars, backupVars>>

Spec == Init /\ [][Next]_vars
---------------------------------------------------------------------------------
\* Figures shown side by side agree: the parts of a report with its total, a period
\* with the one before it, a change with its percentage, the sections of an export in
\* their days, and every user signed up is in a series.
FiguresAgree ==
    /\ ReportsAddUp /\ PeriodsAdjoin /\ ChangeIsExact
    /\ SectionsAgree /\ SignupsShown

\* What Redis or a row held a moment ago is relied on within bounds only: cached
\* fees and sessions, the window of the rate limit, the cooldown of an alert.
StaleWithinBounds ==
    /\ BoundedStaleness /\ NoQuietStale /\ RevokedRefused
    /\ WindowBounded /\ DenialsJustified
    /\ NotificationsSpaced

\* Work in several writes leaves a record that is true and complete, whichever of
\* them fails: fee history, bulk changes, exports, the feed, backups.
RecordsComplete ==
    /\ HistoryIsComplete /\ BulkReportsTruth
    /\ AnnouncedLinkWorks /\ WalkIsComplete
    /\ CompletedMeansDone /\ FailuresAlerted

\* The text of a secret can be typed back, and a code works for its step and the
\* one on each side.
SecondFactorWorks == SecretRoundTrips /\ CodesLastAStep

\* The polls of the escrow apply events in order, and confirm no short deposit.
PollsApplySafely == AppliedInOrder /\ ShortNeverConfirmed

\* A limit is run over by what overlapped or died only, one for one: the size of a
\* group by joins that overlapped, the silence of an alert by raises that died before
\* they told; the newest backup is pruned by none.
LimitsHold == CapacityKept /\ SilenceIsRecent /\ NewestBackupKept
=================================================================================
