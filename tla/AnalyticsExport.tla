----------------------------- MODULE AnalyticsExport -----------------------------
(***************************************************************************)
(* The PDF exports of AnalyticsExportService (backend/src/analytics).  A   *)
(* request saves a row and queues a Bull job, the job builds the report,   *)
(* stores it under a fresh download token and mails the link; Bull runs a  *)
(* job again whose worker died.  The report reads its volumes through      *)
(* AnalyticsService and its settlements with a range of its own, each at   *)
(* the day it then is.  Figures and layout are left out.                   *)
(***************************************************************************)
EXTENDS Analytics, SequencesExt

CONSTANTS
    Exports,          \* ids of export rows
    MaxExportFaults   \* bound: crashes, and errors of the database or a queue

ASSUME ExportAssumption == MaxExportFaults \in Nat

VARIABLES
    exportRow,     \* analytics_exports
    exportJob,     \* the Bull job of a row, with the record its worker holds
    links,         \* the tokens mailed for a row
    lastToken,     \* tokens are random: a counter
    exportFaults

exportVars == <<today, exportRow, exportJob, links, lastToken, exportFaults>>

NoRange == [start |-> 0, endExclusive |-> 0, valid |-> FALSE, last |-> 0]
NoRow == [status |-> "none", period |-> "daily", dateFrom |-> None, dateTo |-> None,
          downloadToken |-> 0, expiresAt |-> 0, file |-> [volume |-> NoRange, settlements |-> NoRange]]
NoExportJob == [pc |-> "none", record |-> NoRow, since |-> 0]

ExportInit ==
    /\ AnalyticsInit
    /\ exportRow = [e \in Exports |-> NoRow] /\ exportJob = [e \in Exports |-> NoExportJob]
    /\ links = [e \in Exports |-> << >>] /\ lastToken = 0 /\ exportFaults = 0

ExportFault == exportFaults < MaxExportFaults /\ exportFaults' = exportFaults + 1
JobGoes(e, from, to) == exportJob[e].pc = from /\ exportJob' = [exportJob EXCEPT ![e].pc = to]
Report(e) == exportJob[e].record.file

\* Midnight.
ExportDay ==
    /\ NewDay
    /\ UNCHANGED <<exportRow, exportJob, links, lastToken, exportFaults>>

\* The dates are only read by the job.
requestExport(e) ==
    \E period \in {"daily", "monthly"}, from, to \in QueryDays \cup {None} :
        /\ exportRow[e] = NoRow
        /\ exportRow' = [exportRow EXCEPT ![e] =
               [NoRow EXCEPT !.status = "queued", !.period = period, !.dateFrom = from, !.dateTo = to]]
        /\ exportJob' = [exportJob EXCEPT ![e].pc = "adding"]
        /\ UNCHANGED <<today, links, lastToken, exportFaults>>

\* exportQueue.add, which may throw and leave a row no job will take.
AddExportJob(e) ==
    \/ JobGoes(e, "adding", "waiting") /\ UNCHANGED <<today, exportRow, links, lastToken, exportFaults>>
    \/ JobGoes(e, "adding", "lost") /\ ExportFault /\ UNCHANGED <<today, exportRow, links, lastToken>>

\* The worker loads the row and saves it as PROCESSING, outside the try.
StartExport(e) ==
    /\ exportJob[e].pc = "waiting"
    /\ exportRow' = [exportRow EXCEPT ![e].status = "processing"]
    /\ exportJob' = [exportJob EXCEPT ![e] =
           [pc |-> "volume", record |-> [exportRow[e] EXCEPT !.status = "processing"], since |-> today]]
    /\ UNCHANGED <<today, links, lastToken, exportFaults>>

\* buildMetrics: analyticsService.getVolume, which refuses an inverted range.
ReadVolume(e) ==
    LET r == exportJob[e].record
        range == resolveVolumeRange(r.period, r.dateFrom, r.dateTo)
    IN  /\ exportJob[e].pc = "volume"
        /\ exportJob' = [exportJob EXCEPT ![e].pc = IF range.valid THEN "settlements" ELSE "threw",
                                          ![e].record.file.volume = range, ![e].since = today]
        /\ UNCHANGED <<today, exportRow, links, lastToken, exportFaults>>

\* The service's own copy of the window.
resolveRange(period, from, to) ==
    LET end == IF to # None THEN to ELSE today
        start == IF from # None THEN from ELSE addUtcDays(end, 1 - DefaultDays)
        endMonth == startOfUtcMonth(end)
        startMonth == IF from # None THEN startOfUtcMonth(from) ELSE addUtcMonths(endMonth, 1 - DefaultMonths)
    IN  IF period = "daily"
        THEN [start |-> start, endExclusive |-> addUtcDays(end, 1), valid |-> start <= end, last |-> end]
        ELSE [start |-> startMonth, endExclusive |-> addUtcMonths(endMonth, 1),
              valid |-> startMonth <= endMonth, last |-> endMonth]

\* getSettlementSummary, at a later moment.
ReadSettlements(e) ==
    LET r == exportJob[e].record
        range == resolveRange(r.period, r.dateFrom, r.dateTo)
    IN  /\ exportJob[e].pc = "settlements"
        /\ exportJob' = [exportJob EXCEPT ![e].pc = IF range.valid THEN "save" ELSE "threw",
                                          ![e].record.file.settlements = range]
        /\ UNCHANGED <<today, exportRow, links, lastToken, exportFaults>>

\* The document is built and saved under a new token that lives for a day.
SaveReady(e) ==
    LET ready == [exportJob[e].record EXCEPT !.status = "ready", !.expiresAt = today + 1,
                                             !.downloadToken = lastToken + 1]
    IN  /\ exportJob[e].pc = "save"
        /\ lastToken' = lastToken + 1
        /\ exportRow' = [exportRow EXCEPT ![e] = ready]
        /\ exportJob' = [exportJob EXCEPT ![e].pc = "mail", ![e].record = ready]
        /\ UNCHANGED <<today, links, exportFaults>>

\* emailService.queue, then the job is complete.
MailLink(e) ==
    /\ JobGoes(e, "mail", "completed")
    /\ links' = [links EXCEPT ![e] = Append(@, exportJob[e].record.downloadToken)]
    /\ UNCHANGED <<today, exportRow, lastToken, exportFaults>>

\* A read, the save or the mail queue throws.
ExportThrows(e) ==
    /\ exportJob[e].pc \in {"volume", "settlements", "save", "mail"}
    /\ ExportFault /\ exportJob' = [exportJob EXCEPT ![e].pc = "threw"]
    /\ UNCHANGED <<today, exportRow, links, lastToken>>

\* The catch saves the record as FAILED, with the token it may hold; the job
\* has one attempt.  That save may throw as well.
SaveFailed(e) ==
    /\ JobGoes(e, "threw", "failed")
    /\ \/ /\ exportRow' = [exportRow EXCEPT ![e] = [exportJob[e].record EXCEPT !.status = "failed"]]
          /\ UNCHANGED exportFaults
       \/ ExportFault /\ UNCHANGED exportRow
    /\ UNCHANGED <<today, links, lastToken>>

\* The worker dies, the job is stalled and runs again from its start.
ExportDies(e) ==
    /\ exportJob[e].pc \in {"volume", "settlements", "save", "mail", "threw"}
    /\ ExportFault /\ exportJob' = [exportJob EXCEPT ![e] = [NoExportJob EXCEPT !.pc = "waiting"]]
    /\ UNCHANGED <<today, exportRow, links, lastToken>>

\* The worker dies between the mail and the completion of the job.
ExportDiesMailed(e) ==
    /\ exportJob[e].pc = "mail"
    /\ links' = [links EXCEPT ![e] = Append(@, exportJob[e].record.downloadToken)]
    /\ ExportFault /\ exportJob' = [exportJob EXCEPT ![e] = [NoExportJob EXCEPT !.pc = "waiting"]]
    /\ UNCHANGED <<today, exportRow, lastToken>>

ExportStep(e) ==
    \/ requestExport(e) \/ AddExportJob(e) \/ StartExport(e) \/ ReadVolume(e) \/ ReadSettlements(e)
    \/ SaveReady(e) \/ MailLink(e) \/ ExportThrows(e) \/ SaveFailed(e) \/ ExportDies(e) \/ ExportDiesMailed(e)

ExportNext ==
    \/ ExportDay
    \/ (\E e \in Exports : ExportStep(e)) /\ UNCHANGED <<payStatus, completedAt, mvPayments, report, moved>>

\* What the link answers: the row, 404 or 410.
getDownloadByToken(token) ==
    LET rows == {e \in Exports : exportRow[e].downloadToken = token /\ exportRow[e].status = "ready"}
    IN  IF rows = {} THEN "not found"
        ELSE IF \A e \in rows : exportRow[e].expiresAt < today THEN "gone" ELSE "file"

--------------------------------------------------------------------------------
(* Properties                                                              *)

\* Once a job has completed, the link it mailed last serves the file for a day,
\* however often the job was begun before.
AnnouncedLinkWorks ==
    \A e \in Exports :
        exportJob[e].pc = "completed" =>
            getDownloadByToken(Last(links[e])) =
                IF today <= exportRow[e].expiresAt THEN "file" ELSE "gone"

\* The volumes and the settlements of a report cover the same days, unless its
\* end is open and midnight fell between the two reads.
SectionsAgree ==
    \A e \in Exports :
        exportJob[e].pc = "save" =>
            \/ Report(e).volume = Report(e).settlements
            \/ exportJob[e].record.dateTo = None /\ exportJob[e].since < today
================================================================================
