------------------------------ MODULE EmailDelivery ------------------------------
(***************************************************************************)
(* The two mail queues: EmailService and its processor (backend/src/email) *)
(* keep one row per mail, NotificationsService and its processor           *)
(* (backend/src/notifications) append to a delivery log.  Both let Bull    *)
(* try a job twice, and both write down that a mail was sent after it was. *)
(***************************************************************************)
EXTENDS Integers

CONSTANTS
    RowMails,      \* mails of EmailService
    LogMails,      \* mails of NotificationsService
    MailAttempts,  \* attempts of the Bull job: 2, and emailMaxRetries + 1
    MaxMailFaults  \* bound: database errors and crashes

ASSUME MailAssumption ==
    /\ RowMails \cap LogMails = {}
    /\ MailAttempts \in Nat \ {0} /\ MaxMailFaults \in Nat

VARIABLES
    mailStatus,  \* status column of a row; for a log, its entries as a set
    mailJob,     \* the Bull job: where it is, attemptsMade, whether it stalled before
    mailFaults,
    accepted,    \* history: times the provider took the mail
    unrecorded   \* history: mails whose outcome no write is left to record

mailVars == <<mailStatus, mailJob, mailFaults, accepted, unrecorded>>

Mails == RowMails \cup LogMails

MailInit ==
    /\ mailStatus = [m \in Mails |-> {}]
    /\ mailJob = [m \in Mails |-> [pc |-> "none", attemptsMade |-> 0, stalled |-> FALSE]]
    /\ mailFaults = 0
    /\ accepted = [m \in Mails |-> 0]
    /\ unrecorded = {}

MailFault == mailFaults < MaxMailFaults /\ mailFaults' = mailFaults + 1
MoveJob(m, from, to) == mailJob[m].pc = from /\ mailJob' = [mailJob EXCEPT ![m].pc = to]

\* A row has one status, a log keeps all entries.
Record(m, entry) ==
    mailStatus' = [mailStatus EXCEPT ![m] = IF m \in RowMails THEN {entry} ELSE @ \cup {entry}]

\* EmailService.queue saves the row before the job exists.
SaveQueued(m) ==
    /\ m \in RowMails
    /\ MoveJob(m, "none", "saved")
    /\ Record(m, "queued")
    /\ UNCHANGED <<mailFaults, accepted, unrecorded>>

\* emailQueue.add, of EmailService.queue and of enqueueEmail.
AddJob(m) ==
    /\ MoveJob(m, IF m \in RowMails THEN "saved" ELSE "none", "queued")
    /\ UNCHANGED <<mailStatus, mailFaults, accepted, unrecorded>>

\* The request dies between the save and the queue: the row stays queued.
QueueingDies(m) ==
    /\ MailFault
    /\ MoveJob(m, "saved", "gone")
    /\ unrecorded' = unrecorded \cup {m}
    /\ UNCHANGED <<mailStatus, accepted>>

\* The provider takes the mail or refuses it; its answer may be lost.
SendMail(m) ==
    \/ /\ MoveJob(m, "queued", "sent")
       /\ accepted' = [accepted EXCEPT ![m] = @ + 1]
       /\ UNCHANGED <<mailStatus, mailFaults, unrecorded>>
    \/ /\ MoveJob(m, "queued", "threw")
       /\ UNCHANGED <<mailStatus, mailFaults, accepted, unrecorded>>
    \/ /\ MoveJob(m, "queued", "threw") /\ MailFault
       /\ accepted' = [accepted EXCEPT ![m] = @ + 1]
       /\ UNCHANGED <<mailStatus, unrecorded>>

\* The update to SENT, the success entry of the log; the job is complete.
RecordSent(m) ==
    /\ MoveJob(m, "sent", "gone")
    /\ Record(m, "sent")
    /\ UNCHANGED <<mailFaults, accepted, unrecorded>>

\* The write behind a mail that was sent throws: the attempt has failed.
RecordThrows(m) ==
    /\ MailFault
    /\ MoveJob(m, "sent", "threw")
    /\ UNCHANGED <<mailStatus, accepted, unrecorded>>

\* The log gets an entry for every failed attempt.  Bull counts the attempt and
\* emits failed; handleFailed and handleExhausted write only when no attempt is
\* left.  Each of these writes may throw.
AttemptFailed(m) ==
    LET made == mailJob[m].attemptsMade + 1
    IN  /\ mailJob[m].pc = "threw"
        /\ mailJob' = [mailJob EXCEPT ![m].attemptsMade = made,
                                      ![m].pc = IF made < MailAttempts THEN "queued" ELSE "gone"]
        /\ \/ /\ IF m \in RowMails /\ made < MailAttempts THEN UNCHANGED mailStatus
                 ELSE Record(m, "failed")
              /\ UNCHANGED <<mailFaults, unrecorded>>
           \/ /\ m \in LogMails \/ made = MailAttempts
              /\ MailFault
              /\ unrecorded' = IF made = MailAttempts THEN unrecorded \cup {m} ELSE unrecorded
              /\ UNCHANGED mailStatus
        /\ UNCHANGED accepted

\* The worker dies: Bull runs the stalled job again and does not count the attempt.
\* A job that stalls a second time it fails (maxStalledCount is 1): handleFailed
\* and handleExhausted run with attempts left and write nothing.
MailWorkerDies(m) ==
    /\ MailFault
    /\ mailJob[m].pc \in {"sent", "threw"}
    /\ \/ /\ ~mailJob[m].stalled
          /\ mailJob' = [mailJob EXCEPT ![m].pc = "queued", ![m].stalled = TRUE]
          /\ UNCHANGED unrecorded
       \/ /\ mailJob[m].stalled
          /\ mailJob' = [mailJob EXCEPT ![m].pc = "gone"]
          /\ unrecorded' = unrecorded \cup {m}
    /\ UNCHANGED <<mailStatus, accepted>>

MailStep(m) == AddJob(m) \/ SendMail(m) \/ RecordSent(m) \/ AttemptFailed(m)

MailNext ==
    \E m \in Mails : \/ SaveQueued(m) \/ QueueingDies(m) \/ MailStep(m)
                     \/ RecordThrows(m) \/ MailWorkerDies(m)

--------------------------------------------------------------------------------
(* Properties                                                              *)

\* What is recorded as sent was taken by the provider.
SentWasAccepted == \A m \in Mails : "sent" \in mailStatus[m] => accepted[m] > 0

\* When the job is gone its outcome is on record, unless the last write failed or
\* the worker died twice.
OutcomeRecorded ==
    \A m \in Mails :
        mailJob[m].pc = "gone" =>
            m \in unrecorded \/ mailStatus[m] \cap {"sent", "failed"} # {}

\* A recipient gets a mail once, and once more for every answer or write that
\* was lost and every worker that died.
MailsBounded == \A m \in Mails : accepted[m] <= 1 + mailFaults

\* Every mail leaves the queue.
MailsEnd == \A m \in Mails : mailJob[m].pc = "queued" ~> mailJob[m].pc = "gone"
================================================================================
