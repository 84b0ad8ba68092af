----------------------------- MODULE MerchantAccounts -----------------------------
(***************************************************************************)
(* The merchants table under MerchantsService, AuthService.register and    *)
(* the account operations of AdminService.  Every operation loads a row,   *)
(* changes its own columns and saves the entity: save reads the row again  *)
(* and writes every column in which the entity differs from it, so what    *)
(* another call wrote since the load is undone, and a row removed since    *)
(* then is inserted again.                                                 *)
(***************************************************************************)
EXTENDS Integers, Sequences

CONSTANTS
    Accounts,      \* merchants, by e-mail
    Callers,       \* requests under way at the same time
    BulkIds,       \* the ids of a bulk status change, in order
    MaxEdits, MaxAccountFaults   \* bounds

ASSUME AccountAssumption ==
    MaxEdits \in Nat /\ MaxAccountFaults \in Nat /\ BulkIds \in Seq(Accounts) /\ "bulk" \notin Callers

VARIABLES
    accounts,    \* the table: the number of the edit each column was written by
    calls,       \* what each request has loaded, and what its save then found
    edits,       \* changes of the table so far
    bulkNext, bulkResults, bulkAudit,   \* the bulk request: position, results, audited positions
    bulkSaved,   \* history: positions whose status change reached the table
    accountFaults

bulkVars == <<bulkNext, bulkResults, bulkAudit, bulkSaved, accountFaults>>
accountVars == <<accounts, calls, edits, bulkVars>>

Columns == {"status", "profile", "apiKey", "customFeeRate", "totpSecret", "totpEnabled",
            "allowedIps", "sandboxMode", "deletedAt"}
Absent == [exists |-> FALSE, cols |-> [f \in Columns |-> 0]]
Ready == [pc |-> "idle", op |-> "none", id |-> "none", row |-> Absent, found |-> Absent]

AccountInit ==
    /\ accounts = [a \in Accounts |-> Absent]
    /\ calls = [c \in Callers \cup {"bulk"} |-> Ready]
    /\ edits = 0 /\ bulkNext = 1 /\ bulkResults = << >> /\ bulkAudit = {} /\ bulkSaved = {}
    /\ accountFaults = 0

\* The columns an operation changes in the entity it loaded.
Written(op) ==
    CASE op = "update" -> {"profile"} [] op = "updateMerchantStatus" -> {"status"}
      [] op = "generateApiKey" -> {"apiKey"} [] op = "updateMerchantFee" -> {"customFeeRate"}
      [] op = "setupAdminTotp" -> {"totpSecret"} [] op = "verifyAdminTotp" -> {"totpEnabled"}
      [] op = "updateAdminAllowedIps" -> {"allowedIps"} [] op = "toggleSandboxMode" -> {"sandboxMode"}

EditOps == {"update", "updateMerchantStatus", "generateApiKey", "updateMerchantFee",
            "setupAdminTotp", "verifyAdminTotp", "updateAdminAllowedIps", "toggleSandboxMode"}

Visible(a) == accounts[a].exists /\ accounts[a].cols["deletedAt"] = 0

Load(c, op, a) ==
    calls' = [calls EXCEPT ![c] = [pc |-> "loaded", op |-> op, id |-> a, row |-> accounts[a], found |-> Absent]]

Put(a, row) ==
    /\ edits < MaxEdits /\ edits' = edits + 1
    /\ accounts' = [accounts EXCEPT ![a] = row]

\* findOne hides rows deleted softly; a code is verified against a secret that
\* was set up, and a wrong one changes nothing.
BeginEdit(c, op, a) ==
    /\ c \in Callers /\ calls[c].pc = "idle" /\ Visible(a)
    /\ op = "verifyAdminTotp" => accounts[a].cols["totpSecret"] # 0
    /\ Load(c, op, a)
    /\ UNCHANGED <<accounts, edits, bulkVars>>

\* The first query of a save: the row as it is now.
SaveSelect(c) ==
    /\ calls[c].pc = "loaded" /\ calls[c].op \in EditOps
    /\ calls' = [calls EXCEPT ![c].pc = "selected", ![c].found = accounts[calls[c].id]]
    /\ UNCHANGED <<accounts, edits, bulkVars>>

\* The second one: an UPDATE of the columns that differ from the row found, or an
\* INSERT when none was.  An UPDATE of a row removed meanwhile changes nothing.
Refused(c) == ~calls[c].found.exists /\ accounts[calls[c].id].exists

SaveWrite(c) ==
    LET a == calls[c].id
        found == calls[c].found
        cols == [f \in Columns |-> IF f \in Written(calls[c].op) THEN edits + 1 ELSE calls[c].row.cols[f]]
    IN  IF found.exists = accounts[a].exists
        THEN Put(a, [exists |-> TRUE, cols |-> [f \in Columns |->
                 IF found.exists /\ cols[f] = found.cols[f] THEN accounts[a].cols[f] ELSE cols[f]]])
        ELSE UNCHANGED <<accounts, edits>>

SaveEdit(c) ==
    /\ c \in Callers /\ calls[c].pc = "selected"
    /\ SaveWrite(c)
    /\ calls' = [calls EXCEPT ![c] = Ready]
    /\ UNCHANGED bulkVars

\* register looks the e-mail up and inserts an active merchant after hashing the
\* password; the unique column refuses a second one.  createAdmin only inserts.
BeginRegister(c, a) ==
    /\ c \in Callers /\ calls[c].pc = "idle" /\ ~accounts[a].exists
    /\ Load(c, "register", a)
    /\ UNCHANGED <<accounts, edits, bulkVars>>

InsertAccount(c) ==
    /\ c \in Callers /\ calls[c].pc = "loaded" /\ calls[c].op = "register"
    /\ IF accounts[calls[c].id].exists THEN UNCHANGED <<accounts, edits>>
       ELSE Put(calls[c].id, [exists |-> TRUE, cols |-> [f \in Columns |-> IF f = "status" THEN edits + 1 ELSE 0]])
    /\ calls' = [calls EXCEPT ![c] = Ready]
    /\ UNCHANGED bulkVars

\* deleteAdmin and a hard deleteRecord remove the row, a soft one and
\* restoreRecord write deletedAt alone.
RemoveAccount(a) ==
    /\ accounts[a].exists
    /\ Put(a, Absent)
    /\ UNCHANGED <<calls, bulkVars>>

SoftDelete(a) ==
    /\ accounts[a].exists
    /\ Put(a, [accounts[a] EXCEPT !.cols["deletedAt"] = edits + 1])
    /\ UNCHANGED <<calls, bulkVars>>

restoreRecord(a) ==
    /\ accounts[a].exists /\ accounts[a].cols["deletedAt"] # 0
    /\ Put(a, [accounts[a] EXCEPT !.cols["deletedAt"] = 0])
    /\ UNCHANGED <<calls, bulkVars>>

--------------------------------------------------------------------------------
(* bulkUpdateStatus: one id after the other, a failure of one is recorded   *)
(* and the loop goes on                                                    *)

BulkResult(success) ==
    /\ bulkResults' = Append(bulkResults, [id |-> BulkIds[bulkNext], success |-> success])
    /\ bulkNext' = bulkNext + 1
    /\ calls' = [calls EXCEPT !["bulk"] = Ready]

BulkLoad ==
    /\ bulkNext <= Len(BulkIds) /\ calls["bulk"].pc = "idle"
    /\ IF Visible(BulkIds[bulkNext])
       THEN Load("bulk", "updateMerchantStatus", BulkIds[bulkNext]) /\ UNCHANGED <<bulkNext, bulkResults>>
       ELSE BulkResult(FALSE)
    /\ UNCHANGED <<accounts, edits, bulkAudit, bulkSaved, accountFaults>>

\* A save that is refused is caught like any other failure.
BulkSave ==
    /\ calls["bulk"].pc = "selected"
    /\ SaveWrite("bulk")
    /\ bulkSaved' = IF accounts' = accounts THEN bulkSaved ELSE bulkSaved \cup {bulkNext}
    /\ IF Refused("bulk") THEN BulkResult(FALSE)
       ELSE calls' = [calls EXCEPT !["bulk"].pc = "saved"] /\ UNCHANGED <<bulkNext, bulkResults>>
    /\ UNCHANGED <<bulkAudit, accountFaults>>

\* The cached count is deleted and the audit entry saved.
BulkAudit ==
    /\ calls["bulk"].pc = "saved"
    /\ bulkAudit' = bulkAudit \cup {bulkNext}
    /\ BulkResult(TRUE)
    /\ UNCHANGED <<accounts, edits, bulkSaved, accountFaults>>

\* The database or the cache fails at any of the steps, and an audit entry may be
\* stored although its answer is lost.
BulkFails ==
    /\ calls["bulk"].pc # "idle" /\ accountFaults < MaxAccountFaults
    /\ accountFaults' = accountFaults + 1
    /\ bulkAudit' \in {bulkAudit, bulkAudit \cup {k \in {bulkNext} : calls["bulk"].pc = "saved"}}
    /\ BulkResult(FALSE)
    /\ UNCHANGED <<accounts, edits, bulkSaved>>

AccountNext ==
    \/ \E c \in Callers, a \in Accounts : BeginRegister(c, a) \/ \E op \in EditOps : BeginEdit(c, op, a)
    \/ \E c \in Callers \cup {"bulk"} : SaveSelect(c)
    \/ \E c \in Callers : SaveEdit(c) \/ InsertAccount(c)
    \/ \E a \in Accounts : RemoveAccount(a) \/ SoftDelete(a) \/ restoreRecord(a)
    \/ BulkLoad \/ BulkSave \/ BulkAudit \/ BulkFails

--------------------------------------------------------------------------------
(* Properties                                                              *)

\* A bulk change reports every id once and in order; a reported success is audited,
\* and a status that reached the table is audited, reported as failed, or at hand:
\* none was changed behind both the report and the audit.
BulkReportsTruth ==
    /\ Len(bulkResults) = bulkNext - 1
    /\ \A k \in DOMAIN bulkResults :
           /\ bulkResults[k].id = BulkIds[k]
           /\ bulkResults[k].success => k \in bulkAudit
    /\ \A k \in bulkSaved \ bulkAudit :
           IF k \in DOMAIN bulkResults THEN ~bulkResults[k].success
           ELSE k = bulkNext /\ calls["bulk"].pc = "saved"
================================================================================
