---------------------------- MODULE ServicesProofs ----------------------------
(***************************************************************************)
(* Proofs about the services on the database, the cache and the clock, one *)
(* after the other and then together, for every value of their constants.  *)
(***************************************************************************)
EXTENDS MCServices, SumTheorems, SequenceTheorems

--------------------------------------------------------------------------------
(* Accounts                                                                *)

AccountRow == [exists : BOOLEAN, cols : [Columns -> Nat]]
Positions == [id : {BulkIds[k] : k \in Nat}, success : BOOLEAN]
CallRow == [pc : {"idle", "loaded", "selected", "saved"}, op : EditOps \cup {"none", "register"},
            id : Accounts \cup {"none"}, row : AccountRow, found : AccountRow]

AccountTypes ==
    /\ accounts \in [Accounts -> AccountRow] /\ edits \in Nat
    /\ calls \in [Callers \cup {"bulk"} -> CallRow]
    /\ \A c \in Callers \cup {"bulk"} : calls[c].pc # "idle" => calls[c].id \in Accounts
    /\ bulkNext \in Nat \ {0} /\ bulkResults \in Seq(Positions)

\* The bulk request works on the account at its position.
BulkFits == calls["bulk"].pc # "idle" => bulkNext \in DOMAIN BulkIds

AccountInv == AccountTypes /\ BulkFits /\ BulkReportsTruth

\* A request that is done has nothing loaded.
LEMMA ReadyFits == Absent \in AccountRow /\ Ready \in CallRow /\ Ready.pc = "idle"
  BY DEF Absent, AccountRow, Ready, CallRow

\* It holds at the start.
LEMMA AccountInitially == AccountInit => AccountInv
  <1> SUFFICES ASSUME AccountInit PROVE AccountInv
    OBVIOUS
  <1>1. /\ accounts = [a \in Accounts |-> Absent] /\ calls = [c \in Callers \cup {"bulk"} |-> Ready]
        /\ edits = 0 /\ bulkNext = 1 /\ bulkResults = << >> /\ bulkSaved = {}
    BY DEF AccountInit
  <1>2. AccountTypes
    BY <1>1, ReadyFits DEF AccountTypes
  <1> QED
    BY <1>1, <1>2, ReadyFits DEF AccountInv, BulkFits, BulkReportsTruth

\* A row put in place of another keeps the table's type.
LEMMA PutTyped ==
  ASSUME AccountTypes, NEW a, NEW row \in AccountRow, Put(a, row)
  PROVE  accounts' \in [Accounts -> AccountRow] /\ edits' \in Nat
  <1>1. accounts' = [accounts EXCEPT ![a] = row] /\ edits' = edits + 1
    BY Zenon DEF Put
  <1>2. accounts \in [Accounts -> AccountRow] /\ edits \in Nat
    BY Zenon DEF AccountTypes
  <1>3. accounts' \in [Accounts -> AccountRow]
    BY ONLY <1>1, <1>2, row \in AccountRow
  <1>4. edits' \in Nat
    BY ONLY <1>1, <1>2
  <1> QED
    BY ONLY <1>3, <1>4

\* So does the record of one request, and the other requests keep theirs.
LEMMA CallTyped ==
  ASSUME AccountTypes, NEW c \in Callers \cup {"bulk"}, NEW r \in CallRow, r.pc # "idle" => r.id \in Accounts,
         calls' = [calls EXCEPT ![c] = r]
  PROVE  /\ calls' \in [Callers \cup {"bulk"} -> CallRow]
         /\ \A d \in Callers \cup {"bulk"} : calls'[d] = IF d = c THEN r ELSE calls[d]
         /\ \A d \in Callers \cup {"bulk"} : calls'[d].pc # "idle" => calls'[d].id \in Accounts
  BY DEF AccountTypes

\* A step of a single request, or of the table alone, leaves the reports as they are.
LEMMA BesideBulk ==
  ASSUME AccountInv, UNCHANGED bulkVars, calls'["bulk"] = calls["bulk"],
         accounts' \in [Accounts -> AccountRow], edits' \in Nat, calls' \in [Callers \cup {"bulk"} -> CallRow],
         \A c \in Callers \cup {"bulk"} : calls'[c].pc # "idle" => calls'[c].id \in Accounts
  PROVE  AccountInv'
  BY DEF AccountInv, AccountTypes, BulkFits, BulkReportsTruth, bulkVars

\* What a save writes is a row.
LEMMA SavedTyped ==
  ASSUME AccountTypes, NEW c \in Callers \cup {"bulk"}, calls[c].pc # "idle", SaveWrite(c)
  PROVE  accounts' \in [Accounts -> AccountRow] /\ edits' \in Nat
  <1>1. PICK a \in Accounts : a = calls[c].id
    BY DEF AccountTypes
  <1>2. /\ accounts[a] \in AccountRow /\ edits + 1 \in Nat
        /\ calls[c].row \in AccountRow /\ calls[c].found \in AccountRow
    BY <1>1 DEF AccountTypes, CallRow
  <1>3. PICK cols : cols = [f \in Columns |-> IF f \in Written(calls[c].op) THEN edits + 1 ELSE calls[c].row.cols[f]]
    OBVIOUS
  <1>4. PICK row : row = [exists |-> TRUE, cols |-> [f \in Columns |->
                IF calls[c].found.exists /\ cols[f] = calls[c].found.cols[f] THEN accounts[a].cols[f] ELSE cols[f]]]
    OBVIOUS
  <1>5. row \in AccountRow
    <2>1. cols \in [Columns -> Nat] /\ accounts[a].cols \in [Columns -> Nat]
      BY <1>2, <1>3 DEF AccountRow
    <2> QED
      BY <1>4, <2>1 DEF AccountRow
  <1>6. Put(a, row) \/ UNCHANGED <<accounts, edits>>
    BY <1>1, <1>3, <1>4 DEF SaveWrite
  <1> QED
    BY <1>5, <1>6, PutTyped DEF AccountTypes

\* The report of the position at hand extends the others: success only once it is audited.
LEMMA ReportExtends ==
  ASSUME AccountInv, bulkNext \in DOMAIN BulkIds, NEW success \in BOOLEAN, BulkResult(success),
         accounts' \in [Accounts -> AccountRow], edits' \in Nat,
         bulkAudit \subseteq bulkAudit', success => bulkNext \in bulkAudit', bulkSaved' \subseteq bulkSaved
  PROVE  AccountInv'
  <1>1. /\ bulkNext \in Nat \ {0} /\ bulkResults \in Seq(Positions) /\ Len(bulkResults) = bulkNext - 1
        /\ \A k \in DOMAIN bulkResults : /\ bulkResults[k].id = BulkIds[k]
                                         /\ bulkResults[k].success => k \in bulkAudit
        /\ \A k \in bulkSaved \ bulkAudit :
               IF k \in DOMAIN bulkResults THEN ~bulkResults[k].success ELSE k = bulkNext
    BY DEF AccountInv, AccountTypes, BulkReportsTruth
  <1>2. PICK rep : rep = [id |-> BulkIds[bulkNext], success |-> success]
    OBVIOUS
  <1>3. /\ bulkResults' = Append(bulkResults, rep) /\ bulkNext' = bulkNext + 1
        /\ calls' = [calls EXCEPT !["bulk"] = Ready]
    BY <1>2 DEF BulkResult
  <1>4. rep \in Positions /\ rep.id = BulkIds[bulkNext] /\ rep.success = success
    BY <1>1, <1>2 DEF Positions
  <1>5. /\ bulkResults' \in Seq(Positions) /\ Len(bulkResults') = Len(bulkResults) + 1
        /\ \A k \in 1 .. Len(bulkResults') :
               bulkResults'[k] = IF k = bulkNext THEN rep ELSE bulkResults[k]
    BY <1>1, <1>3, <1>4
  <1>6. ASSUME NEW k \in DOMAIN bulkResults'
        PROVE  bulkResults'[k].id = BulkIds[k] /\ (bulkResults'[k].success => k \in bulkAudit')
    <2>1. k \in 1 .. Len(bulkResults') /\ (k # bulkNext => k \in DOMAIN bulkResults)
      BY <1>1, <1>5
    <2> QED
      BY <1>1, <1>4, <1>5, <2>1
  <1>7. ASSUME NEW k \in bulkSaved' \ bulkAudit'
        PROVE  k \in DOMAIN bulkResults' /\ ~bulkResults'[k].success
    <2>1. k \in bulkSaved \ bulkAudit
      OBVIOUS
    <2>2. k \in DOMAIN bulkResults \/ k = bulkNext
      BY <1>1, <2>1
    <2>3. k \in 1 .. Len(bulkResults') /\ (k # bulkNext => k \in DOMAIN bulkResults)
      BY <1>1, <1>5, <2>2
    <2> QED
      BY <1>1, <1>4, <1>5, <2>1, <2>3
  <1>8. BulkReportsTruth'
    <2>1. Len(bulkResults') = bulkNext' - 1
      BY <1>1, <1>3, <1>5
    <2> QED
      BY <1>6, <1>7, <2>1 DEF BulkReportsTruth
  <1>9. calls'["bulk"] = Ready /\ AccountTypes'
    BY <1>1, <1>3, <1>5, ReadyFits, CallTyped DEF AccountInv, AccountTypes
  <1> QED
    BY <1>8, <1>9, ReadyFits DEF AccountInv, BulkFits

\* Every step keeps it.
LEMMA AccountInvStep == AccountInv /\ [AccountNext]_accountVars => AccountInv'
  <1> SUFFICES ASSUME AccountInv, [AccountNext]_accountVars PROVE AccountInv'
    OBVIOUS
  <1>b. BulkIds \in Seq(Accounts) /\ "bulk" \notin Callers
    BY AccountAssumption DEF AccountAssumption
  <1>t. /\ AccountTypes /\ BulkFits /\ BulkReportsTruth
        /\ accounts \in [Accounts -> AccountRow] /\ edits \in Nat
        /\ calls \in [Callers \cup {"bulk"} -> CallRow] /\ bulkNext \in Nat \ {0}
        /\ \A c \in Callers \cup {"bulk"} : calls[c].pc # "idle" => calls[c].id \in Accounts
    BY DEF AccountInv, AccountTypes
  <1>1. CASE UNCHANGED accountVars
    BY <1>1 DEF AccountInv, AccountTypes, BulkFits, BulkReportsTruth, accountVars, bulkVars
  <1>2. ASSUME NEW c \in Callers \cup {"bulk"}, NEW a \in Accounts, NEW op \in EditOps \cup {"register"},
               Load(c, op, a), UNCHANGED <<accounts, edits>>
        PROVE  /\ calls' \in [Callers \cup {"bulk"} -> CallRow]
               /\ \A d \in Callers \cup {"bulk"} : calls'[d].pc # "idle" => calls'[d].id \in Accounts
               /\ c # "bulk" => calls'["bulk"] = calls["bulk"]
    <2>1. PICK r : r = [pc |-> "loaded", op |-> op, id |-> a, row |-> accounts[a], found |-> Absent]
      OBVIOUS
    <2>2. calls' = [calls EXCEPT ![c] = r]
      BY <1>2, <2>1 DEF Load
    <2>3. r \in CallRow /\ r.id \in Accounts
      BY <1>t, <2>1, ReadyFits DEF CallRow
    <2> QED
      BY <1>t, <2>2, <2>3, CallTyped
  <1>3. ASSUME NEW c \in Callers, NEW a \in Accounts,
               BeginRegister(c, a) \/ \E op \in EditOps : BeginEdit(c, op, a)
        PROVE  AccountInv'
    <2>1. /\ UNCHANGED <<accounts, edits, bulkVars>>
          /\ \E op \in EditOps \cup {"register"} : Load(c, op, a)
      BY <1>3 DEF BeginRegister, BeginEdit
    <2> QED
      BY <1>2, <1>b, <1>t, <2>1, BesideBulk
  <1>4. ASSUME NEW c \in Callers \cup {"bulk"}, SaveSelect(c) PROVE AccountInv'
    <2>1. /\ calls[c].pc = "loaded" /\ UNCHANGED <<accounts, edits, bulkVars>>
          /\ calls' = [calls EXCEPT ![c].pc = "selected", ![c].found = accounts[calls[c].id]]
      BY <1>4 DEF SaveSelect
    <2>2. PICK x \in CallRow : x = calls[c]
      BY <1>t
    <2>3. x.id \in Accounts /\ accounts[x.id] \in AccountRow
      BY <1>t, <2>1, <2>2
    <2>4. PICK r : r = [x EXCEPT !.pc = "selected", !.found = accounts[x.id]]
      OBVIOUS
    <2>5. r \in CallRow /\ r.pc = "selected" /\ r.id = x.id
      BY <2>3, <2>4 DEF CallRow
    <2>6. calls' = [calls EXCEPT ![c] = r]
      BY <1>t, <2>1, <2>2, <2>4
    <2>7. /\ calls' \in [Callers \cup {"bulk"} -> CallRow]
          /\ \A d \in Callers \cup {"bulk"} : calls'[d] = IF d = c THEN r ELSE calls[d]
          /\ \A d \in Callers \cup {"bulk"} : calls'[d].pc # "idle" => calls'[d].id \in Accounts
      BY <1>t, <2>3, <2>5, <2>6, CallTyped
    <2> QED
      BY <1>t, <2>1, <2>5, <2>7 DEF AccountInv, AccountTypes, BulkFits, BulkReportsTruth, bulkVars
  <1>5. ASSUME NEW c \in Callers, SaveEdit(c) \/ InsertAccount(c) PROVE AccountInv'
    <2>1. /\ calls[c].pc # "idle" /\ calls' = [calls EXCEPT ![c] = Ready] /\ UNCHANGED bulkVars
          /\ \/ SaveWrite(c) \/ UNCHANGED <<accounts, edits>>
             \/ Put(calls[c].id, [exists |-> TRUE, cols |-> [f \in Columns |-> IF f = "status" THEN edits + 1 ELSE 0]])
      BY <1>5 DEF SaveEdit, InsertAccount
    <2>2. [exists |-> TRUE, cols |-> [f \in Columns |-> IF f = "status" THEN edits + 1 ELSE 0]] \in AccountRow
      BY <1>t DEF AccountRow
    <2>3. accounts' \in [Accounts -> AccountRow] /\ edits' \in Nat
      BY <1>t, <2>1, <2>2, SavedTyped, PutTyped
    <2>4. /\ calls' \in [Callers \cup {"bulk"} -> CallRow] /\ calls'["bulk"] = calls["bulk"]
          /\ \A d \in Callers \cup {"bulk"} : calls'[d].pc # "idle" => calls'[d].id \in Accounts
      BY <1>t, <1>b, <2>1, ReadyFits, CallTyped
    <2> QED
      BY <2>1, <2>3, <2>4, BesideBulk
  <1>6. ASSUME NEW a \in Accounts, RemoveAccount(a) \/ SoftDelete(a) \/ restoreRecord(a) PROVE AccountInv'
    <2>1. PICK x \in AccountRow : x = accounts[a]
      BY <1>t
    <2>2. PICK row : Put(a, row) /\ \/ row = Absent
                                    \/ row = [x EXCEPT !.cols["deletedAt"] = edits + 1]
                                    \/ row = [x EXCEPT !.cols["deletedAt"] = 0]
      BY <1>6, <2>1 DEF RemoveAccount, SoftDelete, restoreRecord
    <2>3. ASSUME NEW d \in Nat PROVE [x EXCEPT !.cols["deletedAt"] = d] \in AccountRow
      <3>1. PICK cols \in [Columns -> Nat] : cols = x.cols
        BY ONLY <2>1 DEF AccountRow
      <3>2. [cols EXCEPT !["deletedAt"] = d] \in [Columns -> Nat]
        BY ONLY <3>1, d \in Nat
      <3>3. [x EXCEPT !.cols = [cols EXCEPT !["deletedAt"] = d]] \in AccountRow
        BY ONLY <2>1, <3>2 DEF AccountRow
      <3> QED
        BY ONLY <3>1, <3>3
    <2>d. 0 \in Nat /\ edits + 1 \in Nat
      BY <1>t
    <2>4. row \in AccountRow
      BY ONLY <2>2, <2>3, <2>d, ReadyFits, Zenon
    <2>5. UNCHANGED <<calls, bulkVars>>
      BY <1>6 DEF RemoveAccount, SoftDelete, restoreRecord
    <2> QED
      BY <1>t, <2>2, <2>4, <2>5, PutTyped, BesideBulk
  <1>7. CASE BulkLoad
    <2>1. bulkNext \in DOMAIN BulkIds /\ BulkIds[bulkNext] \in Accounts /\ calls["bulk"].pc = "idle"
      BY <1>7, <1>b, <1>t DEF BulkLoad
    <2>2. UNCHANGED <<accounts, edits, bulkAudit, bulkSaved>>
      BY <1>7 DEF BulkLoad
    <2>3. CASE Visible(BulkIds[bulkNext])
      <3>1. /\ Load("bulk", "updateMerchantStatus", BulkIds[bulkNext])
            /\ UNCHANGED <<bulkNext, bulkResults>>
        BY <1>7, <2>3 DEF BulkLoad
      <3>2. /\ calls' \in [Callers \cup {"bulk"} -> CallRow]
            /\ \A d \in Callers \cup {"bulk"} : calls'[d].pc # "idle" => calls'[d].id \in Accounts
        BY <1>2, <2>1, <2>2, <3>1 DEF EditOps
      <3> QED
        BY <1>t, <2>1, <2>2, <3>1, <3>2 DEF AccountInv, AccountTypes, BulkFits, BulkReportsTruth
    <2>4. CASE ~Visible(BulkIds[bulkNext])
      <3>1. BulkResult(FALSE)
        BY <1>7, <2>4 DEF BulkLoad
      <3> QED
        BY <1>t, <2>1, <2>2, <3>1, ReportExtends
    <2> QED
      BY <2>3, <2>4
  <1>8. CASE BulkSave
    <2>1. /\ calls["bulk"].pc = "selected" /\ SaveWrite("bulk") /\ UNCHANGED bulkAudit
          /\ bulkSaved' = IF accounts' = accounts THEN bulkSaved ELSE bulkSaved \cup {bulkNext}
      BY <1>8 DEF BulkSave
    <2>2. accounts' \in [Accounts -> AccountRow] /\ edits' \in Nat /\ bulkNext \in DOMAIN BulkIds
      BY <1>t, <2>1, SavedTyped DEF BulkFits
    <2>3. CASE Refused("bulk")
      <3>1. BulkResult(FALSE) /\ bulkSaved' = bulkSaved
        BY <1>8, <2>1, <2>3 DEF BulkSave, SaveWrite, Refused
      <3> QED
        BY <2>1, <2>2, <3>1, ReportExtends
    <2>4. CASE ~Refused("bulk")
      <3>1. calls' = [calls EXCEPT !["bulk"].pc = "saved"] /\ UNCHANGED <<bulkNext, bulkResults>>
        BY <1>8, <2>4 DEF BulkSave
      <3>2. PICK x \in CallRow : x = calls["bulk"]
        BY <1>t
      <3>3. PICK r : r = [x EXCEPT !.pc = "saved"]
        OBVIOUS
      <3>4. r \in CallRow /\ r.pc = "saved" /\ r.id = x.id /\ calls' = [calls EXCEPT !["bulk"] = r]
        BY <1>t, <3>1, <3>2, <3>3 DEF CallRow
      <3>5. /\ calls' \in [Callers \cup {"bulk"} -> CallRow] /\ calls'["bulk"].pc = "saved"
            /\ \A d \in Callers \cup {"bulk"} : calls'[d].pc # "idle" => calls'[d].id \in Accounts
        BY <1>t, <2>1, <3>2, <3>4, CallTyped
      <3>6. BulkReportsTruth'
        <4>1. ASSUME NEW k \in bulkSaved' \ bulkAudit
              PROVE  IF k \in DOMAIN bulkResults THEN ~bulkResults[k].success ELSE k = bulkNext
          <5>1. CASE k \in bulkSaved
            BY <1>t, <4>1, <5>1 DEF BulkReportsTruth
          <5>2. CASE k \notin bulkSaved
            <6>1. k = bulkNext
              BY <2>1, <4>1, <5>2
            <6>2. k \notin DOMAIN bulkResults
              BY <1>t, <6>1 DEF BulkReportsTruth, AccountTypes
            <6> QED
              BY <6>1, <6>2
          <5> QED
            BY <5>1, <5>2
        <4> QED
          BY <1>t, <2>1, <3>1, <3>5, <4>1 DEF BulkReportsTruth
      <3> QED
        BY <1>t, <2>2, <3>1, <3>5, <3>6 DEF AccountInv, AccountTypes, BulkFits
    <2> QED
      BY <2>3, <2>4
  <1>9. CASE BulkAudit \/ BulkFails
    <2>1. PICK success \in BOOLEAN :
              /\ calls["bulk"].pc # "idle" /\ BulkResult(success) /\ UNCHANGED <<accounts, edits, bulkSaved>>
              /\ bulkAudit \subseteq bulkAudit' /\ (success => bulkNext \in bulkAudit')
      BY <1>9 DEF BulkAudit, BulkFails
    <2> QED
      BY <1>t, <2>1, ReportExtends DEF BulkFits
  <1> QED
    BY <1>1, <1>3, <1>4, <1>5, <1>6, <1>7, <1>8, <1>9 DEF AccountNext

\* What it says of the reports.
LEMMA AccountKept == AccountInv => BulkReportsTruth
  BY DEF AccountInv

--------------------------------------------------------------------------------
(* Groups                                                                  *)

GroupRow == [exists : BOOLEAN, maxMembers : Nat, inviteCode : Nat, isTokenGated : BOOLEAN, deleted : BOOLEAN]
JoinRow == [pc : {"idle", "found", "new", "fits", "cleared"}, group : GroupRow, beside : SUBSET Users]
GroupEditRow == [pc : {"idle", "loaded"}, row : GroupRow, members : SUBSET Users]

GroupTypes ==
    /\ group \in GroupRow /\ members \in [Users -> {"none", "owner", "member"}]
    /\ joins \in [Users -> JoinRow] /\ groupEdits \in [GroupEditors -> GroupEditRow] /\ lastCode \in Nat

\* A counted join would still find a place if the members it overlapped were left out,
\* and everybody who may become one before its insert is among these.
BesideFits ==
    \A u \in Users : Counted(u) =>
        /\ Cardinality(MemberIds \ joins[u].beside) < joins[u].group.maxMembers
        /\ \A y \in Users \ {u} : Counted(y) => y \in joins[u].beside
        /\ creation = "saved" => Creator \in joins[u].beside

\* Nobody can have found or loaded a group that has no row yet.
NotFoundYet ==
    creation \in {"start", "synced"} =>
        /\ ~group.exists /\ \A u \in Users : joins[u].pc = "idle"
        /\ \A e \in GroupEditors : groupEdits[e].pc = "idle"

GroupInv == GroupTypes /\ BesideFits /\ NotFoundYet

\* It holds at the start.
LEMMA GroupsInitially == GroupsInit => GroupInv
  <1> SUFFICES ASSUME GroupsInit PROVE GroupInv
    OBVIOUS
  <1>1. /\ creation = "start" /\ group = NoGroup /\ members = [u \in Users |-> "none"]
        /\ joins = [u \in Users |-> NotJoining] /\ lastCode = 0
        /\ groupEdits = [e \in GroupEditors |-> NotEditingGroup]
    BY DEF GroupsInit
  <1>2. NoGroup \in GroupRow /\ ~NoGroup.exists
    BY DEF NoGroup, GroupRow
  <1>3. NotJoining \in JoinRow /\ NotJoining.pc = "idle"
    BY <1>2 DEF NotJoining, JoinRow
  <1>4. NotEditingGroup \in GroupEditRow
    BY <1>2 DEF NotEditingGroup, GroupEditRow
  <1>5. GroupTypes
    BY <1>1, <1>2, <1>3, <1>4 DEF GroupTypes
  <1>6. BesideFits /\ NotFoundYet
    BY <1>1, <1>2, <1>3 DEF BesideFits, NotFoundYet, Counted, NotEditingGroup
  <1> QED
    BY <1>5, <1>6 DEF GroupInv

\* Fewer users are no more.
LEMMA NoMoreUsers ==
  ASSUME NEW S \in SUBSET Users, NEW T \in SUBSET S
  PROVE  Cardinality(T) <= Cardinality(S) /\ Cardinality(T) \in Nat /\ Cardinality(S) \in Nat
  <1>1. IsFiniteSet(S)
    BY GroupAssumption, FS_Subset DEF GroupAssumption
  <1> QED
    BY <1>1, FS_Subset, FS_CardinalityType

\* The counted joins stay fitting while nobody joins them and the members they did not
\* overlap stay or become fewer.
LEMMA CountsKeep ==
  ASSUME GroupInv, members' \in [Users -> {"none", "owner", "member"}],
         creation' = "saved" => creation = "saved" \/ \A u \in Users : ~Counted(u),
         \A u \in Users : Counted(u)' =>
             /\ Counted(u) /\ joins'[u].group = joins[u].group /\ joins[u].beside \subseteq joins'[u].beside
             /\ MemberIds' \ joins'[u].beside \subseteq MemberIds \ joins[u].beside
  PROVE  BesideFits'
  <1> SUFFICES ASSUME NEW u \in Users, Counted(u)'
               PROVE  /\ Cardinality(MemberIds' \ joins'[u].beside) < joins'[u].group.maxMembers
                      /\ \A y \in Users \ {u} : Counted(y)' => y \in joins'[u].beside
                      /\ creation' = "saved" => Creator \in joins'[u].beside
    BY DEF BesideFits
  <1>1. /\ Cardinality(MemberIds \ joins[u].beside) < joins[u].group.maxMembers
        /\ \A y \in Users \ {u} : Counted(y) => y \in joins[u].beside
        /\ creation = "saved" => Creator \in joins[u].beside
    BY DEF GroupInv, BesideFits
  <1>2. joins[u].group.maxMembers \in Nat
    BY DEF GroupInv, GroupTypes, JoinRow, GroupRow
  <1>3. PICK S \in SUBSET Users : S = MemberIds \ joins[u].beside
    BY DEF MemberIds
  <1>4. PICK T \in SUBSET S : T = MemberIds' \ joins'[u].beside
    BY <1>3
  <1>5. Cardinality(T) < joins[u].group.maxMembers
    BY <1>1, <1>2, <1>3, NoMoreUsers
  <1> QED
    BY <1>1, <1>4, <1>5

\* A join that goes on: its record becomes r, the members stay.
JoinMove(u, r) ==
    /\ r \in JoinRow /\ joins' = [joins EXCEPT ![u] = r]
    /\ UNCHANGED <<creation, group, members, groupEdits, lastCode>>
    /\ r.pc # "idle" => creation \notin {"start", "synced"}
    /\ r.pc \in {"fits", "cleared"} => Counted(u) /\ r.group = joins[u].group /\ r.beside = joins[u].beside

\* Such a move keeps the invariant.
LEMMA JoinMoves ==
  ASSUME GroupInv, NEW u \in Users, NEW r, JoinMove(u, r)
  PROVE  GroupInv'
  <1>1. /\ r \in JoinRow /\ joins' = [joins EXCEPT ![u] = r]
        /\ UNCHANGED <<creation, group, members, groupEdits, lastCode>>
        /\ r.pc # "idle" => creation \notin {"start", "synced"}
        /\ r.pc \in {"fits", "cleared"} => Counted(u) /\ r.group = joins[u].group /\ r.beside = joins[u].beside
    BY DEF JoinMove
  <1>2. joins \in [Users -> JoinRow] /\ members \in [Users -> {"none", "owner", "member"}]
    BY DEF GroupInv, GroupTypes
  <1>3. \A y \in Users : joins'[y] = IF y = u THEN r ELSE joins[y]
    BY <1>1, <1>2
  <1>4. GroupTypes'
    BY <1>1, <1>2 DEF GroupInv, GroupTypes
  <1>5. NotFoundYet'
    BY <1>1, <1>3 DEF GroupInv, NotFoundYet
  <1>6. MemberIds' = MemberIds
    BY <1>1 DEF MemberIds
  <1>7. \A y \in Users : Counted(y)' =>
            Counted(y) /\ joins'[y].group = joins[y].group /\ joins'[y].beside = joins[y].beside
    BY <1>1, <1>3 DEF Counted
  <1>8. BesideFits'
    BY <1>1, <1>2, <1>6, <1>7, CountsKeep
  <1> QED
    BY <1>4, <1>5, <1>8 DEF GroupInv

\* A change of the row or of the editors leaves the joins as they are.
LEMMA EditsKeep ==
  ASSUME GroupInv, UNCHANGED <<members, joins>>, group' \in GroupRow, lastCode' \in Nat,
         groupEdits' \in [GroupEditors -> GroupEditRow],
         creation' = "saved" => creation \in {"synced", "saved"},
         creation' \in {"start", "synced"} => creation \in {"start", "synced"} /\ UNCHANGED <<group, groupEdits>>
  PROVE  GroupInv'
  <1>1. MemberIds' = MemberIds
    BY DEF MemberIds
  <1>2. GroupTypes' /\ NotFoundYet'
    BY DEF GroupInv, GroupTypes, NotFoundYet
  <1>3. /\ \A u \in Users : Counted(u)' = Counted(u)
        /\ creation = "synced" => \A u \in Users : ~Counted(u)
    BY DEF Counted, GroupInv, NotFoundYet
  <1>4. BesideFits'
    BY <1>1, <1>2, <1>3, CountsKeep DEF GroupTypes
  <1> QED
    BY <1>2, <1>4 DEF GroupInv

\* Every step keeps it.
LEMMA GroupInvStep == GroupInv /\ [GroupsNext]_groupVars => GroupInv'
  <1> SUFFICES ASSUME GroupInv, [GroupsNext]_groupVars PROVE GroupInv'
    OBVIOUS
  <1>t. /\ group \in GroupRow /\ members \in [Users -> {"none", "owner", "member"}]
        /\ joins \in [Users -> JoinRow] /\ groupEdits \in [GroupEditors -> GroupEditRow] /\ lastCode \in Nat
    BY DEF GroupInv, GroupTypes
  <1>a. Creator \in Users /\ Sizes \subseteq Nat
    BY GroupAssumption DEF GroupAssumption
  <1>1. CASE UNCHANGED groupVars
    BY <1>1, <1>t, EditsKeep DEF groupVars
  <1>2. CASE syncOnChain \/ CreationCrashes
    BY <1>2, <1>t, EditsKeep DEF syncOnChain, CreationCrashes
  <1>3. CASE SaveNewGroup
    <2>1. PICK max \in Sizes : group' = [NoGroup EXCEPT !.exists = TRUE, !.maxMembers = max, !.inviteCode = 1]
      BY <1>3 DEF SaveNewGroup
    <2>2. group' \in GroupRow
      BY <1>a, <2>1 DEF NoGroup, GroupRow
    <2> QED
      BY <1>3, <1>t, <2>2, EditsKeep DEF SaveNewGroup
  <1>4. CASE AddOwner
    <2>1. CASE members[Creator] # "none"
      BY <1>4, <1>t, <2>1, EditsKeep DEF AddOwner
    <2>2. CASE members[Creator] = "none"
      <3>1. /\ creation = "saved" /\ members' = [members EXCEPT ![Creator] = "owner"] /\ creation' = "done"
            /\ UNCHANGED <<group, joins, groupEdits, lastCode>>
        BY <1>4, <2>2 DEF AddOwner
      <3>2. GroupTypes'
        BY <1>a, <1>t, <3>1 DEF GroupTypes
      <3>3. MemberIds' \subseteq MemberIds \cup {Creator}
        BY <1>t, <3>1 DEF MemberIds
      <3>4. \A u \in Users : Counted(u)' => Counted(u) /\ Creator \in joins[u].beside
        BY <3>1 DEF GroupInv, BesideFits, Counted
      <3>5. BesideFits'
        BY <3>1, <3>2, <3>3, <3>4, CountsKeep DEF GroupTypes
      <3> QED
        BY <3>1, <3>2, <3>5 DEF GroupInv, NotFoundYet
    <2> QED
      BY <2>1, <2>2
  <1>5. ASSUME NEW u \in Users, NEW pc \in {"idle", "new", "cleared"},
               JoinAt(u, pc), joins[u].pc # "idle", pc = "cleared" => joins[u].pc = "fits",
               UNCHANGED <<creation, group, members, groupEdits, lastCode>>
        PROVE GroupInv'
    <2>2. PICK r : r = [joins[u] EXCEPT !.pc = pc]
      OBVIOUS
    <2>3. r \in JoinRow /\ r.pc = pc /\ r.group = joins[u].group /\ r.beside = joins[u].beside
      BY <1>t, <2>2 DEF JoinRow
    <2>4. creation \notin {"start", "synced"}
      BY <1>5 DEF GroupInv, NotFoundYet
    <2>5. joins' = [joins EXCEPT ![u] = r]
      BY <1>5, <2>2 DEF JoinAt
    <2>6. JoinMove(u, r)
      BY <1>5, <2>3, <2>4, <2>5 DEF JoinMove, Counted
    <2> QED
      BY <2>6, JoinMoves
  <1>6. ASSUME NEW u \in Users, isMember(u) \/ verifyTokenGate(u) PROVE GroupInv'
    BY <1>5, <1>6 DEF isMember, verifyTokenGate
  <1>7. ASSUME NEW u \in Users, NEW k \in 1 .. MaxGroupEdits, findByInviteCode(u, k) PROVE GroupInv'
    <2>1. PICK r : r = [pc |-> "found", group |-> group, beside |-> {}]
      OBVIOUS
    <2>2. r \in JoinRow /\ r.pc = "found"
      BY <1>t, <2>1 DEF JoinRow
    <2>3. JoinMove(u, r)
      BY <1>7, <2>1, <2>2 DEF findByInviteCode, JoinMove, Live, GroupInv, NotFoundYet
    <2> QED
      BY <2>3, JoinMoves
  <1>8. ASSUME NEW u \in Users, assertCanJoin(u) PROVE GroupInv'
    <2>0. /\ joins[u].pc = "new" /\ UNCHANGED <<creation, group, members, groupEdits, lastCode>>
          /\ creation \notin {"start", "synced"}
      BY <1>8 DEF assertCanJoin, GroupInv, NotFoundYet
    <2>1. CASE JoinAt(u, "idle")
      BY <1>5, <2>0, <2>1
    <2>2. CASE Fits(u) /\ ~(Cardinality(MemberIds) >= joins[u].group.maxMembers)
      <3>1. PICK others \in SUBSET Users :
                others = {y \in Users : Counted(y)} \cup (IF creation = "saved" THEN {Creator} ELSE {})
        BY <1>a
      <3>2. joins' = [x \in Users |->
                IF x # u THEN [joins[x] EXCEPT !.beside = IF Counted(x) THEN @ \cup {u} ELSE @]
                ELSE [joins[u] EXCEPT !.pc = "fits", !.beside = others]]
        BY <2>2, <3>1, Zenon DEF Fits
      <3>3. ASSUME NEW x \in Users, x # u
            PROVE  /\ joins'[x] \in JoinRow /\ joins'[x].pc = joins[x].pc /\ joins'[x].group = joins[x].group
                   /\ joins'[x].beside = IF Counted(x) THEN joins[x].beside \cup {u} ELSE joins[x].beside
        <4>1. PICK b \in SUBSET Users : b = IF Counted(x) THEN joins[x].beside \cup {u} ELSE joins[x].beside
          BY <1>t DEF JoinRow
        <4>2. joins'[x] = [joins[x] EXCEPT !.beside = b]
          BY <3>2, <3>3, <4>1
        <4> QED
          BY <1>t, <4>1, <4>2 DEF JoinRow
      <3>4. /\ joins'[u] \in JoinRow /\ joins'[u].pc = "fits" /\ joins'[u].group = joins[u].group
            /\ joins'[u].beside = others
        <4>1. PICK j \in JoinRow : j = joins[u]
          BY <1>t
        <4>2. joins'[u] = [j EXCEPT !.pc = "fits", !.beside = others]
          BY <3>2, <4>1
        <4> QED
          BY <3>1, <4>1, <4>2 DEF JoinRow
      <3>5. joins' \in [Users -> JoinRow]
        BY <3>2, <3>3, <3>4
      <3>6. GroupTypes' /\ NotFoundYet'
        BY <1>t, <2>0, <3>5 DEF GroupTypes, NotFoundYet
      <3>7. MemberIds' = MemberIds /\ MemberIds \subseteq Users /\ MemberIds \ others \subseteq MemberIds
        BY <2>0 DEF MemberIds
      <3>8. Cardinality(MemberIds \ others) < joins[u].group.maxMembers
        <4>1. joins[u].group.maxMembers \in Nat
          BY <1>t DEF JoinRow, GroupRow
        <4>2. Cardinality(MemberIds \ others) <= Cardinality(MemberIds)
              /\ Cardinality(MemberIds \ others) \in Nat /\ Cardinality(MemberIds) \in Nat
          BY <3>7, NoMoreUsers
        <4> QED
          BY <2>2, <4>1, <4>2
      <3>9. BesideFits'
        <4> SUFFICES ASSUME NEW y \in Users, Counted(y)'
                     PROVE  /\ Cardinality(MemberIds' \ joins'[y].beside) < joins'[y].group.maxMembers
                            /\ \A z \in Users \ {y} : Counted(z)' => z \in joins'[y].beside
                            /\ creation' = "saved" => Creator \in joins'[y].beside
          BY DEF BesideFits
        <4>1. CASE y = u
          BY <2>0, <3>1, <3>3, <3>4, <3>7, <3>8, <4>1 DEF Counted
        <4>2. CASE y # u
          <5>1. /\ Counted(y) /\ joins'[y].beside = joins[y].beside \cup {u} /\ joins'[y].group = joins[y].group
                /\ Cardinality(MemberIds \ joins[y].beside) < joins[y].group.maxMembers
                /\ \A z \in Users \ {y} : Counted(z) => z \in joins[y].beside
                /\ creation = "saved" => Creator \in joins[y].beside
            BY <3>3, <4>2 DEF Counted, GroupInv, BesideFits
          <5>2. PICK S \in SUBSET Users : S = MemberIds \ joins[y].beside
            BY <3>7
          <5>3. PICK T \in SUBSET S : T = MemberIds \ joins'[y].beside
            BY <5>1, <5>2
          <5>4. joins[y].group.maxMembers \in Nat
            BY <1>t DEF JoinRow, GroupRow
          <5>5. Cardinality(T) < joins[y].group.maxMembers
            BY <5>1, <5>2, <5>4, NoMoreUsers
          <5>6. \A z \in Users \ {y} : Counted(z)' => z \in joins'[y].beside
            BY <3>3, <5>1 DEF Counted
          <5> QED
            BY <2>0, <3>7, <5>1, <5>3, <5>5, <5>6
        <4> QED
          BY <4>1, <4>2
      <3> QED
        BY <3>6, <3>9 DEF GroupInv
    <2> QED
      BY <1>8, <2>1, <2>2 DEF assertCanJoin
  <1>9. ASSUME NEW u \in Users, addMember(u) PROVE GroupInv'
    <2>1. /\ joins[u].pc = "cleared" /\ joins' = [joins EXCEPT ![u] = NotJoining]
          /\ members' = IF members[u] = "none" THEN [members EXCEPT ![u] = "member"] ELSE members
          /\ UNCHANGED <<creation, group, groupEdits, lastCode>>
      BY <1>9 DEF addMember
    <2>2. NotJoining \in JoinRow /\ NotJoining.pc = "idle"
      BY DEF NotJoining, JoinRow, NoGroup, GroupRow
    <2>3. \A y \in Users : joins'[y] = IF y = u THEN NotJoining ELSE joins[y]
      BY <1>t, <2>1
    <2>4. GroupTypes'
      BY <1>t, <2>1, <2>2 DEF GroupTypes
    <2>5. NotFoundYet'
      BY <2>1, <2>2, <2>3 DEF GroupInv, NotFoundYet
    <2>6. MemberIds' \subseteq MemberIds \cup {u}
      BY <1>t, <2>1 DEF MemberIds
    <2>7. ASSUME NEW y \in Users, Counted(y)'
          PROVE  Counted(y) /\ joins'[y] = joins[y] /\ u \in joins[y].beside
      <3>1. y # u /\ joins'[y] = joins[y]
        BY <2>2, <2>3, <2>7 DEF Counted
      <3>2. Counted(y) /\ Counted(u)
        BY <2>1, <2>7, <3>1 DEF Counted
      <3> QED
        BY <3>1, <3>2 DEF GroupInv, BesideFits
    <2>8. BesideFits'
      BY <2>1, <2>4, <2>6, <2>7, CountsKeep DEF GroupTypes
    <2> QED
      BY <2>4, <2>5, <2>8 DEF GroupInv
  <1>10. ASSUME NEW e \in GroupEditors,
               assertOwnerOrAdmin(e) \/ updateGroup(e) \/ generateInviteCode(e) \/ SetGate(e) \/ deleteGroup(e)
        PROVE  GroupInv'
    <2>1. UNCHANGED <<creation, members, joins>>
      BY <1>10 DEF assertOwnerOrAdmin, updateGroup, generateInviteCode, SetGate, deleteGroup, SaveGroup
    <2>2. PICK r : r = groupEdits[e] /\ r \in GroupEditRow
      BY <1>t
    <2>3. r.row \in GroupRow
      BY <2>2 DEF GroupEditRow
    <2>4. NotEditingGroup \in GroupEditRow
      BY DEF NotEditingGroup, GroupEditRow, NoGroup, GroupRow
    <2>5. CASE assertOwnerOrAdmin(e)
      <3>1. PICK x : x = [pc |-> "loaded", row |-> group, members |-> MemberIds]
        OBVIOUS
      <3>2. x \in GroupEditRow
        BY <1>t, <3>1 DEF GroupEditRow, MemberIds
      <3>3. groupEdits' = [groupEdits EXCEPT ![e] = x] /\ UNCHANGED <<group, lastCode>>
        BY <2>5, <3>1 DEF assertOwnerOrAdmin
      <3>4. groupEdits' \in [GroupEditors -> GroupEditRow]
        BY <1>t, <3>2, <3>3
      <3>5. creation \notin {"start", "synced"}
        BY <2>5 DEF assertOwnerOrAdmin, Live, GroupInv, NotFoundYet
      <3> QED
        BY <1>t, <2>1, <3>3, <3>4, <3>5, EditsKeep
    <2>6. CASE updateGroup(e) \/ generateInviteCode(e) \/ SetGate(e) \/ deleteGroup(e)
      <3>0. r.pc = "loaded"
        BY <2>2, <2>6 DEF updateGroup, generateInviteCode, SetGate, deleteGroup, SaveGroup
      <3>1. groupEdits' = [groupEdits EXCEPT ![e] = NotEditingGroup]
        BY <2>6 DEF updateGroup, generateInviteCode, SetGate, deleteGroup, SaveGroup, EndEdit
      <3>2. groupEdits' \in [GroupEditors -> GroupEditRow]
        BY <1>t, <2>4, <3>1
      <3>3. lastCode' \in Nat
        BY <1>t, <2>6 DEF updateGroup, generateInviteCode, SetGate, deleteGroup
      <3>4. group' \in GroupRow
        <4>1. CASE updateGroup(e)
          <5>1. PICK max \in Sizes : group' \in {group, [r.row EXCEPT !.maxMembers = max]}
            BY <2>2, <4>1 DEF updateGroup, SaveGroup
          <5> QED
            BY <1>a, <1>t, <2>3, <5>1 DEF GroupRow
        <4>2. CASE generateInviteCode(e)
          BY <2>2, <4>2, <1>t, <2>3 DEF generateInviteCode, SaveGroup, GroupRow
        <4>3. CASE SetGate(e)
          <5>1. PICK gated \in BOOLEAN : group' \in {group, [r.row EXCEPT !.isTokenGated = gated]}
            BY <2>2, <4>3 DEF SetGate, SaveGroup
          <5> QED
            BY <1>t, <2>3, <5>1 DEF GroupRow
        <4>4. CASE deleteGroup(e)
          <5>1. group' = [group EXCEPT !.deleted = TRUE]
            BY <4>4 DEF deleteGroup
          <5> QED
            BY <1>t, <5>1 DEF GroupRow
        <4> QED
          BY <2>6, <4>1, <4>2, <4>3, <4>4
      <3>5. creation \notin {"start", "synced"}
        BY <2>2, <3>0 DEF GroupInv, NotFoundYet
      <3> QED
        BY <2>1, <3>2, <3>3, <3>4, <3>5, EditsKeep
    <2> QED
      BY <1>10, <2>5, <2>6
  <1> QED
    BY <1>1, <1>2, <1>3, <1>4, <1>6, <1>7, <1>8, <1>9, <1>10 DEF GroupsNext

\* A step in which a join finds a place beside the members it did not overlap.
CapacityStep ==
    \A u \in Users : (members[u] = "none" /\ members'[u] = "member") =>
          Cardinality(MemberIds \ joins[u].beside) < joins[u].group.maxMembers

\* Every step of the groups is such a step.
LEMMA GroupsFit == GroupInv /\ [GroupsNext]_groupVars => [CapacityStep]_groupVars
  <1> SUFFICES ASSUME GroupInv, GroupsNext, NEW u \in Users,
                      members[u] = "none", members'[u] = "member"
               PROVE  Cardinality(MemberIds \ joins[u].beside) < joins[u].group.maxMembers
    BY DEF CapacityStep
  <1>t. members \in [Users -> {"none", "owner", "member"}] /\ Creator \in Users
    BY GroupAssumption DEF GroupAssumption, GroupInv, GroupTypes
  <1>1. CASE addMember(u)
    BY <1>1 DEF addMember, GroupInv, BesideFits, Counted
  <1>2. ASSUME NEW y \in Users, y # u, addMember(y) PROVE FALSE
    BY <1>2, <1>t DEF addMember
  <1>3. ASSUME AddOwner PROVE FALSE
    BY <1>3, <1>t DEF AddOwner
  <1>4. ASSUME syncOnChain \/ SaveNewGroup \/ CreationCrashes PROVE FALSE
    BY <1>4 DEF syncOnChain, SaveNewGroup, CreationCrashes
  <1>5. ASSUME NEW y \in Users, \/ isMember(y) \/ assertCanJoin(y) \/ verifyTokenGate(y)
                                \/ \E k \in 1 .. MaxGroupEdits : findByInviteCode(y, k)
        PROVE  FALSE
    BY <1>5 DEF isMember, assertCanJoin, verifyTokenGate, findByInviteCode
  <1>6. ASSUME NEW e \in GroupEditors,
               assertOwnerOrAdmin(e) \/ updateGroup(e) \/ generateInviteCode(e) \/ SetGate(e) \/ deleteGroup(e)
        PROVE  FALSE
    BY <1>6 DEF assertOwnerOrAdmin, updateGroup, generateInviteCode, SetGate, deleteGroup, SaveGroup
  <1> QED
    BY <1>1, <1>2, <1>3, <1>4, <1>5, <1>6 DEF GroupsNext

--------------------------------------------------------------------------------
(* Cached fees                                                             *)

CacheTypes ==
    /\ cacheClock \in Nat /\ expiresOnly \in BOOLEAN /\ source \in Nat \ {0} /\ cacheFaults \in Nat
    /\ replacedAt \in Seq(Nat) /\ Len(replacedAt) = source - 1
    /\ cached \in [version : Nat, until : Nat, fresh : BOOLEAN]
    /\ reading \in [CacheReaders -> [pc : {"idle", "fetch", "set"}, version : Nat, since : Nat]]
    /\ updating \in [Updaters -> [pc : {"idle", "save", "del", "record"}, previous : Nat, new : Nat]]

\* Version v was in the database at a time t or later.
CurrentSince(v, t) == v \in 1 .. source /\ t <= cacheClock /\ (v < source => t <= replacedAt[v])

\* A miss is young; what it fetched was in the database since it began.
ReadsFit ==
    \A r \in CacheReaders :
        /\ reading[r].pc # "idle" => cacheClock <= reading[r].since + MaxRead /\ reading[r].since <= cacheClock
        /\ reading[r].pc = "set" => CurrentSince(reading[r].version, reading[r].since)

\* The entry was stored by a miss that began within MaxRead seconds before.
EntryFits ==
    cached.version # 0 =>
        \E t \in Nat : CurrentSince(cached.version, t) /\ cached.until <= t + MaxRead + Ttl

\* A fresh entry was current until an update at hand saved over it.
FreshFits ==
    (~expiresOnly /\ cached.version # 0 /\ cached.fresh /\ cached.version < source /\ cacheFaults = 0) =>
        \E u \in Updaters : updating[u].pc = "del"

\* An update saves a later version than the one it loaded.
UpdatesFit ==
    \A u \in Updaters :
        /\ updating[u].pc \in {"idle", "save"} => updating[u].new = 0
        /\ updating[u].pc = "save" => updating[u].previous <= source
        /\ updating[u].pc \in {"del", "record"} => updating[u].previous < updating[u].new

CacheInv == CacheTypes /\ ReadsFit /\ EntryFits /\ FreshFits /\ UpdatesFit /\ HistoryIsComplete

\* It holds at the start.
LEMMA CacheInitially == CacheInit => CacheInv
  <1> SUFFICES ASSUME CacheInit PROVE CacheInv
    OBVIOUS
  <1>1. CacheTypes
    BY DEF CacheInit, CacheTypes, NoEntry, NotReading, NotUpdating
  <1>2. ReadsFit /\ EntryFits /\ FreshFits /\ UpdatesFit /\ HistoryIsComplete
    BY DEF CacheInit, NoEntry, NotReading, NotUpdating, ReadsFit, EntryFits, FreshFits, UpdatesFit,
           HistoryIsComplete
  <1> QED
    BY <1>1, <1>2 DEF CacheInv

\* A version that was in the database since a time stays so, whether the clock goes on
\* or the value is replaced.
LEMMA SinceStays ==
  ASSUME CacheTypes, NEW v \in Nat, NEW t \in Nat, CurrentSince(v, t),
         \/ cacheClock' \in {cacheClock, cacheClock + 1} /\ UNCHANGED <<source, replacedAt>>
         \/ Replace /\ UNCHANGED cacheClock
  PROVE  CurrentSince(v, t)'
  <1>1. cacheClock \in Nat /\ source \in Nat \ {0} /\ replacedAt \in Seq(Nat) /\ Len(replacedAt) = source - 1
    BY DEF CacheTypes
  <1>2. CASE cacheClock' \in {cacheClock, cacheClock + 1} /\ UNCHANGED <<source, replacedAt>>
    BY <1>1, <1>2 DEF CurrentSince
  <1>3. CASE Replace /\ UNCHANGED cacheClock
    <2>1. source' = source + 1 /\ replacedAt' = Append(replacedAt, cacheClock)
      BY <1>3 DEF Replace
    <2>2. \A k \in 1 .. source : replacedAt'[k] = IF k = source THEN cacheClock ELSE replacedAt[k]
      BY <1>1, <2>1
    <2>3. v \in 1 .. source' /\ t <= cacheClock' /\ v \in 1 .. source
      BY <1>1, <1>3, <2>1 DEF CurrentSince
    <2>4. CASE v = source
      BY <1>1, <2>2, <2>3, <2>4, <1>3 DEF CurrentSince
    <2>5. CASE v # source
      <3>1. v < source
        BY <1>1, <2>3, <2>5
      <3> QED
        BY <2>2, <2>3, <2>5, <3>1 DEF CurrentSince
    <2> QED
      BY <2>4, <2>5
  <1> QED
    BY <1>2, <1>3

\* A replacement keeps the kinds of values and what readers and the cache rely on.
LEMMA ReplaceKeeps ==
  ASSUME CacheInv, Replace, UNCHANGED <<cacheClock, expiresOnly, cached, reading>>
  PROVE  /\ source' \in Nat \ {0} /\ replacedAt' \in Seq(Nat) /\ Len(replacedAt') = source' - 1
         /\ source' = source + 1 /\ ReadsFit' /\ EntryFits'
  <1>1. /\ cacheClock \in Nat /\ source \in Nat \ {0} /\ replacedAt \in Seq(Nat) /\ Len(replacedAt) = source - 1
        /\ CacheTypes /\ ReadsFit /\ EntryFits /\ MaxRead \in Nat /\ Ttl \in Nat
        /\ cached \in [version : Nat, until : Nat, fresh : BOOLEAN]
        /\ reading \in [CacheReaders -> [pc : {"idle", "fetch", "set"}, version : Nat, since : Nat]]
    BY CacheAssumption DEF CacheInv, CacheTypes, CacheAssumption
  <1>2. source' = source + 1 /\ replacedAt' = Append(replacedAt, cacheClock)
    BY DEF Replace
  <1>3. source' \in Nat \ {0} /\ replacedAt' \in Seq(Nat) /\ Len(replacedAt') = source' - 1
    BY <1>1, <1>2
  <1>4. \A v \in Nat, t \in Nat : CurrentSince(v, t) => CurrentSince(v, t)'
    BY <1>1, SinceStays
  <1>5. EntryFits'
    <2> SUFFICES ASSUME cached.version # 0
                 PROVE  \E t \in Nat : CurrentSince(cached.version, t)' /\ cached.until <= t + MaxRead + Ttl
      BY DEF EntryFits, CurrentSince
    <2>1. PICK t \in Nat : CurrentSince(cached.version, t) /\ cached.until <= t + MaxRead + Ttl
      BY <1>1 DEF EntryFits
    <2>2. PICK v \in Nat : v = cached.version
      BY <1>1
    <2>3. CurrentSince(v, t)'
      BY <1>4, <2>1, <2>2
    <2> QED
      BY <2>1, <2>2, <2>3 DEF CurrentSince
  <1>6. ReadsFit'
    <2> SUFFICES ASSUME NEW r \in CacheReaders
                 PROVE  /\ reading[r].pc # "idle" => cacheClock <= reading[r].since + MaxRead /\ reading[r].since <= cacheClock
                        /\ reading[r].pc = "set" => CurrentSince(reading[r].version, reading[r].since)'
      BY DEF ReadsFit, CurrentSince
    <2>1. PICK v \in Nat, t \in Nat : v = reading[r].version /\ t = reading[r].since
      BY <1>1
    <2>2. reading[r].pc = "set" => CurrentSince(v, t)'
      BY <1>1, <1>4, <2>1 DEF ReadsFit
    <2> QED
      BY <1>1, <2>1, <2>2 DEF ReadsFit, CurrentSince
  <1> QED
    BY <1>2, <1>3, <1>5, <1>6

\* Every step keeps it.
LEMMA CacheInvStep == CacheInv /\ [CacheNext]_cacheVars => CacheInv'
  <1> SUFFICES ASSUME CacheInv, [CacheNext]_cacheVars PROVE CacheInv'
    OBVIOUS
  <1>t. /\ cacheClock \in Nat /\ expiresOnly \in BOOLEAN /\ source \in Nat \ {0} /\ cacheFaults \in Nat
        /\ replacedAt \in Seq(Nat) /\ Len(replacedAt) = source - 1
        /\ cached \in [version : Nat, until : Nat, fresh : BOOLEAN]
        /\ reading \in [CacheReaders -> [pc : {"idle", "fetch", "set"}, version : Nat, since : Nat]]
        /\ updating \in [Updaters -> [pc : {"idle", "save", "del", "record"}, previous : Nat, new : Nat]]
        /\ Ttl \in Nat /\ MaxRead \in Nat /\ CacheTypes
        /\ ReadsFit /\ EntryFits /\ FreshFits /\ UpdatesFit /\ HistoryIsComplete
    BY CacheAssumption DEF CacheInv, CacheTypes, CacheAssumption
  <1>1. CASE UNCHANGED cacheVars
    BY <1>1 DEF CacheInv, CacheTypes, ReadsFit, EntryFits, FreshFits, UpdatesFit, HistoryIsComplete,
                CurrentSince, cacheVars
  <1>2. CASE CacheTick
    <2>1. cacheClock' = cacheClock + 1
          /\ UNCHANGED <<expiresOnly, source, replacedAt, cached, reading, updating, feeHistory, cacheFaults>>
          /\ \A r \in CacheReaders : reading[r].pc # "idle" => cacheClock < reading[r].since + MaxRead
      BY <1>2 DEF CacheTick
    <2>2. CacheTypes' /\ FreshFits' /\ UpdatesFit' /\ HistoryIsComplete'
      BY <1>t, <2>1 DEF CacheTypes, FreshFits, UpdatesFit, HistoryIsComplete
    <2>3. \A v \in Nat, t \in Nat : CurrentSince(v, t) => CurrentSince(v, t)'
      BY <1>t, <2>1, SinceStays
    <2>4. EntryFits'
      <3> SUFFICES ASSUME cached.version # 0
                   PROVE  \E t \in Nat : CurrentSince(cached.version, t)' /\ cached.until <= t + MaxRead + Ttl
        BY <2>1 DEF EntryFits, CurrentSince
      <3>1. PICK t \in Nat : CurrentSince(cached.version, t) /\ cached.until <= t + MaxRead + Ttl
        BY <1>t DEF EntryFits
      <3>2. PICK v \in Nat : v = cached.version
        BY <1>t
      <3>3. CurrentSince(v, t)'
        BY <2>3, <3>1, <3>2
      <3> QED
        BY <2>1, <3>1, <3>2, <3>3 DEF CurrentSince
    <2>5. ReadsFit'
      <3> SUFFICES ASSUME NEW r \in CacheReaders
                   PROVE  /\ reading[r].pc # "idle" => cacheClock' <= reading[r].since + MaxRead /\ reading[r].since <= cacheClock'
                          /\ reading[r].pc = "set" => CurrentSince(reading[r].version, reading[r].since)'
        BY <2>1 DEF ReadsFit, CurrentSince
      <3>1. PICK v \in Nat, t \in Nat : v = reading[r].version /\ t = reading[r].since
        BY <1>t
      <3>2. reading[r].pc = "set" => CurrentSince(v, t)'
        BY <1>t, <2>3, <3>1 DEF ReadsFit
      <3>3. reading[r].pc # "idle" => cacheClock' <= t + MaxRead /\ t <= cacheClock'
        BY <1>t, <2>1, <3>1 DEF ReadsFit
      <3> QED
        BY <2>1, <3>1, <3>2, <3>3 DEF CurrentSince
    <2> QED
      BY <2>2, <2>4, <2>5 DEF CacheInv
  <1>3. ASSUME NEW r \in CacheReaders, NEW x, reading' = [reading EXCEPT ![r] = x],
               x \in [pc : {"idle", "fetch", "set"}, version : Nat, since : Nat],
               /\ x.pc # "idle" => cacheClock <= x.since + MaxRead /\ x.since <= cacheClock
               /\ x.pc = "set" => CurrentSince(x.version, x.since),
               UNCHANGED <<cacheClock, expiresOnly, source, replacedAt, updating, feeHistory, cacheFaults>>,
               \/ UNCHANGED cached
               \/ /\ cached' \in [version : Nat, until : Nat, fresh : BOOLEAN] /\ EntryFits'
                  /\ cached'.version < source => ~cached'.fresh
        PROVE  CacheInv'
    <2>1. CacheTypes' /\ UpdatesFit' /\ HistoryIsComplete'
      BY <1>t, <1>3 DEF CacheTypes, UpdatesFit, HistoryIsComplete
    <2>2. \A y \in CacheReaders : reading'[y] = IF y = r THEN x ELSE reading[y]
      BY <1>t, <1>3
    <2>3. ReadsFit'
      BY <1>t, <1>3, <2>2 DEF ReadsFit, CurrentSince
    <2>4. EntryFits' /\ FreshFits'
      BY <1>t, <1>3 DEF EntryFits, FreshFits, CurrentSince
    <2> QED
      BY <2>1, <2>3, <2>4 DEF CacheInv
  <1>4. ASSUME NEW r \in CacheReaders, GetMisses(r) PROVE CacheInv'
    <2>1. PICK x : x = [pc |-> "fetch", version |-> 0, since |-> cacheClock]
      OBVIOUS
    <2>2. x \in [pc : {"idle", "fetch", "set"}, version : Nat, since : Nat] /\ x.pc = "fetch" /\ x.since = cacheClock
      BY <1>t, <2>1
    <2>3. reading' = [reading EXCEPT ![r] = x]
          /\ UNCHANGED <<cacheClock, expiresOnly, source, replacedAt, cached, updating, feeHistory, cacheFaults>>
      BY <1>4, <2>1 DEF GetMisses
    <2>4. cacheClock <= x.since + MaxRead /\ x.since <= cacheClock
      BY <1>t, <2>2
    <2> QED
      BY <1>3, <2>2, <2>3, <2>4
  <1>5. ASSUME NEW r \in CacheReaders, Fetch(r) PROVE CacheInv'
    <2>1. PICK x : x = [reading[r] EXCEPT !.pc = "set", !.version = source]
      OBVIOUS
    <2>2. x \in [pc : {"idle", "fetch", "set"}, version : Nat, since : Nat] /\ x.pc = "set" /\ x.since = reading[r].since
          /\ x.version = source
      <3>1. PICK y \in [pc : {"idle", "fetch", "set"}, version : Nat, since : Nat] : y = reading[r]
        BY <1>t
      <3>2. x = [y EXCEPT !.pc = "set", !.version = source]
        BY <2>1, <3>1
      <3>3. x = [pc |-> "set", version |-> source, since |-> y.since]
        BY <3>1, <3>2
      <3> QED
        BY <1>t, <3>1, <3>3
    <2>3. reading' = [reading EXCEPT ![r] = x] /\ reading[r].pc = "fetch"
          /\ UNCHANGED <<cacheClock, expiresOnly, source, replacedAt, cached, updating, feeHistory, cacheFaults>>
      BY <1>t, <1>5, <2>1 DEF Fetch
    <2>4. cacheClock <= x.since + MaxRead /\ x.since <= cacheClock
      BY <1>t, <2>2, <2>3 DEF ReadsFit
    <2>5. CurrentSince(x.version, x.since)
      BY <1>t, <2>2, <2>4 DEF CurrentSince
    <2> QED
      BY <1>3, <2>2, <2>3, <2>4, <2>5
  <1>6. ASSUME NEW r \in CacheReaders, Store(r) PROVE CacheInv'
    <2>1. /\ reading' = [reading EXCEPT ![r] = NotReading] /\ reading[r].pc = "set"
          /\ cached' = [version |-> reading[r].version, until |-> cacheClock + Ttl, fresh |-> reading[r].version = source]
          /\ UNCHANGED <<cacheClock, expiresOnly, source, replacedAt, updating, feeHistory, cacheFaults>>
      BY <1>6 DEF Store, Expiry
    <2>2. PICK v \in Nat, t \in Nat : v = reading[r].version /\ t = reading[r].since
      BY <1>t
    <2>3. CurrentSince(v, t) /\ cacheClock <= t + MaxRead
      BY <1>t, <2>1, <2>2 DEF ReadsFit
    <2>4. cached' \in [version : Nat, until : Nat, fresh : BOOLEAN] /\ cached'.version = v
          /\ cached'.until = cacheClock + Ttl /\ cached'.fresh = (v = source)
      BY <1>t, <2>1, <2>2
    <2>5. CurrentSince(v, t)' /\ cached'.until <= t + MaxRead + Ttl
      BY <1>t, <2>1, <2>3, <2>4 DEF CurrentSince
    <2>6. EntryFits'
      <3>1. CurrentSince(cached.version, t)'
        BY <2>4, <2>5 DEF CurrentSince
      <3> QED
        BY <2>5, <3>1 DEF EntryFits
    <2>7. cached'.version < source => ~cached'.fresh
      BY <1>t, <2>4
    <2>8. NotReading \in [pc : {"idle", "fetch", "set"}, version : Nat, since : Nat] /\ NotReading.pc = "idle"
      BY DEF NotReading
    <2> QED
      BY <1>3, <2>1, <2>4, <2>6, <2>7, <2>8
  <1>7. ASSUME NEW u \in Updaters, NEW x, updating' = [updating EXCEPT ![u] = x],
               x \in [pc : {"idle", "save", "del", "record"}, previous : Nat, new : Nat],
               /\ x.pc \in {"idle", "save"} => x.new = 0
               /\ x.pc = "save" => x.previous <= source
               /\ x.pc \in {"del", "record"} => x.previous < x.new
        PROVE  /\ updating' \in [Updaters -> [pc : {"idle", "save", "del", "record"}, previous : Nat, new : Nat]]
               /\ \A y \in Updaters : updating'[y] = IF y = u THEN x ELSE updating[y]
               /\ source' \in {source, source + 1} => UpdatesFit'
    <2>1. \A y \in Updaters : updating'[y] = IF y = u THEN x ELSE updating[y]
      BY <1>t, <1>7
    <2>2. source' \in {source, source + 1} => UpdatesFit'
      <3> SUFFICES ASSUME source' \in {source, source + 1}, NEW y \in Updaters
                   PROVE  /\ updating'[y].pc \in {"idle", "save"} => updating'[y].new = 0
                          /\ updating'[y].pc = "save" => updating'[y].previous <= source'
                          /\ updating'[y].pc \in {"del", "record"} => updating'[y].previous < updating'[y].new
        BY DEF UpdatesFit
      <3>1. PICK z : z = updating'[y]
        OBVIOUS
      <3>2. /\ z.pc \in {"idle", "save"} => z.new = 0
            /\ z.pc = "save" => z.previous <= source
            /\ z.pc \in {"del", "record"} => z.previous < z.new
        BY <1>t, <1>7, <2>1, <3>1 DEF UpdatesFit
      <3>3. z.previous \in Nat
        BY <1>t, <1>7, <2>1, <3>1
      <3> QED
        BY <1>t, <3>1, <3>2, <3>3
    <2> QED
      BY <1>t, <1>7, <2>1, <2>2
  <1>8. ASSUME NEW u \in Updaters, UpdateLoad(u) PROVE CacheInv'
    <2>1. PICK x : x = [pc |-> "save", previous |-> source, new |-> 0]
      OBVIOUS
    <2>2. x \in [pc : {"idle", "save", "del", "record"}, previous : Nat, new : Nat] /\ x.pc = "save" /\ x.new = 0
          /\ x.previous = source
      BY <1>t, <2>1
    <2>3. updating' = [updating EXCEPT ![u] = x] /\ updating[u].pc = "idle"
          /\ UNCHANGED <<cacheClock, expiresOnly, source, replacedAt, cached, reading, feeHistory, cacheFaults>>
      BY <1>8, <2>1 DEF UpdateLoad
    <2>4. /\ updating' \in [Updaters -> [pc : {"idle", "save", "del", "record"}, previous : Nat, new : Nat]]
          /\ \A y \in Updaters : updating'[y] = IF y = u THEN x ELSE updating[y]
          /\ UpdatesFit'
      <3>1. x.previous <= source /\ source' = source
        BY <1>t, <2>2, <2>3
      <3> QED
        BY <1>7, <2>2, <2>3, <3>1
    <2>5. CacheTypes' /\ ReadsFit' /\ EntryFits'
      BY <1>t, <2>3, <2>4 DEF CacheTypes, ReadsFit, EntryFits, CurrentSince
    <2>6. FreshFits'
      BY <1>t, <2>2, <2>3, <2>4 DEF FreshFits
    <2>7. HistoryIsComplete'
      <3> SUFFICES ASSUME ~expiresOnly, cacheFaults = 0, NEW v \in 2 .. source
                   PROVE  \/ \E h \in feeHistory : h.new = v /\ h.previous < v
                          \/ \E y \in Updaters : updating'[y].new = v
        BY <2>3 DEF HistoryIsComplete
      <3>1. CASE \E h \in feeHistory : h.new = v /\ h.previous < v
        BY <3>1
      <3>2. ASSUME NEW y \in Updaters, updating[y].new = v PROVE y # u
        <4>1. updating[u].new = 0
          BY <1>t, <2>3 DEF UpdatesFit
        <4> QED
          BY <3>2, <4>1
      <3> QED
        BY <1>t, <2>4, <3>1, <3>2 DEF HistoryIsComplete
    <2> QED
      BY <2>4, <2>5, <2>6, <2>7 DEF CacheInv
  <1>9. ASSUME NEW u \in Updaters, UpdateSave(u) PROVE CacheInv'
    <2>1. PICK x : x = [updating[u] EXCEPT !.pc = "del", !.new = source + 1]
      OBVIOUS
    <2>2. x \in [pc : {"idle", "save", "del", "record"}, previous : Nat, new : Nat] /\ x.pc = "del"
          /\ x.new = source + 1 /\ x.previous = updating[u].previous
      <3>1. PICK y \in [pc : {"idle", "save", "del", "record"}, previous : Nat, new : Nat] : y = updating[u]
        BY <1>t
      <3>2. x = [y EXCEPT !.pc = "del", !.new = source + 1]
        BY <2>1, <3>1
      <3>3. x = [pc |-> "del", previous |-> y.previous, new |-> source + 1]
        BY <3>1, <3>2
      <3> QED
        BY <1>t, <3>1, <3>3
    <2>3. updating' = [updating EXCEPT ![u] = x] /\ updating[u].pc = "save" /\ Replace
          /\ UNCHANGED <<cacheClock, expiresOnly, cached, reading, feeHistory, cacheFaults>>
      BY <1>t, <1>9, <2>1 DEF UpdateSave
    <2>4. /\ source' \in Nat \ {0} /\ replacedAt' \in Seq(Nat) /\ Len(replacedAt') = source' - 1
          /\ source' = source + 1 /\ ReadsFit' /\ EntryFits'
      BY <2>3, ReplaceKeeps
    <2>5. updating[u].new = 0 /\ x.previous < x.new
      BY <1>t, <2>3, <2>2 DEF UpdatesFit
    <2>6. /\ updating' \in [Updaters -> [pc : {"idle", "save", "del", "record"}, previous : Nat, new : Nat]]
          /\ \A y \in Updaters : updating'[y] = IF y = u THEN x ELSE updating[y]
          /\ UpdatesFit'
      BY <1>7, <2>2, <2>3, <2>4, <2>5
    <2>7. CacheTypes'
      BY <1>t, <2>3, <2>4, <2>6 DEF CacheTypes
    <2>8. FreshFits'
      BY <2>2, <2>6 DEF FreshFits
    <2>9. HistoryIsComplete'
      <3> SUFFICES ASSUME ~expiresOnly, cacheFaults = 0, NEW v \in 2 .. source'
                   PROVE  \/ \E h \in feeHistory : h.new = v /\ h.previous < v
                          \/ \E y \in Updaters : updating'[y].new = v
        BY <2>3 DEF HistoryIsComplete
      <3>1. CASE v = source + 1
        BY <2>2, <2>6, <3>1
      <3>2. CASE v # source + 1
        <4>1. v \in 2 .. source
          BY <1>t, <2>4, <3>2
        <4>2. CASE \E h \in feeHistory : h.new = v /\ h.previous < v
          BY <4>2
        <4>3. ASSUME NEW y \in Updaters, updating[y].new = v PROVE \E z \in Updaters : updating'[z].new = v
          <5>1. y # u
            BY <2>5, <4>1, <4>3
          <5> QED
            BY <2>6, <4>3, <5>1
        <4> QED
          BY <1>t, <4>1, <4>2, <4>3 DEF HistoryIsComplete
      <3> QED
        BY <3>1, <3>2
    <2> QED
      BY <2>4, <2>6, <2>7, <2>8, <2>9 DEF CacheInv
  <1>10. CASE SourceChanges
    <2>1. expiresOnly /\ Replace /\ UNCHANGED <<cacheClock, expiresOnly, cached, reading, updating, feeHistory, cacheFaults>>
      BY <1>10 DEF SourceChanges
    <2>2. /\ source' \in Nat \ {0} /\ replacedAt' \in Seq(Nat) /\ Len(replacedAt') = source' - 1
          /\ source' = source + 1 /\ ReadsFit' /\ EntryFits'
      BY <2>1, ReplaceKeeps
    <2>3. CacheTypes' /\ FreshFits' /\ HistoryIsComplete'
      BY <1>t, <2>1, <2>2 DEF CacheTypes, FreshFits, HistoryIsComplete
    <2>4. UpdatesFit'
      <3> SUFFICES ASSUME NEW y \in Updaters, updating[y].pc = "save"
                   PROVE  updating[y].previous <= source + 1
        BY <1>t, <2>1, <2>2 DEF UpdatesFit
      <3>1. updating[y].previous <= source /\ updating[y].previous \in Nat
        BY <1>t DEF UpdatesFit
      <3> QED
        BY <1>t, <3>1
    <2> QED
      BY <2>2, <2>3, <2>4 DEF CacheInv
  <1>11. ASSUME NEW u \in Updaters, UpdateDel(u) PROVE CacheInv'
    <2>1. PICK x : x = [updating[u] EXCEPT !.pc = "record"]
      OBVIOUS
    <2>2. x \in [pc : {"idle", "save", "del", "record"}, previous : Nat, new : Nat] /\ x.pc = "record"
          /\ x.new = updating[u].new /\ x.previous = updating[u].previous
      BY <1>t, <2>1
    <2>3. updating' = [updating EXCEPT ![u] = x] /\ updating[u].pc = "del" /\ cached' = NoEntry
          /\ UNCHANGED <<cacheClock, expiresOnly, source, replacedAt, reading, feeHistory, cacheFaults>>
      BY <1>t, <1>11, <2>1 DEF UpdateDel
    <2>4. x.previous < x.new
      BY <1>t, <2>2, <2>3 DEF UpdatesFit
    <2>5. /\ updating' \in [Updaters -> [pc : {"idle", "save", "del", "record"}, previous : Nat, new : Nat]]
          /\ \A y \in Updaters : updating'[y] = IF y = u THEN x ELSE updating[y]
          /\ UpdatesFit'
      BY <1>7, <1>t, <2>2, <2>3, <2>4
    <2>6. CacheTypes' /\ EntryFits' /\ FreshFits'
      BY <1>t, <2>3, <2>5 DEF CacheTypes, EntryFits, FreshFits, NoEntry
    <2>7. ReadsFit'
      BY <1>t, <2>3 DEF ReadsFit, CurrentSince
    <2>8. \A y \in Updaters : updating'[y].new = updating[y].new
      BY <2>2, <2>5
    <2>9. HistoryIsComplete'
      BY <1>t, <2>3, <2>8 DEF HistoryIsComplete
    <2> QED
      BY <2>5, <2>6, <2>7, <2>9 DEF CacheInv
  <1>12. ASSUME NEW u \in Updaters, recordFeeHistory(u) PROVE CacheInv'
    <2>1. NotUpdating \in [pc : {"idle", "save", "del", "record"}, previous : Nat, new : Nat]
          /\ NotUpdating.pc = "idle" /\ NotUpdating.new = 0
      BY DEF NotUpdating
    <2>2. updating' = [updating EXCEPT ![u] = NotUpdating] /\ updating[u].pc = "record"
          /\ feeHistory' = feeHistory \cup {[previous |-> updating[u].previous, new |-> updating[u].new]}
          /\ UNCHANGED <<cacheClock, expiresOnly, source, replacedAt, cached, reading, cacheFaults>>
      BY <1>12 DEF recordFeeHistory
    <2>3. /\ updating' \in [Updaters -> [pc : {"idle", "save", "del", "record"}, previous : Nat, new : Nat]]
          /\ \A y \in Updaters : updating'[y] = IF y = u THEN NotUpdating ELSE updating[y]
          /\ UpdatesFit'
      BY <1>7, <1>t, <2>1, <2>2
    <2>4. CacheTypes' /\ ReadsFit' /\ EntryFits' /\ FreshFits'
      BY <1>t, <2>2, <2>3 DEF CacheTypes, ReadsFit, EntryFits, FreshFits, CurrentSince
    <2>5. HistoryIsComplete'
      <3> SUFFICES ASSUME ~expiresOnly, cacheFaults = 0, NEW v \in 2 .. source
                   PROVE  \/ \E h \in feeHistory' : h.new = v /\ h.previous < v
                          \/ \E y \in Updaters : updating'[y].new = v
        BY <2>2 DEF HistoryIsComplete
      <3>1. CASE \E h \in feeHistory : h.new = v /\ h.previous < v
        BY <2>2, <3>1
      <3>2. CASE updating[u].new = v
        <4>1. updating[u].previous < v
          BY <1>t, <2>2, <3>2 DEF UpdatesFit
        <4>2. PICK h : h = [previous |-> updating[u].previous, new |-> updating[u].new]
          OBVIOUS
        <4>3. h \in feeHistory' /\ h.new = v /\ h.previous < v
          BY <2>2, <3>2, <4>1, <4>2
        <4> QED
          BY <4>3
      <3>3. ASSUME NEW y \in Updaters, y # u, updating[y].new = v PROVE \E z \in Updaters : updating'[z].new = v
        BY <2>3, <3>3
      <3> QED
        BY <1>t, <3>1, <3>2, <3>3 DEF HistoryIsComplete
    <2> QED
      BY <2>3, <2>4, <2>5 DEF CacheInv
  <1>13. ASSUME NEW u \in Updaters, UpdateFails(u) PROVE CacheInv'
    <2>1. NotUpdating \in [pc : {"idle", "save", "del", "record"}, previous : Nat, new : Nat]
          /\ NotUpdating.pc = "idle" /\ NotUpdating.new = 0
      BY DEF NotUpdating
    <2>2. updating' = [updating EXCEPT ![u] = NotUpdating] /\ cacheFaults' = cacheFaults + 1
          /\ UNCHANGED <<cacheClock, expiresOnly, source, replacedAt, cached, reading, feeHistory>>
      BY <1>13 DEF UpdateFails
    <2>3. /\ updating' \in [Updaters -> [pc : {"idle", "save", "del", "record"}, previous : Nat, new : Nat]]
          /\ UpdatesFit'
      BY <1>7, <1>t, <2>1, <2>2
    <2>4. CacheTypes' /\ ReadsFit' /\ EntryFits'
      BY <1>t, <2>2, <2>3 DEF CacheTypes, ReadsFit, EntryFits, CurrentSince
    <2>5. FreshFits' /\ HistoryIsComplete'
      BY <1>t, <2>2 DEF FreshFits, HistoryIsComplete
    <2> QED
      BY <2>3, <2>4, <2>5 DEF CacheInv
  <1>14. CASE flushCache
    BY <1>14, <1>t DEF flushCache, CacheTypes, EntryFits, FreshFits, NoEntry, ReadsFit, UpdatesFit,
       HistoryIsComplete, CurrentSince, CacheInv
  <1> QED
    BY <1>1, <1>2, <1>4, <1>5, <1>6, <1>8, <1>9, <1>10, <1>11, <1>12, <1>13, <1>14 DEF CacheNext

\* What it says of stale reads and of the history.
LEMMA CacheKept == CacheInv => BoundedStaleness /\ NoQuietStale /\ HistoryIsComplete
  <1> SUFFICES ASSUME CacheInv PROVE BoundedStaleness /\ NoQuietStale /\ HistoryIsComplete
    OBVIOUS
  <1>1. BoundedStaleness
    <2> SUFFICES ASSUME cached.version # 0, cacheClock < cached.until, cached.version < source
                 PROVE  cacheClock - replacedAt[cached.version] < Ttl + MaxRead + 1
      BY DEF BoundedStaleness, Present
    <2>1. /\ cacheClock \in Nat /\ source \in Nat /\ Ttl \in Nat /\ MaxRead \in Nat /\ EntryFits
          /\ replacedAt \in Seq(Nat) /\ Len(replacedAt) = source - 1
          /\ cached.version \in Nat /\ cached.until \in Nat
      BY CacheAssumption DEF CacheInv, CacheTypes, CacheAssumption
    <2>2. PICK t \in Nat : CurrentSince(cached.version, t) /\ cached.until <= t + MaxRead + Ttl
      BY <2>1 DEF EntryFits
    <2>3. t <= replacedAt[cached.version]
      BY <2>2 DEF CurrentSince
    <2>4. replacedAt[cached.version] \in Nat
      BY <2>1
    <2>5. PICK k \in Nat : k = replacedAt[cached.version]
      BY <2>4
    <2>6. PICK w \in Nat : w = cached.until
      BY <2>1
    <2>7. cacheClock < w /\ w <= t + MaxRead + Ttl /\ t <= k
      BY <2>2, <2>3, <2>5, <2>6
    <2>8. cacheClock - k < Ttl + MaxRead + 1
      BY ONLY <2>1, <2>7, t \in Nat, k \in Nat, w \in Nat
    <2> QED
      BY <2>5, <2>8
  <1>2. NoQuietStale
    BY DEF CacheInv, FreshFits, NoQuietStale, Present
  <1> QED
    BY <1>1, <1>2 DEF CacheInv

--------------------------------------------------------------------------------
(* Sessions                                                                *)

ValidationRow == [pc : {"idle", "cache", "database", "store", "accepted", "refused"}, token : Nat, since : Nat]

SessionTypes ==
    /\ sessionClock \in Nat /\ issued \subseteq Nat /\ blacklist \in Nat /\ shortened \in BOOLEAN
    /\ validating \in [Validations -> ValidationRow]
    /\ \A r \in revoked : r.token \in Nat /\ r.at \in Nat /\ r.at <= sessionClock

\* Until a logout shortens it, the entry of the blacklist covers every revoked token.
BlacklistCovers == ~shortened => \A r \in revoked : ExpiryOf(r.token) <= blacklist

\* A validation that got past the blacklist began before any logout of its token.
PassedBefore ==
    ~shortened =>
        \A v \in Validations : validating[v].pc \notin {"idle", "refused"} =>
            \A r \in revoked : r.token = validating[v].token => validating[v].since <= r.at

SessionInv ==
    /\ SessionTypes /\ BlacklistCovers /\ PassedBefore
    /\ \A v \in Validations : validating[v].since <= sessionClock

\* It holds at the start.
LEMMA SessionInitially == SessionInit => SessionInv
  <1> SUFFICES ASSUME SessionInit PROVE SessionInv
    OBVIOUS
  <1>1. /\ sessionClock = 0 /\ issued = {} /\ blacklist = 0 /\ shortened = FALSE /\ revoked = {}
        /\ validating = [v \in Validations |-> NotValidating]
    BY DEF SessionInit
  <1>2. NotValidating \in ValidationRow /\ NotValidating.pc = "idle" /\ NotValidating.since = 0
    BY DEF NotValidating, ValidationRow
  <1>3. SessionTypes
    BY <1>1, <1>2 DEF SessionTypes
  <1>4. \A v \in Validations : validating[v].since <= sessionClock /\ validating[v].pc = "idle"
    BY <1>1, <1>2
  <1> QED
    BY <1>1, <1>3, <1>4 DEF SessionInv, BlacklistCovers, PassedBefore

\* Every step keeps it.
LEMMA SessionInvStep == SessionInv /\ [SessionNext]_sessionVars => SessionInv'
  <1> SUFFICES ASSUME SessionInv, [SessionNext]_sessionVars PROVE SessionInv'
    OBVIOUS
  <1>t. /\ sessionClock \in Nat /\ issued \subseteq Nat /\ blacklist \in Nat /\ shortened \in BOOLEAN
        /\ validating \in [Validations -> ValidationRow]
        /\ \A r \in revoked : r.token \in Nat /\ r.at \in Nat /\ r.at <= sessionClock
        /\ \A v \in Validations : validating[v].since <= sessionClock /\ validating[v].since \in Nat
        /\ TokenLife \in Nat /\ BlacklistCovers /\ PassedBefore
    BY SessionAssumption DEF SessionInv, SessionTypes, SessionAssumption, ValidationRow
  <1>1. CASE UNCHANGED sessionVars
    BY <1>1 DEF SessionInv, SessionTypes, BlacklistCovers, PassedBefore, sessionVars
  <1>2. CASE SessionTick
    BY <1>2, <1>t DEF SessionTick, SessionTypes, BlacklistCovers, PassedBefore, SessionInv
  <1>3. CASE login \/ RemoveMerchant
    BY <1>t, <1>3 DEF login, RemoveMerchant, SessionInv, SessionTypes, BlacklistCovers, PassedBefore
  <1>4. ASSUME NEW token \in issued, logout(token) PROVE SessionInv'
    <2>1. /\ blacklist' = ExpiryOf(token) /\ shortened' = (shortened \/ ExpiryOf(token) < blacklist)
          /\ revoked' = revoked \cup {[token |-> token, at |-> sessionClock]}
          /\ UNCHANGED <<sessionClock, issued, validating>>
      BY <1>4 DEF logout
    <2>2. token \in Nat /\ ExpiryOf(token) \in Nat
      BY <1>t DEF ExpiryOf
    <2>3. \A r \in revoked' : \/ r \in revoked
                              \/ r.token = token /\ r.at = sessionClock
      BY <2>1
    <2>4. SessionTypes'
      BY <1>t, <2>1, <2>2, <2>3 DEF SessionTypes
    <2>5. BlacklistCovers'
      <3> SUFFICES ASSUME ~shortened', NEW r \in revoked' PROVE ExpiryOf(r.token) <= blacklist'
        BY DEF BlacklistCovers
      <3>0. ~shortened /\ ~(ExpiryOf(token) < blacklist)
        BY <2>1
      <3>1. ~shortened /\ blacklist <= blacklist'
        BY <1>t, <2>1, <2>2, <3>0
      <3>2. CASE r \in revoked
        BY <1>t, <3>1, <3>2, <2>1, <2>2 DEF BlacklistCovers, ExpiryOf
      <3>3. CASE r.token = token
        BY <2>1, <2>2, <3>3
      <3> QED
        BY <2>3, <3>2, <3>3
    <2>6. PassedBefore'
      <3> SUFFICES ASSUME ~shortened', NEW v \in Validations, validating[v].pc \notin {"idle", "refused"},
                          NEW r \in revoked', r.token = validating[v].token
                   PROVE  validating[v].since <= r.at
        BY <2>1 DEF PassedBefore
      <3>1. ~shortened
        BY <1>t, <2>1
      <3> QED
        BY <1>t, <2>3, <3>1 DEF PassedBefore
    <2> QED
      BY <1>t, <2>1, <2>4, <2>5, <2>6 DEF SessionInv
  <1>5. ASSUME NEW v \in Validations, NEW x \in ValidationRow, validating' = [validating EXCEPT ![v] = x],
               UNCHANGED <<sessionClock, issued, blacklist, revoked, shortened>>, x.since <= sessionClock,
               (~shortened /\ x.pc \notin {"idle", "refused"}) =>
                   \A r \in revoked : r.token = x.token => x.since <= r.at
        PROVE  SessionInv'
    <2>1. \A w \in Validations : validating'[w] = IF w = v THEN x ELSE validating[w]
      BY <1>t, <1>5
    <2>2. SessionTypes' /\ BlacklistCovers'
      BY <1>t, <1>5 DEF SessionTypes, BlacklistCovers
    <2>3. PassedBefore'
      BY <1>t, <1>5, <2>1 DEF PassedBefore
    <2>4. \A w \in Validations : validating'[w].since <= sessionClock'
      BY <1>t, <1>5, <2>1
    <2> QED
      BY <2>2, <2>3, <2>4 DEF SessionInv
  <1>6. ASSUME NEW token \in issued, NEW v \in Validations, CheckBlacklist(v, token) PROVE SessionInv'
    <2>1. PICK x : x = [pc |-> IF sessionClock < blacklist THEN "refused" ELSE "cache",
                        token |-> token, since |-> sessionClock]
      OBVIOUS
    <2>2. x \in ValidationRow /\ x.token = token /\ x.since = sessionClock
          /\ x.pc = IF sessionClock < blacklist THEN "refused" ELSE "cache"
      BY <1>t, <2>1 DEF ValidationRow
    <2>3. validating' = [validating EXCEPT ![v] = x] /\ sessionClock < ExpiryOf(token)
          /\ UNCHANGED <<sessionClock, issued, blacklist, revoked, shortened>>
      BY <1>6, <2>1 DEF CheckBlacklist
    <2>4. ASSUME ~shortened, x.pc # "refused", NEW r \in revoked, r.token = x.token PROVE FALSE
      BY <1>t, <2>2, <2>4, <2>3 DEF BlacklistCovers, ExpiryOf
    <2>5. x.since <= sessionClock
      BY <1>t, <2>2
    <2> QED
      BY <1>5, <2>2, <2>3, <2>4, <2>5
  <1>7. ASSUME NEW v \in Validations, ReadSession(v) \/ FindMerchant(v) \/ StoreSession(v) PROVE SessionInv'
    <2>1. PICK pc \in {"database", "store", "accepted", "refused"} :
              validating' = [validating EXCEPT ![v].pc = pc]
      BY <1>7 DEF ReadSession, FindMerchant, StoreSession, At
    <2>2. PICK x : x = [validating[v] EXCEPT !.pc = pc]
      OBVIOUS
    <2>3. x \in ValidationRow /\ x.token = validating[v].token /\ x.since = validating[v].since /\ x.pc = pc
      BY <1>t, <2>2 DEF ValidationRow
    <2>4. validating[v].pc \notin {"idle", "refused"}
          /\ UNCHANGED <<sessionClock, issued, blacklist, revoked, shortened>>
      BY <1>7 DEF ReadSession, FindMerchant, StoreSession
    <2>5. ~shortened => \A r \in revoked : r.token = x.token => x.since <= r.at
      BY <2>3, <2>4, <1>t DEF PassedBefore
    <2>6. x.since <= sessionClock /\ validating' = [validating EXCEPT ![v] = x]
      BY <1>t, <2>1, <2>2, <2>3
    <2> QED
      BY <1>5, <2>3, <2>4, <2>5, <2>6
  <1> QED
    BY <1>1, <1>2, <1>3, <1>4, <1>6, <1>7 DEF SessionNext

\* What it says of tokens that were logged out.
LEMMA SessionKept == SessionInv => RevokedRefused
  <1> SUFFICES ASSUME SessionInv, ~shortened, NEW v \in Validations, validating[v].pc = "accepted",
                      NEW r \in revoked, r.token = validating[v].token, r.at < validating[v].since
               PROVE  FALSE
    BY DEF RevokedRefused
  <1>1. validating[v].since <= r.at /\ validating[v].since \in Nat /\ r.at \in Nat
    BY DEF SessionInv, SessionTypes, PassedBefore, ValidationRow
  <1> QED
    BY <1>1

--------------------------------------------------------------------------------
(* The rate limit                                                          *)

CheckRow == [pc : {"idle", "trimmed", "full", "counted", "denied"}, now : Nat, resetAt : Nat]

\* The slots that have counted and will admit a member with a score in between.
CountedIn(from, to) == {s \in Slots : check[s].pc = "counted" /\ from < check[s].now /\ check[s].now <= to}

RateTypes ==
    /\ rateClock \in Nat /\ rateClock <= MaxRateTime
    /\ check \in [Slots -> CheckRow] /\ IsFiniteSet(admitted)
    /\ \A m \in admitted : m.score \in Nat /\ m.score <= rateClock

\* The sorted set holds every member of the last window.
ZsetHolds ==
    /\ zset \subseteq admitted
    /\ \A m \in admitted : rateClock - Window < m.score => m \in zset

\* A check is young, and what it trimmed does not come back.
ChecksFit ==
    \A s \in Slots : Checking(s) =>
        /\ check[s].now <= rateClock /\ rateClock <= check[s].now + MaxLatency
        /\ \A m \in zset : check[s].now - Window < m.score

\* Those admitted and those that have counted are together no more than the limit allows.
WindowHolds ==
    \A t \in Nat :
        Cardinality(AdmittedIn(t - (Window - MaxLatency), t)) + Cardinality(CountedIn(t - (Window - MaxLatency), t))
            <= Limit + Cardinality(Slots) - 1

\* A check that found the set full had the limit admitted in the window before it.
FullFits ==
    \A s \in Slots : check[s].pc \in {"full", "denied"} =>
        Cardinality(AdmittedIn(check[s].now - Window, MaxRateTime)) >= Limit

\* A denied one is told a time that is after it and within a window.
ResetFits ==
    \A s \in Slots : check[s].pc = "denied" =>
        check[s].now < check[s].resetAt /\ check[s].resetAt <= rateClock + Window

RateInv == RateTypes /\ ZsetHolds /\ ChecksFit /\ WindowHolds /\ FullFits /\ ResetFits

\* The numbers counted are numbers.
LEMMA RateCounts ==
  ASSUME RateTypes, NEW from \in Int, NEW to \in Int
  PROVE  /\ IsFiniteSet(AdmittedIn(from, to)) /\ Cardinality(AdmittedIn(from, to)) \in Nat
         /\ IsFiniteSet(CountedIn(from, to)) /\ Cardinality(CountedIn(from, to)) \in Nat
         /\ Cardinality(CountedIn(from, to)) <= Cardinality(Slots) /\ Cardinality(Slots) \in Nat
  <1>1. IsFiniteSet(Slots) /\ IsFiniteSet(admitted)
    BY RateAssumption DEF RateAssumption, RateTypes
  <1>2. AdmittedIn(from, to) \in SUBSET admitted /\ CountedIn(from, to) \in SUBSET Slots
    BY DEF AdmittedIn, CountedIn
  <1>3. IsFiniteSet(AdmittedIn(from, to)) /\ IsFiniteSet(CountedIn(from, to))
        /\ Cardinality(CountedIn(from, to)) <= Cardinality(Slots)
    BY <1>1, <1>2, FS_Subset
  <1> QED
    BY <1>1, <1>3, FS_CardinalityType

\* It holds at the start.
LEMMA RateInitially == RateInit => RateInv
  <1> SUFFICES ASSUME RateInit PROVE RateInv
    OBVIOUS
  <1>1. rateClock = 0 /\ zset = {} /\ admitted = {} /\ check = [s \in Slots |-> NoCheck]
    BY DEF RateInit
  <1>2. NoCheck \in CheckRow /\ NoCheck.pc = "idle"
    BY DEF NoCheck, CheckRow
  <1>3. RateTypes
    BY <1>1, <1>2, FS_EmptySet, RateAssumption DEF RateTypes, RateAssumption
  <1>4. ZsetHolds /\ ChecksFit /\ FullFits /\ ResetFits
    BY <1>1, <1>2 DEF ZsetHolds, ChecksFit, FullFits, ResetFits, Checking
  <1>5. WindowHolds
    <2> SUFFICES ASSUME NEW t \in Nat
                 PROVE  Cardinality(AdmittedIn(t - (Window - MaxLatency), t))
                            + Cardinality(CountedIn(t - (Window - MaxLatency), t)) <= Limit + Cardinality(Slots) - 1
      BY DEF WindowHolds
    <2>1. PICK from \in Int : from = t - (Window - MaxLatency)
      BY RateAssumption DEF RateAssumption
    <2>2. AdmittedIn(from, t) = {} /\ Cardinality(AdmittedIn(from, t)) = 0
      BY <1>1, FS_EmptySet DEF AdmittedIn
    <2>3. Cardinality(CountedIn(from, t)) \in Nat /\ Cardinality(Slots) \in Nat
          /\ Cardinality(CountedIn(from, t)) <= Cardinality(Slots)
      BY <1>3, RateCounts
    <2>4. Limit \in Nat \ {0}
      BY RateAssumption DEF RateAssumption
    <2> QED
      BY <2>1, <2>2, <2>3, <2>4
  <1> QED
    BY <1>3, <1>4, <1>5 DEF RateInv

\* What a check finds full was full of members admitted within a window of it.
LEMMA DenialFits ==
  ASSUME RateInv, NEW s \in Slots, Checking(s), ~(Cardinality(zset) < Limit)
  PROVE  Cardinality(AdmittedIn(check[s].now - Window, MaxRateTime)) >= Limit
  <1>t. /\ rateClock \in Nat /\ rateClock <= MaxRateTime /\ IsFiniteSet(admitted) /\ zset \subseteq admitted
        /\ \A m \in admitted : m.score \in Nat /\ m.score <= rateClock
        /\ \A m \in zset : check[s].now - Window < m.score
        /\ Limit \in Nat \ {0} /\ MaxRateTime \in Nat /\ Window \in Nat /\ check[s].now \in Nat /\ RateTypes
    BY RateAssumption DEF RateInv, RateTypes, ZsetHolds, ChecksFit, RateAssumption, CheckRow
  <1>1. PICK from \in Int : from = check[s].now - Window
    BY <1>t
  <1>2. zset \in SUBSET AdmittedIn(from, MaxRateTime)
    BY <1>t, <1>1 DEF AdmittedIn
  <1>3. IsFiniteSet(AdmittedIn(from, MaxRateTime)) /\ Cardinality(AdmittedIn(from, MaxRateTime)) \in Nat
    <2>1. PICK to \in Int : to = MaxRateTime
      BY <1>t
    <2>2. IsFiniteSet(AdmittedIn(from, to)) /\ Cardinality(AdmittedIn(from, to)) \in Nat
      BY <1>t, RateCounts
    <2> QED
      BY <2>1, <2>2
  <1>4. IsFiniteSet(zset) /\ Cardinality(zset) <= Cardinality(AdmittedIn(from, MaxRateTime)) /\ Cardinality(zset) \in Nat
    BY <1>2, <1>3, FS_Subset, FS_CardinalityType
  <1> QED
    BY <1>t, <1>1, <1>3, <1>4

\* The oldest member of what is left is younger than a window and not of the future.
LEMMA OldestFits ==
  ASSUME RateInv, NEW s \in Slots, Checking(s), NEW oldest,
         oldest = IF zset = {} THEN check[s].now ELSE Min({m.score : m \in zset})
  PROVE  oldest \in Nat /\ check[s].now - Window < oldest /\ oldest <= rateClock
  <1>t. /\ \A m \in zset : m.score \in Nat /\ m.score <= rateClock /\ check[s].now - Window < m.score
        /\ Window \in Nat \ {0} /\ check[s].now \in Nat /\ check[s].now <= rateClock
    BY RateAssumption DEF RateInv, RateTypes, ZsetHolds, ChecksFit, RateAssumption, CheckRow
  <1>1. CASE zset = {}
    BY <1>t, <1>1
  <1>2. CASE zset # {}
    <2>1. PICK S \in SUBSET Nat : S = {m.score : m \in zset}
      BY <1>t
    <2>2. PICK n \in S : \A k \in S : n <= k
      <3>1. S # {}
        BY <1>2, <2>1
      <3> QED
        BY <3>1, Smallest
    <2>3. Min(S) \in S
      BY <2>2 DEF Min
    <2>4. PICK m \in zset : Min(S) = m.score
      BY <2>1, <2>3
    <2> QED
      BY <1>t, <1>2, <2>1, <2>4
  <1> QED
    BY <1>1, <1>2

\* A check that finds the set not full has less than the limit admitted in any window its
\* member falls into.
LEMMA RoomFits ==
  ASSUME RateInv, NEW s \in Slots, Checking(s), Cardinality(zset) < Limit, NEW t \in Nat, NEW from \in Int,
         from = t - (Window - MaxLatency), from < check[s].now, check[s].now <= t
  PROVE  Cardinality(AdmittedIn(from, t)) < Limit
  <1>t. /\ rateClock \in Nat /\ IsFiniteSet(admitted) /\ zset \subseteq admitted
        /\ \A m \in admitted : m.score \in Nat /\ (rateClock - Window < m.score => m \in zset)
        /\ rateClock <= check[s].now + MaxLatency /\ check[s].now \in Nat
        /\ Limit \in Nat /\ Window \in Nat /\ MaxLatency \in Nat /\ RateTypes
    BY RateAssumption DEF RateInv, RateTypes, ZsetHolds, ChecksFit, RateAssumption, CheckRow
  <1>1. ASSUME NEW m \in AdmittedIn(from, t) PROVE m \in zset
    BY <1>t DEF AdmittedIn
  <1>2. IsFiniteSet(zset) /\ AdmittedIn(from, t) \in SUBSET zset
    BY <1>t, <1>1, FS_Subset
  <1>3. Cardinality(AdmittedIn(from, t)) <= Cardinality(zset) /\ Cardinality(zset) \in Nat
    BY <1>2, FS_Subset, FS_CardinalityType
  <1>4. Cardinality(AdmittedIn(from, t)) \in Nat
    BY <1>2, <1>t, FS_Subset, FS_CardinalityType
  <1> QED
    BY <1>t, <1>3, <1>4

\* Every step keeps it.
LEMMA RateInvStep == RateInv /\ [RateNext]_rateVars => RateInv'
  <1> SUFFICES ASSUME RateInv, [RateNext]_rateVars PROVE RateInv'
    OBVIOUS
  <1>t. /\ rateClock \in Nat /\ rateClock <= MaxRateTime /\ IsFiniteSet(admitted) /\ zset \subseteq admitted
        /\ \A m \in admitted : m.score \in Nat /\ m.score <= rateClock
        /\ check \in [Slots -> CheckRow] /\ \A s \in Slots : check[s].now \in Nat
        /\ Limit \in Nat \ {0} /\ Window \in Nat \ {0} /\ MaxLatency \in Nat /\ MaxLatency < Window
        /\ MaxRateTime \in Nat
        /\ RateTypes /\ ZsetHolds /\ ChecksFit /\ WindowHolds /\ FullFits /\ ResetFits
    BY RateAssumption DEF RateInv, RateTypes, ZsetHolds, RateAssumption, CheckRow
  <1>1. CASE UNCHANGED rateVars
    BY <1>1 DEF RateInv, RateTypes, ZsetHolds, ChecksFit, WindowHolds, FullFits, ResetFits, AdmittedIn, CountedIn,
                Checking, rateVars
  <1>2. CASE RateTick
    <2>1. rateClock < MaxRateTime /\ rateClock' = rateClock + 1 /\ UNCHANGED <<zset, check, admitted>>
          /\ \A s \in Slots : Checking(s) => rateClock < check[s].now + MaxLatency
      BY <1>2 DEF RateTick
    <2>2. RateTypes' /\ ZsetHolds'
      BY <1>t, <2>1 DEF RateTypes, ZsetHolds
    <2>3. ChecksFit'
      BY <1>t, <2>1 DEF ChecksFit, Checking
    <2>4. WindowHolds'
      BY <1>t, <2>1 DEF WindowHolds, AdmittedIn, CountedIn
    <2>5. FullFits' /\ ResetFits'
      <3>1. \A s \in Slots : check[s].resetAt \in Nat
        BY <1>t DEF CheckRow
      <3> QED
        BY <1>t, <2>1, <3>1 DEF FullFits, ResetFits, AdmittedIn
    <2> QED
      BY <2>2, <2>3, <2>4, <2>5 DEF RateInv
  <1>3. ASSUME NEW s \in Slots, TrimWindow(s) PROVE RateInv'
    <2>1. PICK r : r = [pc |-> "trimmed", now |-> rateClock, resetAt |-> 0]
      OBVIOUS
    <2>2. r \in CheckRow /\ r.pc = "trimmed" /\ r.now = rateClock
      BY <1>t, <2>1 DEF CheckRow
    <2>3. /\ ~Checking(s) /\ zset' = {m \in zset : m.score > rateClock - Window}
          /\ check' = [check EXCEPT ![s] = r] /\ UNCHANGED <<rateClock, admitted>>
      BY <1>3, <2>1 DEF TrimWindow, Trimmed
    <2>4. \A x \in Slots : check'[x] = IF x = s THEN r ELSE check[x]
      BY <1>t, <2>3
    <2>5. RateTypes' /\ ZsetHolds'
      BY <1>t, <2>2, <2>3 DEF RateTypes, ZsetHolds
    <2>6. ChecksFit'
      <3> SUFFICES ASSUME NEW x \in Slots, Checking(x)'
                   PROVE  /\ check'[x].now <= rateClock /\ rateClock <= check'[x].now + MaxLatency
                          /\ \A m \in zset' : check'[x].now - Window < m.score
        BY <2>3 DEF ChecksFit
      <3>1. CASE x = s
        BY <2>2, <2>4, <3>1, <1>t, <2>3
      <3>2. CASE x # s
        BY <1>t, <2>3, <2>4, <3>2 DEF ChecksFit, Checking
      <3> QED
        BY <3>1, <3>2
    <2>7. WindowHolds'
      BY <2>2, <2>3, <2>4, <1>t DEF CountedIn, AdmittedIn, Checking, WindowHolds
    <2>8. FullFits' /\ ResetFits'
      BY <1>t, <2>2, <2>3, <2>4 DEF FullFits, ResetFits, AdmittedIn
    <2> QED
      BY <2>5, <2>6, <2>7, <2>8 DEF RateInv
  <1>4. ASSUME NEW s \in Slots, NEW r \in CheckRow, Checking(s), r.pc \in {"full", "denied"}, r.now = check[s].now,
               check[s].pc # "counted", check' = [check EXCEPT ![s] = r], UNCHANGED <<rateClock, zset, admitted>>,
               Cardinality(AdmittedIn(check[s].now - Window, MaxRateTime)) >= Limit,
               r.pc = "denied" => r.now < r.resetAt /\ r.resetAt <= rateClock + Window
        PROVE  RateInv'
    <2>1. \A x \in Slots : check'[x] = IF x = s THEN r ELSE check[x]
      BY <1>t, <1>4
    <2>2. RateTypes' /\ ZsetHolds'
      BY <1>t, <1>4 DEF RateTypes, ZsetHolds
    <2>3. ChecksFit'
      BY <1>t, <1>4, <2>1 DEF ChecksFit, Checking
    <2>4. WindowHolds'
      <3> SUFFICES ASSUME NEW t \in Nat
                   PROVE  Cardinality(AdmittedIn(t - (Window - MaxLatency), t))'
                              + Cardinality(CountedIn(t - (Window - MaxLatency), t))' <= Limit + Cardinality(Slots) - 1
        BY DEF WindowHolds
      <3>1. PICK from \in Int : from = t - (Window - MaxLatency)
        BY <1>t
      <3>2. AdmittedIn(from, t)' = AdmittedIn(from, t) /\ CountedIn(from, t)' = CountedIn(from, t)
        BY <1>4, <2>1 DEF AdmittedIn, CountedIn
      <3>3. Cardinality(AdmittedIn(from, t)) + Cardinality(CountedIn(from, t)) <= Limit + Cardinality(Slots) - 1
        BY <1>t, <3>1 DEF WindowHolds
      <3> QED
        BY <3>1, <3>2, <3>3
    <2>5. FullFits' /\ ResetFits'
      BY <1>t, <1>4, <2>1 DEF FullFits, ResetFits, AdmittedIn
    <2> QED
      BY <2>2, <2>3, <2>4, <2>5 DEF RateInv
  <1>7. ASSUME NEW s \in Slots, CountWindow(s), IsFull(Cardinality(zset)) PROVE RateInv'
    <2>0. Checking(s) /\ check[s].pc = "trimmed" /\ Cardinality(zset) \in Nat /\ ~(Cardinality(zset) < Limit)
      BY <1>t, FS_Subset, FS_CardinalityType, <1>7 DEF CountWindow, Checking, IsFull
    <2>1. PICK c \in CheckRow : c = check[s]
      BY <1>t
    <2>2. PICK r : r = [c EXCEPT !.pc = "full"]
      OBVIOUS
    <2>3. r \in CheckRow /\ r.pc = "full" /\ r.now = check[s].now
      BY <2>1, <2>2 DEF CheckRow
    <2>4. check' = [check EXCEPT ![s] = r] /\ UNCHANGED <<rateClock, zset, admitted>>
      BY <1>t, <1>7, <2>1, <2>2 DEF CountWindow
    <2>5. Cardinality(AdmittedIn(check[s].now - Window, MaxRateTime)) >= Limit
      BY <2>0, DenialFits
    <2> QED
      BY <1>4, <2>0, <2>3, <2>4, <2>5
  <1>8. ASSUME NEW s \in Slots, DenyRequest(s) PROVE RateInv'
    <2>1. PICK oldest : oldest = IF zset = {} THEN check[s].now ELSE Min({m.score : m \in zset})
      OBVIOUS
    <2>2. /\ check[s].pc = "full" /\ check' = [check EXCEPT ![s].pc = "denied", ![s].resetAt = oldest + Window]
          /\ UNCHANGED <<rateClock, zset, admitted>>
      BY <1>8, <2>1, Zenon DEF DenyRequest
    <2>3. oldest \in Nat /\ check[s].now - Window < oldest /\ oldest <= rateClock /\ Checking(s)
      BY <2>1, <2>2, OldestFits DEF Checking
    <2>4. PICK c \in CheckRow : c = check[s]
      BY <1>t
    <2>5. PICK r : r = [c EXCEPT !.pc = "denied", !.resetAt = oldest + Window]
      OBVIOUS
    <2>6. r \in CheckRow /\ r.pc = "denied" /\ r.now = check[s].now /\ r.resetAt = oldest + Window
      <3>1. r = [pc |-> "denied", now |-> c.now, resetAt |-> oldest + Window]
        BY <2>5 DEF CheckRow
      <3> QED
        BY <1>t, <2>3, <2>4, <3>1 DEF CheckRow
    <2>7. check' = [check EXCEPT ![s] = r]
      BY <1>t, <2>2, <2>4, <2>5
    <2>8. Cardinality(AdmittedIn(check[s].now - Window, MaxRateTime)) >= Limit
      BY <1>t, <2>2 DEF FullFits
    <2>9. r.now < r.resetAt /\ r.resetAt <= rateClock + Window
      BY <1>t, <2>3, <2>6
    <2> QED
      BY <1>4, <2>2, <2>3, <2>6, <2>7, <2>8, <2>9
  <1>5. ASSUME NEW s \in Slots, CountWindow(s), ~IsFull(Cardinality(zset)) PROVE RateInv'
    <2>0. Checking(s) /\ check[s].pc = "trimmed" /\ Cardinality(zset) < Limit
      BY <1>t, FS_Subset, FS_CardinalityType, <1>5 DEF CountWindow, Checking, IsFull
    <2>1. PICK r : r = [check[s] EXCEPT !.pc = "counted"]
      OBVIOUS
    <2>2. r \in CheckRow /\ r.pc = "counted" /\ r.now = check[s].now
      BY <1>t, <2>1 DEF CheckRow
    <2>3. check' = [check EXCEPT ![s] = r] /\ UNCHANGED <<rateClock, zset, admitted>>
      BY <1>5, <2>1 DEF CountWindow
    <2>4. \A x \in Slots : check'[x] = IF x = s THEN r ELSE check[x]
      BY <1>t, <2>3
    <2>5. RateTypes' /\ ZsetHolds'
      BY <1>t, <2>2, <2>3 DEF RateTypes, ZsetHolds
    <2>6. ChecksFit'
      BY <1>t, <2>0, <2>2, <2>3, <2>4 DEF ChecksFit, Checking
    <2>7. WindowHolds'
      <3> SUFFICES ASSUME NEW t \in Nat
                   PROVE  Cardinality(AdmittedIn(t - (Window - MaxLatency), t))'
                              + Cardinality(CountedIn(t - (Window - MaxLatency), t))' <= Limit + Cardinality(Slots) - 1
        BY DEF WindowHolds
      <3>1. PICK from \in Int : from = t - (Window - MaxLatency)
        BY <1>t
      <3>2. AdmittedIn(from, t)' = AdmittedIn(from, t)
        BY <2>3 DEF AdmittedIn
      <3>3. CASE from < check[s].now /\ check[s].now <= t
        <4>1. Cardinality(AdmittedIn(from, t)) < Limit
          BY <2>0, <3>1, <3>3, RoomFits
        <4>2. Cardinality(CountedIn(from, t))' <= Cardinality(Slots) /\ Cardinality(CountedIn(from, t))' \in Nat
          BY RateAssumption, FS_Subset, FS_CardinalityType DEF RateAssumption, CountedIn
        <4>3. Cardinality(AdmittedIn(from, t)) \in Nat /\ Cardinality(Slots) \in Nat
          BY <1>t, RateCounts
        <4> QED
          BY <1>t, <3>1, <3>2, <4>1, <4>2, <4>3
      <3>4. CASE ~(from < check[s].now /\ check[s].now <= t)
        BY <2>0, <2>2, <2>3, <2>4, <3>4, <1>t, <3>1, <3>2 DEF CountedIn, WindowHolds
      <3> QED
        BY <3>3, <3>4
    <2>8. FullFits' /\ ResetFits'
      BY <1>t, <2>2, <2>3, <2>4 DEF FullFits, ResetFits, AdmittedIn
    <2> QED
      BY <2>5, <2>6, <2>7, <2>8 DEF RateInv
  <1>6. ASSUME NEW s \in Slots, AdmitRequest(s) PROVE RateInv'
    <2>1. PICK new : new = [score |-> check[s].now, member |-> Cardinality(admitted) + 1]
      OBVIOUS
    <2>2. /\ check[s].pc = "counted" /\ zset' = zset \cup {new} /\ admitted' = admitted \cup {new}
          /\ check' = [check EXCEPT ![s] = NoCheck] /\ UNCHANGED rateClock /\ new.score = check[s].now
      BY <1>6, <2>1 DEF AdmitRequest
    <2>3. NoCheck \in CheckRow /\ NoCheck.pc = "idle"
      BY DEF NoCheck, CheckRow
    <2>4. \A x \in Slots : check'[x] = IF x = s THEN NoCheck ELSE check[x]
      BY <1>t, <2>2
    <2>5. check[s].now <= rateClock /\ rateClock <= check[s].now + MaxLatency /\ check[s].now \in Nat
      BY <1>t, <2>2 DEF ChecksFit, Checking
    <2>6. IsFiniteSet(admitted')
      BY <1>t, <2>2, FS_AddElement
    <2>7. RateTypes'
      BY <1>t, <2>2, <2>3, <2>5, <2>6 DEF RateTypes
    <2>8. ZsetHolds'
      BY <1>t, <2>2 DEF ZsetHolds
    <2>9. ChecksFit'
      <3> SUFFICES ASSUME NEW x \in Slots, Checking(x)'
                   PROVE  /\ check'[x].now <= rateClock /\ rateClock <= check'[x].now + MaxLatency
                          /\ \A m \in zset' : check'[x].now - Window < m.score
        BY <2>2 DEF ChecksFit
      <3>1. x # s /\ check'[x] = check[x] /\ Checking(x)
        BY <2>3, <2>4 DEF Checking
      <3>2. /\ check[x].now <= rateClock /\ rateClock <= check[x].now + MaxLatency
            /\ \A m \in zset : check[x].now - Window < m.score
        BY <1>t, <3>1 DEF ChecksFit
      <3>3. check[x].now - Window < check[s].now
        BY <1>t, <2>5, <3>2
      <3> QED
        BY <2>2, <3>1, <3>2, <3>3
    <2>10. WindowHolds'
      <3> SUFFICES ASSUME NEW t \in Nat
                   PROVE  Cardinality(AdmittedIn(t - (Window - MaxLatency), t))'
                              + Cardinality(CountedIn(t - (Window - MaxLatency), t))' <= Limit + Cardinality(Slots) - 1
        BY DEF WindowHolds
      <3>1. PICK from \in Int : from = t - (Window - MaxLatency)
        BY <1>t
      <3>2. Cardinality(AdmittedIn(from, t)) + Cardinality(CountedIn(from, t)) <= Limit + Cardinality(Slots) - 1
        BY <1>t, <3>1 DEF WindowHolds
      <3>3. CASE from < check[s].now /\ check[s].now <= t
        <4>1. AdmittedIn(from, t)' = AdmittedIn(from, t) \cup {new} /\ CountedIn(from, t)' = CountedIn(from, t) \ {s}
              /\ s \in CountedIn(from, t)
          BY <2>2, <2>3, <2>4, <3>3 DEF AdmittedIn, CountedIn
        <4>2. /\ IsFiniteSet(AdmittedIn(from, t)) /\ Cardinality(AdmittedIn(from, t)) \in Nat
              /\ IsFiniteSet(CountedIn(from, t)) /\ Cardinality(CountedIn(from, t)) \in Nat
              /\ Cardinality(Slots) \in Nat
          BY <1>t, RateCounts
        <4>3. Cardinality(AdmittedIn(from, t) \cup {new}) \in {Cardinality(AdmittedIn(from, t)), Cardinality(AdmittedIn(from, t)) + 1}
          BY <4>2, FS_AddElement
        <4>4. Cardinality(CountedIn(from, t) \ {s}) = Cardinality(CountedIn(from, t)) - 1
          BY <4>1, <4>2, FS_RemoveElement
        <4>5. PICK a \in Nat, c \in Nat, n \in Nat :
                  a = Cardinality(AdmittedIn(from, t)) /\ c = Cardinality(CountedIn(from, t)) /\ n = Cardinality(Slots)
          BY <4>2
        <4>6. Cardinality(AdmittedIn(from, t))' \in {a, a + 1} /\ Cardinality(CountedIn(from, t))' = c - 1
          BY <4>1, <4>3, <4>4, <4>5
        <4>7. a + c <= Limit + n - 1
          BY <3>2, <4>5
        <4>8. Cardinality(AdmittedIn(from, t))' + Cardinality(CountedIn(from, t))' <= Limit + n - 1
          BY <1>t, <4>6, <4>7
        <4> QED
          BY <3>1, <4>5, <4>8
      <3>4. CASE ~(from < check[s].now /\ check[s].now <= t)
        BY <2>2, <2>3, <2>4, <3>4, <3>1, <3>2 DEF CountedIn, AdmittedIn
      <3> QED
        BY <3>3, <3>4
    <2>11. ResetFits'
      BY <1>t, <2>2, <2>3, <2>4 DEF ResetFits
    <2>12. FullFits'
      <3> SUFFICES ASSUME NEW x \in Slots, check'[x].pc \in {"full", "denied"}
                   PROVE  Cardinality(AdmittedIn(check[x].now - Window, MaxRateTime))' >= Limit
        BY DEF FullFits
      <3>1. check'[x] = check[x]
        BY <2>3, <2>4
      <3>2. Cardinality(AdmittedIn(check[x].now - Window, MaxRateTime)) >= Limit
        BY <1>t, <3>1 DEF FullFits
      <3>3. PICK from \in Int : from = check[x].now - Window
        BY <1>t
      <3>4. AdmittedIn(from, MaxRateTime) \in SUBSET AdmittedIn(from, MaxRateTime)'
        BY <2>2 DEF AdmittedIn
      <3>5. IsFiniteSet(AdmittedIn(from, MaxRateTime)') /\ Cardinality(AdmittedIn(from, MaxRateTime)) \in Nat
        <4>1. AdmittedIn(from, MaxRateTime)' \in SUBSET admitted'
          BY DEF AdmittedIn
        <4>2. IsFiniteSet(AdmittedIn(from, MaxRateTime)')
          BY <2>6, <4>1, FS_Subset
        <4>3. AdmittedIn(from, MaxRateTime) \in SUBSET admitted
          BY DEF AdmittedIn
        <4>4. IsFiniteSet(admitted)
          BY <1>t DEF RateTypes
        <4> QED
          BY <4>2, <4>3, <4>4, FS_Subset, FS_CardinalityType
      <3>6. Cardinality(AdmittedIn(from, MaxRateTime)) <= Cardinality(AdmittedIn(from, MaxRateTime)')
            /\ Cardinality(AdmittedIn(from, MaxRateTime)') \in Nat
        BY <3>4, <3>5, FS_Subset, FS_CardinalityType
      <3>7. AdmittedIn(check[x].now - Window, MaxRateTime)' = AdmittedIn(from, MaxRateTime)'
        BY <3>1, <3>3 DEF AdmittedIn
      <3>8. Cardinality(AdmittedIn(from, MaxRateTime)') >= Limit
        BY <1>t, <3>2, <3>3, <3>5, <3>6
      <3> QED
        BY <3>7, <3>8
    <2> QED
      BY <2>7, <2>8, <2>9, <2>10, <2>11, <2>12 DEF RateInv
  <1> QED
    BY <1>1, <1>2, <1>3, <1>5, <1>6, <1>7, <1>8 DEF RateNext

\* What it says of the window and the denials.
LEMMA RateKept == RateInv => WindowBounded /\ DenialsJustified
  <1> SUFFICES ASSUME RateInv, NEW t \in 0 .. MaxRateTime
               PROVE  Cardinality(AdmittedIn(t - (Window - MaxLatency), t)) <= Limit + Cardinality(Slots) - 1
    BY DEF RateInv, WindowBounded, FullFits, ResetFits, DenialsJustified
  <1>1. t \in Nat /\ Limit \in Nat /\ RateTypes
    BY RateAssumption DEF RateInv, RateAssumption
  <1>2. PICK from \in Int : from = t - (Window - MaxLatency)
    BY <1>1, RateAssumption DEF RateAssumption
  <1>3. /\ Cardinality(AdmittedIn(from, t)) \in Nat /\ Cardinality(CountedIn(from, t)) \in Nat
        /\ Cardinality(Slots) \in Nat
    BY <1>1, <1>2, RateCounts
  <1>4. Cardinality(AdmittedIn(from, t)) + Cardinality(CountedIn(from, t)) <= Limit + Cardinality(Slots) - 1
    BY <1>1, <1>2 DEF RateInv, WindowHolds
  <1> QED
    BY <1>1, <1>2, <1>3, <1>4

--------------------------------------------------------------------------------
(* Alerts                                                                  *)

AlertRow == [status : {"none", "open", "acknowledged"}, occurrenceCount : Nat, lastNotifiedAt : Nat]
EditRow == [pc : {"idle", "loaded", "notify"}, row : AlertRow, version : Nat, now : Nat]

AlertTypes ==
    /\ alert \in AlertRow /\ alertClock \in Nat /\ version \in Nat /\ raises \in Nat
    /\ editing \in [Raisers \cup Admins -> EditRow]
    /\ notified \in SUBSET Nat /\ untold \in SUBSET Nat /\ alertCrashes \in Nat

\* The raises that opened the alert: their notification went out, is at hand, or died.
Opened == notified \cup untold \cup Telling(Raisers)

\* A row that exists was last opened when it says so.
Told(row) == row.status # "none" => row.lastNotifiedAt \in Opened

\* What a caller has loaded is the row as long as nobody saved it, an administrator
\* has loaded an alert that exists, and only raises notify.
EditFits(c, r) ==
    /\ Told(r.row) /\ r.version <= version
    /\ r.pc = "loaded" /\ r.version = version => r.row = alert
    /\ r.pc = "loaded" /\ c \in Admins => r.row.status # "none"
    /\ r.pc = "notify" => c \in Raisers

\* Without stale saves the row remembers the last raise that opened it, and these are spaced.
Spaced(times, last) ==
    /\ \A t \in times : t <= last
    /\ \A s, t \in times : s < t => t - s >= Cooldown

AlertInv ==
    /\ AlertTypes /\ Told(alert)
    /\ \A c \in Raisers \cup Admins : EditFits(c, editing[c])
    /\ alert.status = "none" => Opened = {}
    /\ ~overwritten => Spaced(Opened, alert.lastNotifiedAt)

\* What a caller that is done, or is to notify, has left.
LEMMA AlertRecords ==
  /\ NoAlert \in AlertRow /\ NoAlert.status = "none"
  /\ NotEditing \in EditRow /\ NotEditing.row = NoAlert /\ NotEditing.pc = "idle" /\ NotEditing.version = 0
  /\ AlertTypes => \A c \in Raisers \cup Admins :
         /\ ToNotify(c) \in EditRow /\ ToNotify(c).row = NoAlert /\ ToNotify(c).pc = "notify"
         /\ ToNotify(c).version = 0 /\ ToNotify(c).now = editing[c].now
  <1>1. NoAlert \in AlertRow /\ NoAlert.status = "none"
    BY DEF NoAlert, AlertRow
  <1>2. NotEditing \in EditRow /\ NotEditing.row = NoAlert /\ NotEditing.pc = "idle" /\ NotEditing.version = 0
    BY <1>1 DEF NotEditing, EditRow
  <1>3. ASSUME AlertTypes, NEW c \in Raisers \cup Admins
        PROVE  /\ ToNotify(c) \in EditRow /\ ToNotify(c).row = NoAlert /\ ToNotify(c).pc = "notify"
               /\ ToNotify(c).version = 0 /\ ToNotify(c).now = editing[c].now
    <2>1. PICK t \in Nat : t = editing[c].now
      BY <1>3 DEF AlertTypes, EditRow
    <2>2. PICK idle \in EditRow : idle = NotEditing
      BY <1>2
    <2>3. ToNotify(c) = [idle EXCEPT !.pc = "notify", !.now = t]
      BY <2>1, <2>2 DEF ToNotify
    <2> QED
      BY <1>2, <2>1, <2>2, <2>3 DEF EditRow
  <1> QED
    BY <1>1, <1>2, <1>3

\* It holds at the start.
LEMMA AlertInitially == AlertInit => AlertInv
  <1> SUFFICES ASSUME AlertInit PROVE AlertInv
    OBVIOUS
  <1>3. AlertTypes
    BY AlertRecords DEF AlertInit, AlertTypes
  <1>4. \A c \in Raisers \cup Admins : EditFits(c, editing[c])
    BY AlertRecords DEF AlertInit, EditFits, Told
  <1>5. Opened = {}
    BY AlertRecords DEF AlertInit, Opened, Telling
  <1> QED
    BY <1>3, <1>4, <1>5, AlertRecords DEF AlertInit, AlertInv, Told, Spaced

\* When nothing is saved and the same raises have opened the alert, the invariant stays.
LEMMA OpenedKept ==
  ASSUME AlertInv, UNCHANGED <<alert, version, overwritten>>, Opened' = Opened, alertClock' \in Nat, raises' \in Nat,
         alertCrashes' \in Nat,
         notified' \in SUBSET Nat, untold' \in SUBSET Nat, editing' \in [Raisers \cup Admins -> EditRow],
         \A d \in Raisers \cup Admins : EditFits(d, editing'[d])
  PROVE  AlertInv'
  <1>1. \A d \in Raisers \cup Admins : EditFits(d, editing[d])'
    BY DEF EditFits, Told
  <1> QED
    BY <1>1 DEF AlertInv, AlertTypes, Told, Spaced

\* The record of a single caller changes.
LEMMA OneEdits ==
  ASSUME AlertInv, NEW c \in Raisers \cup Admins, NEW r \in EditRow, editing' = [editing EXCEPT ![c] = r],
         r.pc = "notify" => c \in Raisers
  PROVE  /\ editing' \in [Raisers \cup Admins -> EditRow]
         /\ \A d \in Raisers \cup Admins : editing'[d] = IF d = c THEN r ELSE editing[d]
         /\ editing[c].pc # "notify" =>
                Telling(Raisers)' = Telling(Raisers) \cup (IF r.pc = "notify" THEN {r.now} ELSE {})
         /\ c \in Raisers /\ editing[c].pc = "notify" /\ r.pc # "notify" =>
                Telling(Raisers) \cup {editing[c].now} = Telling(Raisers)' \cup {editing[c].now}
  <1>1. editing \in [Raisers \cup Admins -> EditRow]
    BY DEF AlertInv, AlertTypes
  <1>2. \A d \in Raisers \cup Admins : editing'[d] = IF d = c THEN r ELSE editing[d]
    BY <1>1
  <1>3. editing' \in [Raisers \cup Admins -> EditRow]
    BY <1>1
  <1>4. ASSUME editing[c].pc # "notify"
        PROVE  Telling(Raisers)' = Telling(Raisers) \cup (IF r.pc = "notify" THEN {r.now} ELSE {})
    BY <1>2, <1>4 DEF Telling
  <1>5. ASSUME c \in Raisers, editing[c].pc = "notify", r.pc # "notify"
        PROVE  Telling(Raisers) \cup {editing[c].now} = Telling(Raisers)' \cup {editing[c].now}
    BY <1>2, <1>5 DEF Telling
  <1> QED
    BY <1>2, <1>3, <1>4, <1>5

\* A caller loads the row.
LEMMA AlertLoaded ==
  ASSUME AlertInv, NEW c \in Raisers \cup Admins, LoadAlert(c), editing[c].pc = "idle",
         UNCHANGED <<alert, alertClock, version, notified, untold, alertCrashes, overwritten>>, raises' \in Nat,
         c \in Admins => alert.status # "none"
  PROVE  AlertInv'
  <1>1. PICK r : r = [pc |-> "loaded", row |-> alert, version |-> version, now |-> alertClock]
    OBVIOUS
  <1>2. editing' = [editing EXCEPT ![c] = r]
    BY <1>1 DEF LoadAlert
  <1>3. r \in EditRow /\ r.pc = "loaded"
    BY <1>1 DEF EditRow, AlertInv, AlertTypes
  <1>4. EditFits(c, r)
    BY <1>1 DEF EditFits, AlertInv, AlertTypes
  <1>5. /\ editing' \in [Raisers \cup Admins -> EditRow] /\ Telling(Raisers)' = Telling(Raisers)
        /\ \A d \in Raisers \cup Admins : editing'[d] = IF d = c THEN r ELSE editing[d]
    BY <1>2, <1>3, OneEdits
  <1>6. Opened' = Opened
    BY <1>5 DEF Opened
  <1>7. \A d \in Raisers \cup Admins : EditFits(d, editing'[d])
    BY <1>4, <1>5 DEF AlertInv
  <1> QED
    BY <1>5, <1>6, <1>7, OpenedKept DEF AlertInv, AlertTypes

\* A caller saves a row: all others have loaded an older version.
LEMMA AlertSaved ==
  ASSUME AlertInv, NEW c \in Raisers \cup Admins, NEW row \in AlertRow, NEW after \in EditRow,
         SaveAlert(c, row, after), editing[c].pc = "loaded",
         after.row = NoAlert, after.version = 0, after.pc # "loaded", after.pc = "notify" => c \in Raisers,
         NEW opened, opened = Opened \cup (IF after.pc = "notify" THEN {after.now} ELSE {}),
         row.lastNotifiedAt \in opened, row.status # "none",
         (editing[c].version = version /\ ~overwritten) => Spaced(opened, row.lastNotifiedAt)
  PROVE  AlertInv'
  <1>1. /\ alert' = row /\ version' = version + 1 /\ editing' = [editing EXCEPT ![c] = after]
        /\ overwritten' = (overwritten \/ editing[c].version # version)
        /\ UNCHANGED <<alertClock, raises, notified, untold, alertCrashes>>
    BY DEF SaveAlert
  <1>2. /\ editing' \in [Raisers \cup Admins -> EditRow]
        /\ \A d \in Raisers \cup Admins : editing'[d] = IF d = c THEN after ELSE editing[d]
        /\ Telling(Raisers)' = Telling(Raisers) \cup (IF after.pc = "notify" THEN {after.now} ELSE {})
    BY <1>1, OneEdits
  <1>3. Opened' = opened /\ Opened \subseteq opened
    BY <1>1, <1>2 DEF Opened
  <1>5. AlertTypes'
    BY <1>1, <1>2 DEF AlertInv, AlertTypes
  <1>6. \A d \in Raisers \cup Admins : EditFits(d, editing[d])'
    <2> SUFFICES ASSUME NEW d \in Raisers \cup Admins PROVE EditFits(d, editing[d])'
      OBVIOUS
    <2>1. PICK e \in EditRow : e = editing[d] /\ EditFits(d, e)
      BY DEF AlertInv, AlertTypes
    <2>2. version \in Nat /\ version' = version + 1 /\ e.version \in Nat /\ e.version <= version
      BY <1>1, <2>1 DEF AlertInv, AlertTypes, EditRow, EditFits
    <2>3. CASE d = c
      <3>1. EditFits(d, after)'
        BY AlertRecords, <2>2, <2>3 DEF EditFits, Told
      <3> QED
        BY <1>2, <2>3, <3>1 DEF EditFits, Told
    <2>4. CASE d # c
      <3>1. Told(e.row)'
        BY <1>3, <2>1 DEF EditFits, Told
      <3>2. e.version <= version' /\ e.version # version'
        BY <2>2
      <3>3. (e.pc = "loaded" /\ d \in Admins => e.row.status # "none") /\ (e.pc = "notify" => d \in Raisers)
        BY <2>1 DEF EditFits
      <3>4. EditFits(d, e)'
        BY ONLY <3>1, <3>2, <3>3 DEF EditFits, Told
      <3> QED
        BY <1>2, <2>1, <2>4, <3>4 DEF EditFits, Told
    <2> QED
      BY <2>3, <2>4
  <1>7. ~overwritten' => ~overwritten /\ editing[c].version = version
    BY <1>1
  <1>8. (~overwritten => Spaced(Opened, alert.lastNotifiedAt))' /\ Told(alert)'
    BY <1>1, <1>3, <1>7 DEF Spaced, Told
  <1> QED
    BY <1>1, <1>5, <1>6, <1>8 DEF AlertInv

\* Every step of the alerts keeps it.
LEMMA AlertInvStep == AlertInv /\ [AlertNext]_alertVars => AlertInv'
  <1> SUFFICES ASSUME AlertInv, [AlertNext]_alertVars PROVE AlertInv'
    OBVIOUS
  <1>t. AlertTypes /\ \A d \in Raisers \cup Admins : EditFits(d, editing[d])
    BY DEF AlertInv
  <1>a. Raisers \cap Admins = {}
    BY AlertAssumption DEF AlertAssumption
  <1>1. CASE UNCHANGED alertVars
    <2>1. Opened' = Opened
      BY <1>1 DEF alertVars, Opened, Telling
    <2> QED
      BY <1>1, <1>t, <2>1, OpenedKept DEF alertVars, AlertTypes
  <1>2. CASE AlertTick
    <2>1. Opened' = Opened
      BY <1>2 DEF AlertTick, Opened, Telling
    <2> QED
      BY <1>2, <1>t, <2>1, OpenedKept DEF AlertTick, AlertTypes
  <1>3. ASSUME NEW c \in Raisers, RaiseLoad(c) PROVE AlertInv'
    <2>1. c \notin Admins /\ raises' \in Nat
      BY <1>3, <1>a, <1>t DEF RaiseLoad, AlertTypes
    <2> QED
      BY <1>3, <2>1, AlertLoaded DEF RaiseLoad
  <1>4. ASSUME NEW c \in Admins, AcknowledgeLoad(c) PROVE AlertInv'
    BY <1>4, <1>t, AlertLoaded DEF AcknowledgeLoad, AlertTypes
  <1>5. ASSUME NEW c \in Raisers \cup Admins,
               \/ c \in Raisers /\ (RaiseCooling(c) \/ RaiseReopen(c) \/ RaiseCreate(c))
               \/ acknowledge(c)
        PROVE  AlertInv'
    <2>1. PICK e \in EditRow : e = editing[c] /\ EditFits(c, e)
      BY <1>t DEF AlertTypes
    <2>2. PICK old \in AlertRow : old = e.row
      BY <2>1 DEF EditRow
    <2>3. /\ e.now \in Nat /\ e.version \in Nat /\ old.occurrenceCount \in Nat /\ old.lastNotifiedAt \in Nat
          /\ old.status \in {"none", "open", "acknowledged"}
      BY <2>1, <2>2 DEF EditRow, AlertRow
    <2>4. /\ Told(old) /\ Cooldown \in Nat \ {0}
          /\ (e.pc = "loaded" /\ e.version = version => old = alert)
          /\ (~overwritten => Spaced(Opened, alert.lastNotifiedAt))
      BY <2>1, <2>2, AlertAssumption DEF EditFits, AlertInv, AlertAssumption
    <2>0. Opened \subseteq Nat
      <3>1. \A d \in Raisers : editing[d].now \in Nat
        BY <1>t DEF AlertTypes, EditRow
      <3> QED
        BY <1>t, <3>1 DEF Opened, Telling, AlertTypes
    <2>n. /\ ToNotify(c) \in EditRow /\ ToNotify(c).row = NoAlert /\ ToNotify(c).pc = "notify"
          /\ ToNotify(c).version = 0 /\ ToNotify(c).now = e.now
      BY <1>t, <2>1, AlertRecords
    <2>5. CASE RaiseCooling(c)
      <3>1. PICK row : row = [old EXCEPT !.occurrenceCount = old.occurrenceCount + 1]
        OBVIOUS
      <3>2. /\ row \in AlertRow /\ row.status = old.status /\ row.lastNotifiedAt = old.lastNotifiedAt
        BY <2>3, <3>1 DEF AlertRow
      <3>3. SaveAlert(c, row, NotEditing) /\ e.pc = "loaded" /\ old.status # "none"
        BY <2>1, <2>2, <2>5, <3>1 DEF RaiseCooling
      <3> QED
        BY <2>1, <2>4, <3>2, <3>3, AlertRecords, AlertSaved DEF Told
    <2>6. CASE c \in Raisers /\ RaiseReopen(c)
      <3>1. PICK row : row = [status |-> "open", lastNotifiedAt |-> e.now,
                              occurrenceCount |-> old.occurrenceCount + 1]
        OBVIOUS
      <3>2. row \in AlertRow /\ row.status = "open" /\ row.lastNotifiedAt = e.now
        BY <2>3, <3>1 DEF AlertRow
      <3>3. /\ SaveAlert(c, row, ToNotify(c)) /\ e.pc = "loaded"
            /\ ~(e.now - old.lastNotifiedAt < Cooldown)
        BY <2>1, <2>2, <2>6, <3>1 DEF RaiseReopen, isCoolingDown
      <3>4. (e.version = version /\ ~overwritten) => Spaced(Opened \cup {e.now}, e.now)
        <4> SUFFICES ASSUME e.version = version, ~overwritten PROVE Spaced(Opened \cup {e.now}, e.now)
          OBVIOUS
        <4>1. \A t \in Opened : t \in Nat /\ t + Cooldown <= e.now
          BY <2>0, <2>3, <2>4, <3>3 DEF Spaced
        <4> QED
          BY <2>3, <2>4, <4>1 DEF Spaced
      <3>5. PICK opened : opened = Opened \cup (IF ToNotify(c).pc = "notify" THEN {ToNotify(c).now} ELSE {})
        OBVIOUS
      <3>6. opened = Opened \cup {e.now}
        BY <2>n, <3>5
      <3>7. row.lastNotifiedAt \in opened /\ ((e.version = version /\ ~overwritten) => Spaced(opened, row.lastNotifiedAt))
        BY <3>2, <3>4, <3>6
      <3>8. row.status # "none" /\ ToNotify(c).pc # "loaded"
        BY <2>n, <3>2
      <3> QED
        BY <2>1, <2>6, <2>n, <3>2, <3>3, <3>5, <3>7, <3>8, AlertSaved
    <2>7. CASE c \in Raisers /\ RaiseCreate(c)
      <3>1. CASE alert.status = "none"
        <4>1. PICK row : row = [status |-> "open", occurrenceCount |-> 1, lastNotifiedAt |-> e.now]
          OBVIOUS
        <4>2. row \in AlertRow /\ row.status = "open" /\ row.lastNotifiedAt = e.now
          BY <2>3, <4>1 DEF AlertRow
        <4>3. SaveAlert(c, row, ToNotify(c)) /\ e.pc = "loaded" /\ Opened = {}
          BY <2>1, <2>7, <3>1, <4>1 DEF RaiseCreate, AlertInv
        <4>4. Spaced({e.now}, e.now)
          BY <2>3 DEF Spaced
        <4>5. PICK opened : opened = Opened \cup (IF ToNotify(c).pc = "notify" THEN {ToNotify(c).now} ELSE {})
          OBVIOUS
        <4>6. opened = {e.now}
          BY <2>n, <4>3, <4>5
        <4>7. row.lastNotifiedAt \in opened /\ Spaced(opened, row.lastNotifiedAt)
          BY <4>2, <4>4, <4>6
        <4>8. row.status # "none" /\ ToNotify(c).pc # "loaded"
          BY <2>n, <4>2
        <4> QED
          BY <2>1, <2>7, <2>n, <4>2, <4>3, <4>5, <4>7, <4>8, AlertSaved
      <3>2. CASE alert.status # "none"
        <4>1. /\ editing' = [editing EXCEPT ![c] = NotEditing] /\ editing[c].pc = "loaded"
              /\ UNCHANGED <<alert, alertClock, version, raises, notified, untold, alertCrashes, overwritten>>
          BY <2>7, <3>2 DEF RaiseCreate
        <4>2. /\ editing' \in [Raisers \cup Admins -> EditRow] /\ Telling(Raisers)' = Telling(Raisers)
              /\ \A d \in Raisers \cup Admins : editing'[d] = IF d = c THEN NotEditing ELSE editing[d]
          <5>1. PICK r \in EditRow : r = NotEditing /\ r.pc = "idle"
            BY AlertRecords
          <5> QED
            BY <4>1, <5>1, OneEdits
        <4>3. Opened' = Opened
          BY <4>1, <4>2 DEF Opened
        <4>4. \A d \in Raisers \cup Admins : EditFits(d, editing'[d])
          BY <1>t, <4>2, AlertRecords DEF AlertTypes, EditFits, Told
        <4> QED
          BY <1>t, <4>1, <4>2, <4>3, <4>4, OpenedKept DEF AlertTypes
      <3> QED
        BY <3>1, <3>2
    <2>8. CASE acknowledge(c)
      <3>1. PICK row : row = [old EXCEPT !.status = "acknowledged"]
        OBVIOUS
      <3>2. row \in AlertRow /\ row.status = "acknowledged" /\ row.lastNotifiedAt = old.lastNotifiedAt
        BY <2>3, <3>1 DEF AlertRow
      <3>3. SaveAlert(c, row, NotEditing) /\ e.pc = "loaded" /\ c \in Admins
        BY <2>1, <2>2, <2>8, <3>1 DEF acknowledge
      <3>4. old.status # "none"
        BY <2>1, <2>2, <3>3 DEF EditFits
      <3> QED
        BY <2>1, <2>4, <3>2, <3>3, <3>4, AlertRecords, AlertSaved DEF Told
    <2> QED
      BY <1>5, <2>5, <2>6, <2>7, <2>8
  <1>6. ASSUME NEW c \in Raisers, notify(c) PROVE AlertInv'
    <2>1. /\ editing[c].pc = "notify" /\ notified' = notified \cup {editing[c].now}
          /\ editing' = [editing EXCEPT ![c] = NotEditing]
          /\ UNCHANGED <<alert, alertClock, version, raises, untold, alertCrashes, overwritten>>
      BY <1>6 DEF notify
    <2>2. /\ editing' \in [Raisers \cup Admins -> EditRow]
          /\ \A d \in Raisers \cup Admins : editing'[d] = IF d = c THEN NotEditing ELSE editing[d]
          /\ Telling(Raisers) \cup {editing[c].now} = Telling(Raisers)' \cup {editing[c].now}
      BY <2>1, AlertRecords, OneEdits
    <2>3. editing[c].now \in Telling(Raisers) /\ editing[c].now \in Nat
      BY <1>t, <2>1 DEF Telling, AlertTypes, EditRow
    <2>4. Opened' = Opened
      BY <2>1, <2>2, <2>3 DEF Opened
    <2>5. \A d \in Raisers \cup Admins : EditFits(d, editing'[d])
      BY <1>t, <2>2, AlertRecords DEF AlertTypes, EditFits, Told
    <2> QED
      BY <1>t, <2>1, <2>2, <2>3, <2>4, <2>5, OpenedKept DEF AlertTypes
  <1>7. ASSUME NEW callers \in SUBSET (Raisers \cup Admins), AlertProcessDies(callers) PROVE AlertInv'
    <2>1. /\ untold' = untold \cup Telling(callers)
          /\ editing' = [c \in Raisers \cup Admins |-> IF c \in callers THEN NotEditing ELSE editing[c]]
          /\ UNCHANGED <<alert, alertClock, version, raises, notified, overwritten>> /\ alertCrashes' \in Nat
      BY <1>7, <1>t DEF AlertProcessDies, AlertTypes
    <2>2. \A d \in Raisers \cup Admins :
              editing[d] \in EditRow /\ (editing[d].pc = "notify" => d \in Raisers)
      BY <1>t DEF AlertTypes, EditFits
    <2>3. editing' \in [Raisers \cup Admins -> EditRow]
      BY <2>1, <2>2, AlertRecords
    <2>4. Telling(callers) \subseteq Telling(Raisers) /\ Telling(callers) \subseteq Nat
      BY <2>2 DEF Telling, EditRow
    <2>5. Telling(Raisers)' \subseteq Telling(Raisers)
      BY <2>1, AlertRecords DEF Telling
    <2>6. Telling(Raisers) \subseteq Telling(Raisers)' \cup Telling(callers)
      BY <2>1 DEF Telling
    <2>7. Opened' = Opened
      BY <2>1, <2>4, <2>5, <2>6 DEF Opened
    <2>8. \A d \in Raisers \cup Admins : EditFits(d, editing'[d])
      BY <1>t, <2>1, AlertRecords DEF AlertTypes, EditFits, Told
    <2> QED
      BY <1>t, <2>1, <2>3, <2>4, <2>7, <2>8, OpenedKept DEF AlertTypes
  <1> QED
    BY <1>1, <1>2, <1>3, <1>4, <1>5, <1>6, <1>7 DEF AlertNext

\* It says more than NotificationsSpaced.
LEMMA AlertKept == AlertInv => NotificationsSpaced
  BY DEF AlertInv, NotificationsSpaced, Spaced, Opened

\* A raise that stays silent falls in the cooldown of one that opened the alert.
SilenceStep ==
    \A c \in Raisers :
        /\ editing[c].pc = "loaded" /\ editing[c].row.status # "none"
        /\ editing'[c].pc = "idle" /\ alertCrashes' = alertCrashes
        => \E t \in notified \cup untold \cup Telling(Raisers) : editing[c].now - t < Cooldown

\* Every step of the alerts is such a step.
LEMMA AlertSilent == AlertInv /\ [AlertNext]_alertVars => [SilenceStep]_alertVars
  <1> SUFFICES ASSUME AlertInv, AlertNext, NEW c \in Raisers,
                      editing[c].pc = "loaded", editing[c].row.status # "none",
                      editing'[c].pc = "idle", alertCrashes' = alertCrashes
               PROVE  \E t \in Opened : editing[c].now - t < Cooldown
    BY DEF SilenceStep, Opened
  <1>1. PICK e \in EditRow : e = editing[c] /\ EditFits(c, e)
    BY DEF AlertInv, AlertTypes
  <1>2. e.now \in Nat /\ Cooldown \in Nat \ {0} /\ e.row.lastNotifiedAt \in Opened
    BY <1>1, AlertAssumption DEF EditRow, EditFits, Told, AlertAssumption
  <1>3. editing \in [Raisers \cup Admins -> EditRow] /\ Raisers \cap Admins = {} /\ AlertTypes
    BY AlertAssumption DEF AlertAssumption, AlertInv, AlertTypes
  <1>4. CASE RaiseCooling(c)
    BY <1>1, <1>2, <1>4 DEF RaiseCooling, isCoolingDown
  <1>5. CASE RaiseReopen(c)
    <2>1. editing'[c] = ToNotify(c)
      BY <1>3, <1>5 DEF RaiseReopen, SaveAlert
    <2> QED
      BY <1>3, <2>1, AlertRecords
  <1>6. CASE RaiseCreate(c)
    BY <1>6 DEF RaiseCreate
  <1>7. RaiseCooling(c) \/ RaiseReopen(c) \/ RaiseCreate(c)
    <2>1. editing'[c] # editing[c]
      OBVIOUS
    <2>2. ASSUME NEW d \in Raisers \cup Admins, NEW r, editing' = [editing EXCEPT ![d] = r], d # c
          PROVE  FALSE
      BY <1>3, <2>1, <2>2
    <2>3. ~AlertTick
      BY <2>1 DEF AlertTick
    <2>4. ASSUME NEW d \in Admins, AcknowledgeLoad(d) \/ acknowledge(d) PROVE FALSE
      BY <1>3, <2>2, <2>4 DEF AcknowledgeLoad, acknowledge, LoadAlert, SaveAlert
    <2>5. ASSUME NEW d \in Raisers, RaiseLoad(d) \/ notify(d) PROVE FALSE
      <3>1. d = c
        BY <2>2, <2>5 DEF RaiseLoad, LoadAlert, notify
      <3> QED
        BY <2>5, <3>1 DEF RaiseLoad, notify
    <2>6. ASSUME NEW d \in Raisers, RaiseCooling(d) \/ RaiseReopen(d) \/ RaiseCreate(d) PROVE d = c
      BY <2>2, <2>6 DEF RaiseCooling, RaiseReopen, RaiseCreate, SaveAlert
    <2>7. ASSUME NEW callers, AlertProcessDies(callers) PROVE FALSE
      <3>1. alertCrashes' = alertCrashes + 1 /\ alertCrashes < MaxAlertCrashes
        BY <2>7 DEF AlertProcessDies
      <3> QED
        BY <3>1, <1>3, AlertAssumption DEF AlertTypes, AlertAssumption
    <2> QED
      BY <2>3, <2>4, <2>5, <2>6, <2>7 DEF AlertNext
  <1> QED
    BY <1>4, <1>5, <1>6, <1>7

--------------------------------------------------------------------------------
(* Backups                                                                 *)

WaiterPcs == {"idle", "racing", "finished", "failing", "threw", "ended"}
TaskRow == [pc : {"idle", "dump", "prune", "done", "threw"}, toDelete : SUBSET Nat]

BackupTypes ==
    /\ backupDay \in Nat /\ RetentionDays \in Nat
    /\ cronLog \in [Runs -> {"none", "started", "completed", "failed"}]
    /\ waiter \in [Runs -> WaiterPcs]
    /\ task \in [Runs -> TaskRow]
    /\ backups \in SUBSET Nat /\ \A b \in backups : b <= backupDay

\* A wait that finished or is logged as completed had its task done; one that
\* ended without is alerted or was cut off; a run to come has not begun.
RunFits(d) ==
    /\ waiter[d] = "finished" => task[d].pc = "done"
    /\ cronLog[d] = "completed" => task[d].pc = "done"
    /\ waiter[d] = "ended" => cronLog[d] = "completed" \/ d \in alerted \cup undone
    /\ d > backupDay => waiter[d] = "idle" /\ cronLog[d] = "none" /\ task[d].pc = "idle"

\* What a task is going to delete is older than some backup that is there.
OldOnly(d) == task[d].pc = "prune" => \A b \in task[d].toDelete : \E n \in backups : b < n

BackupInv ==
    /\ BackupTypes
    /\ \A d \in Runs : RunFits(d) /\ OldOnly(d)

\* It holds at the start.
LEMMA BackupInitially == BackupInit => BackupInv
  <1> SUFFICES ASSUME BackupInit PROVE BackupInv
    OBVIOUS
  <1>1. NoTask \in TaskRow /\ NoTask.pc = "idle"
    BY DEF NoTask, TaskRow
  <1>2. BackupTypes
    BY <1>1, BackupAssumption DEF BackupInit, BackupTypes, WaiterPcs, BackupAssumption
  <1> QED
    BY <1>1, <1>2 DEF BackupInit, BackupInv, RunFits, OldOnly

\* The newest backup, when there is one.
LEMMA NewestBackup ==
  ASSUME BackupTypes, backups # {}
  PROVE  Max(backups) \in backups /\ \A b \in backups : b <= Max(backups)
  <1>1. PICK m \in backups : \A b \in backups : b <= m
    BY Greatest DEF BackupTypes
  <1>2. \A b \in backups : b \in Nat
    BY DEF BackupTypes
  <1>3. \A b \in backups : m >= b
    BY <1>1, <1>2
  <1>4. Max(backups) \in backups /\ \A b \in backups : Max(backups) >= b
    BY <1>1, <1>3 DEF Max
  <1> QED
    BY <1>2, <1>4

\* One task deletes old backups only, and none it was not going to.
LEMMA PruneKeeps ==
  ASSUME BackupInv, NEW d \in Runs, task[d].pc = "prune", NEW done \in SUBSET task[d].toDelete,
         NEW n \in backups
  PROVE  \E m \in backups \ done : n <= m
  <1>1. BackupTypes /\ OldOnly(d)
    BY DEF BackupInv
  <1>2. Max(backups) \in backups /\ \A b \in backups : b <= Max(backups)
    BY <1>1, NewestBackup
  <1>3. PICK m : m = Max(backups)
    OBVIOUS
  <1>4. m \in Nat /\ m \in backups /\ \A b \in backups : b \in Nat /\ b <= m
    BY <1>1, <1>2, <1>3 DEF BackupTypes
  <1>5. m \notin done
    <2> SUFFICES ASSUME m \in task[d].toDelete PROVE FALSE
      OBVIOUS
    <2>1. PICK k \in backups : m < k
      BY <1>1 DEF OldOnly
    <2> QED
      BY <1>4, <2>1
  <1> QED
    BY <1>4, <1>5

\* Every step of the backups keeps it.
LEMMA BackupInvStep == BackupInv /\ [BackupNext]_backupVars => BackupInv'
  <1> SUFFICES ASSUME BackupInv, [BackupNext]_backupVars PROVE BackupInv'
    OBVIOUS
  <1>t. /\ backupDay \in Nat /\ RetentionDays \in Nat
        /\ cronLog \in [Runs -> {"none", "started", "completed", "failed"}]
        /\ waiter \in [Runs -> WaiterPcs] /\ task \in [Runs -> TaskRow]
        /\ backups \in SUBSET Nat /\ \A b \in backups : b <= backupDay
        /\ \A d \in Runs : RunFits(d) /\ OldOnly(d) /\ d \in Nat
    BY DEF BackupInv, BackupTypes, Runs
  <1>1. CASE UNCHANGED backupVars
    BY <1>1 DEF backupVars, BackupInv, BackupTypes, RunFits, OldOnly
  <1>2. CASE StartRun
    <2>1. PICK d \in Runs : d = backupDay + 1 /\ backupDay' = d /\ UNCHANGED <<backups, alerted, undone>>
      BY <1>2 DEF StartRun
    <2>2. PICK w \in {"racing", "threw"} : waiter' = [waiter EXCEPT ![d] = w]
      BY <1>2, <2>1 DEF StartRun
    <2>3. \/ cronLog' = [cronLog EXCEPT ![d] = "started"] /\ task' = [task EXCEPT ![d].pc = "dump"]
          \/ UNCHANGED <<cronLog, task>>
      BY <1>2, <2>1 DEF StartRun
    <2>4. PICK r \in TaskRow : r.pc \in {"idle", "dump"} /\ task' = [task EXCEPT ![d] = r]
      <3>1. RunFits(d) /\ d > backupDay
        BY <1>t, <2>1
      <3>2. PICK r : r = [task[d] EXCEPT !.pc = "dump"]
        OBVIOUS
      <3>3. r \in TaskRow /\ r.pc = "dump"
        BY <1>t, <3>2 DEF TaskRow
      <3>4. task[d] \in TaskRow /\ task[d].pc = "idle" /\ task = [task EXCEPT ![d] = task[d]]
        BY <1>t, <3>1 DEF RunFits
      <3>5. CASE task' = [task EXCEPT ![d].pc = "dump"]
        BY <3>2, <3>3, <3>5
      <3>6. CASE task' = task
        BY <3>4, <3>6
      <3> QED
        BY <2>3, <3>5, <3>6
    <2>5. PICK l \in {"none", "started"} : cronLog' = [cronLog EXCEPT ![d] = l]
      BY <1>t, <2>1, <2>3 DEF RunFits
    <2>6. \A e \in Runs : /\ waiter'[e] = IF e = d THEN w ELSE waiter[e]
                          /\ task'[e] = IF e = d THEN r ELSE task[e]
                          /\ cronLog'[e] = IF e = d THEN l ELSE cronLog[e]
      BY <1>t, <2>2, <2>4, <2>5
    <2>7. BackupTypes'
      BY <1>t, <2>2, <2>4, <2>5, <2>1 DEF WaiterPcs, BackupTypes
    <2>8. \A e \in Runs : (RunFits(e) /\ OldOnly(e))'
      <3> SUFFICES ASSUME NEW e \in Runs PROVE (RunFits(e) /\ OldOnly(e))'
        OBVIOUS
      <3>1. CASE e = d
        BY <1>t, <2>1, <2>4, <2>6, <3>1 DEF RunFits, OldOnly
      <3>2. CASE e # d
        <4>1. e > backupDay' => e > backupDay
          BY <1>t, <2>1
        <4> QED
          BY <1>t, <2>1, <2>6, <3>2, <4>1 DEF RunFits, OldOnly
      <3> QED
        BY <3>1, <3>2
    <2> QED
      BY <2>7, <2>8 DEF BackupInv
  <1>3. ASSUME NEW d \in Runs, NEW w \in WaiterPcs, waiter[d] # "idle", waiter' = [waiter EXCEPT ![d] = w],
               NEW l \in {"none", "started", "completed", "failed"}, cronLog' = [cronLog EXCEPT ![d] = l],
               UNCHANGED <<backupDay, task, backups>>, alerted \subseteq alerted', undone \subseteq undone',
               w = "finished" \/ l = "completed" => task[d].pc = "done",
               w = "ended" => l = "completed" \/ d \in alerted' \cup undone'
        PROVE  BackupInv'
    BY <1>t, <1>3 DEF BackupTypes, RunFits, OldOnly, BackupInv
  <1>4. ASSUME NEW d \in Runs, NEW r \in TaskRow, task[d].pc \notin {"idle", "done"}, task' = [task EXCEPT ![d] = r],
               UNCHANGED <<backupDay, cronLog, waiter, alerted, undone>>,
               backups' \in SUBSET Nat, \A b \in backups' : b <= backupDay,
               \A n \in backups : \E m \in backups' : n <= m,
               r.pc = "prune" => \A b \in r.toDelete : \E n \in backups' : b < n
        PROVE  BackupInv'
    <2>1. \A e \in Runs : task'[e] = IF e = d THEN r ELSE task[e]
      BY <1>t, <1>4
    <2>2. BackupTypes'
      BY <1>t, <1>4 DEF BackupTypes
    <2>3. \A e \in Runs : RunFits(e)'
      BY <1>t, <1>4, <2>1 DEF RunFits
    <2>4. \A e \in Runs : OldOnly(e)'
      <3> SUFFICES ASSUME NEW e \in Runs, task'[e].pc = "prune", NEW b \in task'[e].toDelete
                   PROVE  \E n \in backups' : b < n
        BY DEF OldOnly
      <3>1. CASE e = d
        BY <1>4, <2>1, <3>1
      <3>2. CASE e # d
        <4>1. PICK n \in backups : b < n
          BY <1>t, <2>1, <3>2 DEF OldOnly
        <4>2. PICK m \in backups' : n <= m
          BY <1>4
        <4>3. b \in Nat
          BY <1>t, <2>1, <3>2 DEF TaskRow
        <4>4. b < m
          BY <1>t, <1>4, <4>1, <4>2, <4>3
        <4> QED
          BY <4>4
      <3> QED
        BY <3>1, <3>2
    <2> QED
      BY <2>2, <2>3, <2>4 DEF BackupInv
  <1>5. ASSUME NEW d \in Runs, NEW from, NEW to \in {"dump", "prune", "done", "threw"}, TaskGoes(d, from, to)
        PROVE  /\ [task[d] EXCEPT !.pc = to] \in TaskRow
               /\ task' = [task EXCEPT ![d] = [task[d] EXCEPT !.pc = to]] /\ task[d].pc = from
               /\ [task[d] EXCEPT !.pc = to].pc = to
    BY <1>t, <1>5 DEF TaskGoes, TaskRow
  <1>6. ASSUME NEW d \in Runs, DumpFails(d) PROVE BackupInv'
    <2>1. \A n \in backups : n \in Nat /\ n <= n
      BY <1>t
    <2>2. PICK r : r = [task[d] EXCEPT !.pc = "threw"]
      OBVIOUS
    <2>3. TaskGoes(d, "dump", "threw") /\ UNCHANGED <<backupDay, cronLog, waiter, backups, alerted, undone>>
      BY <1>6 DEF DumpFails
    <2>4. r \in TaskRow /\ task' = [task EXCEPT ![d] = r] /\ task[d].pc = "dump" /\ r.pc = "threw"
      BY <1>5, <2>2, <2>3
    <2> QED
      BY <1>t, <1>4, <2>1, <2>3, <2>4
  <1>7. ASSUME NEW d \in Runs, DumpAndUpload(d) PROVE BackupInv'
    <2>1. PICK r : r = [pc |-> "prune", toDelete |-> {b \in backups' : b < backupDay - RetentionDays}]
      OBVIOUS
    <2>2. /\ backups' = backups \cup {backupDay} /\ task[d].pc = "dump" /\ task' = [task EXCEPT ![d] = r]
          /\ UNCHANGED <<backupDay, cronLog, waiter, alerted, undone>>
      BY <1>7, <2>1 DEF DumpAndUpload
    <2>3. backups' \in SUBSET Nat /\ \A b \in backups' : b <= backupDay
      BY <1>t, <2>2
    <2>4. r \in TaskRow
      BY <2>1, <2>3 DEF TaskRow
    <2>5. \A b \in r.toDelete : b \in Nat /\ b < backupDay
      BY <1>t, <2>1, <2>3
    <2>6. \A n \in backups : n \in backups' /\ n \in Nat /\ n <= n
      BY <1>t, <2>2
    <2>7. \A b \in r.toDelete : \E n \in backups' : b < n
      BY <2>2, <2>5
    <2> QED
      BY <1>4, <2>2, <2>3, <2>4, <2>6, <2>7
  <1>8. ASSUME NEW d \in Runs, pruneOldBackups(d) PROVE BackupInv'
    <2>1. PICK done \in SUBSET task[d].toDelete :
              /\ backups' = backups \ done
              /\ task' = [task EXCEPT ![d].pc = IF done = task[d].toDelete THEN "done" ELSE "threw"]
      BY <1>8 DEF pruneOldBackups
    <2>2. PICK to \in {"done", "threw"} : to = IF done = task[d].toDelete THEN "done" ELSE "threw"
      OBVIOUS
    <2>3. TaskGoes(d, "prune", to) /\ UNCHANGED <<backupDay, cronLog, waiter, alerted, undone>>
      BY <1>8, <2>1, <2>2 DEF pruneOldBackups, TaskGoes
    <2>4. PICK r : r = [task[d] EXCEPT !.pc = to]
      OBVIOUS
    <2>5. r \in TaskRow /\ task' = [task EXCEPT ![d] = r] /\ task[d].pc = "prune" /\ r.pc = to
      BY <1>t, <2>3, <2>4 DEF TaskGoes, TaskRow
    <2>6. \A n \in backups : \E m \in backups' : n <= m
      BY <2>1, <2>5, PruneKeeps
    <2>7. backups' \in SUBSET Nat /\ \A b \in backups' : b <= backupDay
      BY <1>t, <2>1
    <2> QED
      BY <1>4, <2>3, <2>5, <2>6, <2>7
  <1>9. ASSUME NEW d \in Runs, NEW from, NEW to, Wait(d, from, to)
        PROVE  waiter[d] = from /\ waiter' = [waiter EXCEPT ![d] = to]
    BY <1>9 DEF Wait
  <1>10. \A d \in Runs : cronLog = [cronLog EXCEPT ![d] = cronLog[d]]
    BY <1>t
  <1>11. ASSUME NEW d \in Runs, Timeout(d) \/ TaskSettles(d) PROVE BackupInv'
    <2>1. PICK w \in {"finished", "failing"} : Wait(d, "racing", w) /\ (w = "finished" => task[d].pc = "done")
      BY <1>11 DEF Timeout, TaskSettles
    <2>2. UNCHANGED <<backupDay, cronLog, task, backups, alerted, backupFaults, undone>>
      BY <1>11 DEF Timeout, TaskSettles
    <2>3. waiter[d] = "racing" /\ waiter' = [waiter EXCEPT ![d] = w]
      BY <1>9, <2>1
    <2>4. PICK l \in {"none", "started", "completed", "failed"} : l = cronLog[d]
      BY <1>t
    <2>5. w \in WaiterPcs /\ w # "ended" /\ cronLog' = [cronLog EXCEPT ![d] = l] /\ (l = "completed" => task[d].pc = "done")
      BY <1>t, <1>10, <2>2, <2>4 DEF WaiterPcs, RunFits
    <2> QED
      BY <1>3, <2>1, <2>2, <2>3, <2>5
  <1>12. ASSUME NEW d \in Runs, SaveCompleted(d) PROVE BackupInv'
    <2>1. UNCHANGED <<backupDay, task, backups, alerted, undone>> /\ waiter[d] = "finished" /\ task[d].pc = "done"
      BY <1>t, <1>12 DEF SaveCompleted, Wait, RunFits
    <2>2. CASE Wait(d, "finished", "ended") /\ cronLog' = [cronLog EXCEPT ![d] = "completed"]
      <3>1. waiter' = [waiter EXCEPT ![d] = "ended"] /\ "ended" \in WaiterPcs
        BY <1>9, <2>2 DEF WaiterPcs
      <3> QED
        BY <1>3, <2>1, <2>2, <3>1
    <2>3. CASE Wait(d, "finished", "failing") /\ cronLog' = cronLog
      <3>1. waiter' = [waiter EXCEPT ![d] = "failing"] /\ "failing" \in WaiterPcs
        BY <1>9, <2>3 DEF WaiterPcs
      <3>2. PICK l \in {"none", "started", "completed", "failed"} : l = cronLog[d]
        BY <1>t
      <3>3. cronLog' = [cronLog EXCEPT ![d] = l]
        BY <1>10, <2>3, <3>2
      <3> QED
        BY <1>3, <2>1, <3>1, <3>2, <3>3
    <2> QED
      BY <1>12, <2>2, <2>3 DEF SaveCompleted
  <1>13. ASSUME NEW d \in Runs, SaveFailedRun(d) PROVE BackupInv'
    <2>1. UNCHANGED <<backupDay, task, backups, alerted, undone>> /\ Wait(d, "failing", "threw")
      BY <1>13 DEF SaveFailedRun
    <2>2. waiter[d] = "failing" /\ waiter' = [waiter EXCEPT ![d] = "threw"] /\ "threw" \in WaiterPcs
      BY <1>9, <2>1 DEF WaiterPcs
    <2>3. PICK l \in {"none", "started", "completed", "failed"} : l = cronLog[d]
      BY <1>t
    <2>4. l = "completed" => task[d].pc = "done"
      BY <1>t, <2>3 DEF RunFits
    <2>5. CASE cronLog' = cronLog
      <3>1. cronLog' = [cronLog EXCEPT ![d] = l]
        BY <1>10, <2>3, <2>5
      <3> QED
        BY <1>3, <2>1, <2>2, <2>4, <3>1
    <2>6. CASE cronLog' = [cronLog EXCEPT ![d] = "failed"]
      BY <1>3, <2>1, <2>2, <2>6
    <2> QED
      BY <1>13, <2>5, <2>6 DEF SaveFailedRun
  <1>14. ASSUME NEW d \in Runs, onBackupFailed(d) PROVE BackupInv'
    <2>1. UNCHANGED <<backupDay, cronLog, task, backups>> /\ Wait(d, "threw", "ended")
      BY <1>14 DEF onBackupFailed
    <2>2. waiter[d] = "threw" /\ waiter' = [waiter EXCEPT ![d] = "ended"] /\ "ended" \in WaiterPcs
      BY <1>9, <2>1 DEF WaiterPcs
    <2>3. alerted \subseteq alerted' /\ undone \subseteq undone' /\ d \in alerted' \cup undone'
      BY <1>14 DEF onBackupFailed
    <2>4. PICK l \in {"none", "started", "completed", "failed"} : l = cronLog[d]
      BY <1>t
    <2>5. cronLog' = [cronLog EXCEPT ![d] = l] /\ (l = "completed" => task[d].pc = "done")
      BY <1>t, <1>10, <2>1, <2>4 DEF RunFits
    <2> QED
      BY <1>3, <2>1, <2>2, <2>3, <2>5
  <1>15. CASE BackupRestart
    <2>1. PICK running \in SUBSET Runs :
              /\ \A d \in running : waiter[d] # "idle"
              /\ waiter' = [d \in Runs |-> IF d \in running THEN "ended" ELSE waiter[d]]
              /\ undone' = undone \cup running
      BY <1>15 DEF BackupRestart
    <2>2. /\ task' = [d \in Runs |-> IF task[d].pc \in {"dump", "prune"} THEN NoTask ELSE task[d]]
          /\ UNCHANGED <<backupDay, cronLog, backups, alerted>>
      BY <1>15 DEF BackupRestart
    <2>3. NoTask \in TaskRow /\ NoTask.pc = "idle" /\ "ended" \in WaiterPcs
      BY DEF NoTask, TaskRow, WaiterPcs
    <2>4. BackupTypes'
      BY <1>t, <2>1, <2>2, <2>3 DEF BackupTypes
    <2>5. \A d \in Runs : RunFits(d)'
      <3> SUFFICES ASSUME NEW d \in Runs PROVE RunFits(d)'
        OBVIOUS
      <3>1. /\ waiter'[d] = IF d \in running THEN "ended" ELSE waiter[d]
            /\ task[d].pc \in {"done", "idle"} => task'[d] = task[d]
            /\ d \in running => d \in undone'
        BY <2>1, <2>2
      <3> QED
        BY <1>t, <2>1, <2>2, <3>1 DEF RunFits
    <2>6. \A d \in Runs : OldOnly(d)'
      BY <2>2, <2>3 DEF OldOnly
    <2> QED
      BY <2>4, <2>5, <2>6 DEF BackupInv
  <1> QED
    BY <1>1, <1>2, <1>6, <1>7, <1>8, <1>11, <1>12, <1>13, <1>14, <1>15 DEF BackupNext

\* It says what the component promises.
LEMMA BackupKept == BackupInv => CompletedMeansDone /\ FailuresAlerted
  BY DEF BackupInv, RunFits, CompletedMeansDone, FailuresAlerted

NewestStep == backups # {} => Max(backups) \in backups'

\* No step of the backups deletes the newest one.
LEMMA NewestStays == BackupInv /\ [BackupNext]_backupVars => [NewestStep]_backupVars
  <1> SUFFICES ASSUME BackupInv, BackupNext, backups # {} PROVE Max(backups) \in backups'
    BY DEF NewestStep
  <1>1. Max(backups) \in backups /\ \A b \in backups : b <= Max(backups)
    BY NewestBackup DEF BackupInv
  <1>2. CASE backups \subseteq backups'
    BY <1>1, <1>2
  <1>3. ASSUME NEW d \in Runs, pruneOldBackups(d) PROVE Max(backups) \in backups'
    <2>1. PICK done \in SUBSET task[d].toDelete : backups' = backups \ done /\ task[d].pc = "prune"
      BY <1>3 DEF pruneOldBackups
    <2>2. PICK m : m = Max(backups)
      OBVIOUS
    <2>3. m \in backups /\ \A b \in backups : b <= m
      BY <1>1, <2>2
    <2>4. PICK n \in backups \ done : m <= n
      BY <2>1, <2>3, PruneKeeps
    <2>5. n <= m /\ n \in Nat /\ m \in Nat
      BY <2>3, <2>4 DEF BackupInv, BackupTypes
    <2>6. n = m
      BY <2>4, <2>5
    <2> QED
      BY <2>1, <2>2, <2>4, <2>6
  <1>4. (\E d \in Runs : pruneOldBackups(d)) \/ backups \subseteq backups'
    BY DEF BackupNext, StartRun, BackupRestart, DumpFails, DumpAndUpload, Timeout, TaskSettles,
           SaveCompleted, SaveFailedRun, onBackupFailed
  <1> QED
    BY <1>2, <1>3, <1>4

--------------------------------------------------------------------------------
(* Copying the events of the escrow                                        *)

LogRow == [id : EscrowIds \cup {ForeignId}, topic : Topics, ledger : Nat]
PollRow == [pc : {"idle", "find", "events", "save"}, todo : SUBSET Nat, snapshot : [EscrowIds -> Statuses]]
ConfirmRow == [pc : {"idle", "confirmed", "expired", "done"}, id : EscrowIds \cup {ForeignId}]
Seqs == Seq(LogRow)

SyncTypes ==
    /\ rows \in [EscrowIds -> Statuses] /\ escrowLog \in Seqs /\ closed \in Nat
    /\ startLedger \in Nat /\ startLedger <= closed
    /\ processed \in Seq(Nat) /\ poll \in PollRow
    /\ confirms \in [Confirmers -> ConfirmRow]
    /\ \A c \in Confirmers : confirms[c].pc \in {"confirmed", "expired"} => confirms[c].id \in EscrowIds
    /\ syncFaults \in Nat /\ applied \in [EscrowIds -> Nat] /\ fetched \in 0 .. Len(escrowLog)

Logged == 1 .. Len(escrowLog)
Done == Range(processed)

\* Ledgers go on along the log, what was read is in closed ones, and only payments
\* with a row have events.
LogFits ==
    /\ \A e, f \in Logged : e <= f => escrowLog[e].ledger <= escrowLog[f].ledger
    /\ \A e \in Logged : /\ escrowLog[e].ledger <= closed + 1
                         /\ e <= fetched => escrowLog[e].ledger <= closed
                         /\ escrowLog[e].id \in EscrowIds => rows[escrowLog[e].id] # "none"

Increasing(s) == \A i, j \in 1 .. Len(s) : i < j => s[i] < s[j]

\* The ids remembered are in the order of the log; from the cursor on they have no gap,
\* and reach no further back than a page.
DedupFits ==
    /\ Increasing(processed) /\ Len(processed) <= DedupMax
    /\ \A x \in Done : x \in 1 .. fetched
    /\ \A f \in Logged : startLedger <= escrowLog[f].ledger /\ f \notin Done => \A x \in Done : x < f
    /\ \A f \in Logged : startLedger <= escrowLog[f].ledger /\ f <= fetched => fetched - f < EventPage

\* What is left of a page goes up to the last event read; what it holds anew is later
\* than all that is remembered, and from the cursor on nothing before it is missing.
PageFits ==
    /\ poll.pc = "idle" => poll.todo = {}
    /\ poll.pc \in {"find", "save"} => poll.todo # {}
    /\ \A e \in poll.todo : e \in 1 .. fetched /\ \A f \in e .. fetched : f \in poll.todo
    /\ \A e \in poll.todo : e \notin Done => \A x \in Done : x < e
    /\ poll.todo # {} =>
           \A f \in Logged : startLedger <= escrowLog[f].ledger /\ (\A e \in poll.todo : f < e) => f \in Done

\* Events that will not be read any more are of payments known to be unsure.
LostFits ==
    /\ \A e \in Logged : fetched < e /\ escrowLog[e].ledger < startLedger => escrowLog[e].id \in unsure
    /\ \A e \in Logged : e <= fetched /\ e \notin Done /\ e \notin poll.todo /\ startLedger <= escrowLog[e].ledger =>
           escrowLog[e].id \in unsure \cup {ForeignId}

\* The events of a payment that the polls are done with, and what they make of its row.
Seen(p) == {e \in 1 .. fetched : escrowLog[e].id = p /\ (e \in poll.todo => e \in Done)}
Shows(status, p) ==
    \A e \in Seen(p) : (\A d \in Seen(p) : d <= e) => status = mapTopicToStatus(escrowLog[e].topic)
Saving(p) == poll.pc = "save" /\ escrowLog[Current].id = p

RowsFit ==
    \A p \in EscrowIds \ (unsure \cup shortPaid) : Shows(IF Saving(p) THEN poll.snapshot[p] ELSE rows[p], p)

\* The snapshot agrees with the rows the page is about.
SnapshotFits ==
    poll.pc \in {"events", "save"} =>
        \A e \in poll.todo : \A p \in EscrowIds : escrowLog[e].id = p =>
            /\ poll.snapshot[p] # "none"
            /\ p \notin unsure \cup shortPaid /\ ~Saving(p) => poll.snapshot[p] = rows[p]

\* The event being saved is the last one remembered; a short deposit is among them
\* only when its balance could not be read.
SaveFits ==
    poll.pc = "save" =>
        /\ Current \in Done /\ escrowLog[Current].id \in EscrowIds /\ \A x \in Done : x <= Current
        /\ \A p \in shortPaid : Saving(p) /\ poll.snapshot[p] = "confirmed" => syncFaults > 0

AppliedFits == \A p \in EscrowIds : applied[p] = 0 \/ \E x \in Done : applied[p] <= x

SyncInv ==
    /\ SyncTypes /\ LogFits /\ DedupFits /\ PageFits /\ LostFits
    /\ RowsFit /\ SnapshotFits /\ SaveFits /\ AppliedFits

\* It holds at the start.
LEMMA SyncInitially == SyncInit => SyncInv
  <1> SUFFICES ASSUME SyncInit PROVE SyncInv
    OBVIOUS
  <1>1. /\ rows = [p \in EscrowIds |-> "none"] /\ escrowLog = << >> /\ closed = 1
        /\ startLedger = 0 /\ processed = << >> /\ poll = Unpolled
        /\ confirms = [c \in Confirmers |-> NoConfirm] /\ syncFaults = 0
        /\ applied = [p \in EscrowIds |-> 0] /\ fetched = 0 /\ unsure = {}
    BY DEF SyncInit
  <1>2. Unpolled \in PollRow /\ Unpolled.pc = "idle" /\ Unpolled.todo = {}
    BY DEF Unpolled, PollRow, Statuses
  <1>3. NoConfirm \in ConfirmRow /\ NoConfirm.pc = "idle"
    BY DEF NoConfirm, ConfirmRow
  <1>4. escrowLog \in Seqs /\ Len(escrowLog) = 0 /\ processed \in Seq(Nat) /\ Len(processed) = 0
    BY <1>1 DEF Seqs
  <1>5. SyncTypes
    BY <1>1, <1>2, <1>3, <1>4 DEF SyncTypes, Statuses
  <1>6. Done = {} /\ Logged = {}
    BY <1>1, <1>4 DEF Done, Range, Logged
  <1>7. LogFits /\ DedupFits
    BY <1>1, <1>4, <1>6, SyncAssumption DEF LogFits, DedupFits, Increasing, SyncAssumption
  <1>8. PageFits /\ LostFits /\ SnapshotFits /\ SaveFits /\ AppliedFits
    BY <1>1, <1>2, <1>6 DEF PageFits, LostFits, SnapshotFits, SaveFits, AppliedFits
  <1>9. RowsFit
    BY <1>1 DEF RowsFit, Shows, Seen
  <1> QED
    BY <1>5, <1>7, <1>8, <1>9 DEF SyncInv

\* An increasing sequence of numbers climbs at least one at each place.
LEMMA Climbs ==
  ASSUME NEW s \in Seq(Nat), Increasing(s), NEW j \in 1 .. Len(s)
  PROVE  s[1] + (j - 1) <= s[j]
  <1> SUFFICES ASSUME ~(s[1] + (j - 1) <= s[j]) PROVE FALSE
    OBVIOUS
  <1>t. Len(s) \in Nat /\ \A i \in 1 .. Len(s) : s[i] \in Nat
    OBVIOUS
  <1>1. PICK B : B = {i \in 1 .. Len(s) : ~(s[1] + (i - 1) <= s[i])}
    OBVIOUS
  <1>2. B # {} /\ B \in SUBSET Nat
    BY <1>1
  <1>3. PICK i \in B : \A k \in B : i <= k
    BY <1>2, Smallest
  <1>4. i \in 1 .. Len(s) /\ ~(s[1] + (i - 1) <= s[i])
    BY <1>1, <1>3
  <1>5. i # 1
    BY <1>t, <1>4
  <1>6. i - 1 \in 1 .. Len(s) /\ i - 1 < i
    BY <1>t, <1>4, <1>5
  <1>7. i - 1 \notin B
    BY <1>3, <1>4, <1>6
  <1>8. s[1] + (i - 2) <= s[i - 1]
    BY <1>1, <1>6, <1>7
  <1>9. s[i - 1] < s[i]
    BY <1>4, <1>6 DEF Increasing
  <1> QED
    BY <1>t, <1>4, <1>6, <1>8, <1>9, SMTT(30)

\* Remembering a later id keeps the order and the bound; an id that is forgotten lies
\* DedupMax or more back.
LEMMA Remembers ==
  ASSUME processed \in Seq(Nat), Increasing(processed), Len(processed) <= DedupMax,
         NEW e \in Nat, \A x \in Done : x < e, NEW q, q = Remember(e)
  PROVE  /\ q \in Seq(Nat) /\ Increasing(q) /\ Len(q) <= DedupMax /\ e \in Range(q)
         /\ \A x \in Range(q) : x \in Done \/ x = e
         /\ \A x \in Done : x \in Range(q) \/ x + DedupMax <= e
  <1>d. DedupMax \in Nat \ {0}
    BY SyncAssumption DEF SyncAssumption
  <1>1. PICK all : all = Append(processed, e)
    OBVIOUS
  <1>2. PICK n \in Nat : n = Len(processed)
    OBVIOUS
  <1>3. /\ all \in Seq(Nat) /\ Len(all) = n + 1 /\ all[n + 1] = e
        /\ \A i \in 1 .. n : all[i] = processed[i] /\ processed[i] \in Done
    BY <1>1, <1>2 DEF Done, Range
  <1>4. Increasing(all)
    <2> SUFFICES ASSUME NEW i \in 1 .. n + 1, NEW j \in 1 .. n + 1, i < j PROVE all[i] < all[j]
      BY <1>3 DEF Increasing
    <2>1. i \in 1 .. n
      BY <1>2
    <2>2. CASE j = n + 1
      BY <1>3, <2>1, <2>2
    <2>3. CASE j # n + 1
      <3>1. j \in 1 .. n
        BY <1>2, <2>3
      <3> QED
        BY <1>2, <1>3, <2>1, <3>1 DEF Increasing
    <2> QED
      BY <2>2, <2>3
  <1>5. \A x \in Done : \E i \in 1 .. n : x = processed[i]
    BY <1>2 DEF Done, Range
  <1>6. CASE ~(n + 1 > DedupMax)
    <2>1. q = all
      BY <1>1, <1>3, <1>6 DEF Remember
    <2>2. \A x \in Range(q) : x \in Done \/ x = e
      <3> SUFFICES ASSUME NEW i \in 1 .. n + 1 PROVE all[i] \in Done \/ all[i] = e
        BY <1>3, <2>1 DEF Range
      <3> QED
        BY <1>2, <1>3, SMTT(30)
    <2>3. e \in Range(q) /\ \A x \in Done : x \in Range(q)
      <3>1. \A i \in 1 .. n + 1 : all[i] \in Range(q)
        BY <1>3, <2>1 DEF Range
      <3>2. n + 1 \in 1 .. n + 1 /\ \A i \in 1 .. n : i \in 1 .. n + 1
        BY <1>2
      <3> QED
        BY <1>3, <1>5, <3>1, <3>2
    <2> QED
      BY <1>d, <1>3, <1>4, <1>6, <2>1, <2>2, <2>3
  <1>7. CASE n + 1 > DedupMax
    <2>0. n = DedupMax /\ n >= 1
      BY <1>d, <1>2, <1>7
    <2>1. q = Tail(all)
      BY <1>1, <1>3, <1>7 DEF Remember
    <2>2. q \in Seq(Nat) /\ Len(q) = n /\ \A i \in 1 .. n : q[i] = all[i + 1]
      BY <1>2, <1>3, <2>0, <2>1
    <2>3. Increasing(q)
      <3> SUFFICES ASSUME NEW i \in 1 .. n, NEW j \in 1 .. n, i < j PROVE q[i] < q[j]
        BY <2>2 DEF Increasing
      <3>1. i + 1 \in 1 .. n + 1 /\ j + 1 \in 1 .. n + 1 /\ i + 1 < j + 1
        BY <1>2
      <3> QED
        BY <1>3, <1>4, <2>2, <3>1 DEF Increasing
    <2>4. \A x \in Range(q) : x \in Done \/ x = e
      <3> SUFFICES ASSUME NEW i \in 1 .. n PROVE q[i] \in Done \/ q[i] = e
        BY <2>2 DEF Range
      <3>1. PICK k \in 1 .. n + 1 : k = i + 1
        BY <1>2
      <3>2. all[k] \in Done \/ all[k] = e
        <4>1. CASE k = n + 1
          BY <1>3, <4>1
        <4>2. CASE k # n + 1
          <5>1. k \in 1 .. n
            BY <1>2, <4>2
          <5> QED
            BY <1>3, <5>1
        <4> QED
          BY <4>1, <4>2
      <3> QED
        BY <2>2, <3>1, <3>2
    <2>5. \A i \in 1 .. n : all[i + 1] \in Range(q)
      <3> SUFFICES ASSUME NEW i \in 1 .. n PROVE all[i + 1] \in Range(q)
        OBVIOUS
      <3>1. q[i] = all[i + 1] /\ i \in DOMAIN q
        BY <2>2
      <3>2. q[i] \in Range(q)
        BY <3>1 DEF Range
      <3> QED
        BY <3>1, <3>2
    <2>6. e \in Range(q)
      BY <1>2, <1>3, <2>0, <2>5
    <2>7. ASSUME NEW x \in Done PROVE x \in Range(q) \/ x + DedupMax <= e
      <3>1. PICK i \in 1 .. n : x = processed[i]
        BY <1>5
      <3>2. CASE i = 1
        <4>1. all[1] + n <= all[n + 1]
          <5>1. PICK k \in 1 .. Len(all) : k = n + 1
            BY <1>2, <1>3
          <5>2. all[1] + (k - 1) <= all[k]
            BY <1>3, <1>4, Climbs
          <5>3. k - 1 = n
            BY <1>2, <5>1
          <5> QED
            BY <5>1, <5>2, <5>3
        <4>2. all[1] = x
          BY <1>2, <1>3, <3>1, <3>2
        <4> QED
          BY <1>3, <2>0, <4>1, <4>2
      <3>3. CASE i # 1
        <4>1. i - 1 \in 1 .. n /\ all[(i - 1) + 1] = x
          BY <1>2, <1>3, <3>1, <3>3
        <4> QED
          BY <2>5, <4>1
      <3> QED
        BY <3>2, <3>3
    <2> QED
      BY <1>d, <2>0, <2>2, <2>3, <2>4, <2>6, <2>7
  <1> QED
    BY <1>2, <1>6, <1>7

\* The facts on types that the steps need.
LEMMA SyncTyped ==
  ASSUME SyncInv
  PROVE  /\ rows \in [EscrowIds -> Statuses] /\ escrowLog \in Seqs /\ closed \in Nat
         /\ startLedger \in Nat /\ startLedger <= closed /\ processed \in Seq(Nat)
         /\ poll \in PollRow /\ poll.todo \in SUBSET Nat /\ poll.snapshot \in [EscrowIds -> Statuses]
         /\ confirms \in [Confirmers -> ConfirmRow] /\ syncFaults \in Nat
         /\ applied \in [EscrowIds -> Nat] /\ fetched \in Nat /\ fetched <= Len(escrowLog)
         /\ Len(escrowLog) \in Nat /\ EventPage \in Nat \ {0} /\ DedupMax \in Nat /\ EventPage <= DedupMax
         /\ \A e \in Logged : escrowLog[e] \in LogRow /\ escrowLog[e].ledger \in Nat /\ e \in Nat
                              /\ escrowLog[e].topic \in Topics /\ escrowLog[e].id \in EscrowIds \cup {ForeignId}
         /\ ForeignId \notin EscrowIds
  <1>1. SyncTypes
    BY DEF SyncInv
  <1>2. poll.todo \in SUBSET Nat /\ poll.snapshot \in [EscrowIds -> Statuses]
    BY <1>1 DEF SyncTypes, PollRow
  <1>3. /\ Len(escrowLog) \in Nat
        /\ \A e \in Logged : escrowLog[e] \in LogRow
    BY <1>1 DEF SyncTypes, Seqs, Logged
  <1>4. \A e \in Logged : escrowLog[e].ledger \in Nat /\ escrowLog[e].topic \in Topics
                        /\ escrowLog[e].id \in EscrowIds \cup {ForeignId}
    BY <1>3 DEF LogRow
  <1>5. \A e \in Logged : e \in Nat
    BY <1>3 DEF Logged
  <1>6. fetched \in Nat /\ fetched <= Len(escrowLog)
    BY <1>1, <1>3 DEF SyncTypes
  <1> QED
    BY <1>1, <1>2, <1>3, <1>4, <1>5, <1>6, SyncAssumption DEF SyncTypes, SyncAssumption

\* The oldest event still to do.
LEMMA CurrentIs ==
  ASSUME SyncInv, poll.todo # {}
  PROVE  Current \in poll.todo /\ Current \in 1 .. fetched /\ Current \in Logged
         /\ \A e \in poll.todo : Current <= e
  <1>1. PICK n \in poll.todo : \A m \in poll.todo : n <= m
    BY SyncTyped, Smallest
  <1>2. Current \in poll.todo /\ \A e \in poll.todo : Current <= e
    BY <1>1 DEF Current, Min
  <1>3. Current \in 1 .. fetched
    BY <1>2 DEF SyncInv, PageFits
  <1> QED
    BY <1>2, <1>3, SyncTyped DEF Logged

\* A page is a stretch of the log that begins with the oldest event from the cursor on
\* and ends no earlier than the page before.
LEMMA PageIs ==
  ASSUME SyncInv, NEW page, page = PageFrom(startLedger), page # {}
  PROVE  \E first \in Nat, last \in Nat :
             /\ page = first .. last /\ Max(page) = last /\ first <= last /\ last - first < EventPage
             /\ fetched <= last /\ last <= Len(escrowLog) /\ first \in Logged /\ last \in Logged
             /\ startLedger <= escrowLog[first].ledger /\ escrowLog[last].ledger <= closed
             /\ \A f \in Logged : startLedger <= escrowLog[f].ledger => first <= f
  <1>t. /\ Len(escrowLog) \in Nat /\ closed \in Nat /\ startLedger \in Nat /\ fetched \in Nat
        /\ fetched <= Len(escrowLog) /\ EventPage \in Nat \ {0}
        /\ \A e \in Logged : escrowLog[e].ledger \in Nat /\ e \in Nat
        /\ DOMAIN escrowLog = Logged
        /\ \A e, f \in Logged : e <= f => escrowLog[e].ledger <= escrowLog[f].ledger
        /\ \A f \in Logged : f <= fetched => escrowLog[f].ledger <= closed
        /\ \A f \in Logged : startLedger <= escrowLog[f].ledger /\ f <= fetched => fetched - f < EventPage
    BY SyncTyped DEF Logged, Seqs, SyncInv, LogFits, DedupFits
  <1>1. PICK E : E = EventsFrom(startLedger)
    OBVIOUS
  <1>2. \A e : e \in E <=> e \in Logged /\ startLedger <= escrowLog[e].ledger /\ escrowLog[e].ledger <= closed
    BY <1>t, <1>1 DEF EventsFrom
  <1>3. E \in SUBSET Nat /\ E # {}
    BY <1>t, <1>1, <1>2 DEF PageFrom
  <1>4. PICK first \in E : \A e \in E : first <= e
    BY <1>3, Smallest
  <1>5. first \in Nat /\ first \in Logged
    BY <1>2, <1>3, <1>4
  <1>6. ASSUME NEW f \in Logged, startLedger <= escrowLog[f].ledger PROVE first <= f
    <2>1. CASE escrowLog[f].ledger <= closed
      BY <1>2, <1>4, <1>6, <2>1
    <2>2. CASE ~(escrowLog[f].ledger <= closed)
      <3>1. ~(f <= first)
        BY <1>t, <1>2, <1>4, <1>5, <2>2
      <3> QED
        BY <1>t, <1>5, <3>1
    <2> QED
      BY <2>1, <2>2
  <1>7. ASSUME NEW e \in E, NEW f \in first .. e PROVE f \in E
    <2>1. f \in Logged /\ f <= e /\ first <= f /\ e \in Logged
      BY <1>t, <1>2, <1>5, <1>7 DEF Logged
    <2>2. escrowLog[first].ledger <= escrowLog[f].ledger /\ escrowLog[f].ledger <= escrowLog[e].ledger
      BY <1>t, <1>5, <2>1
    <2> QED
      BY <1>t, <1>2, <1>4, <1>5, <1>7, <2>1, <2>2, SMTT(30)
  <1>8. ASSUME NEW e \in E PROVE e \in page <=> e - first < EventPage
    <2>1. e \in Nat /\ first <= e
      BY <1>3, <1>4
    <2>2. {d \in E : d < e} = first .. (e - 1)
      <3>1. ASSUME NEW d \in first .. (e - 1) PROVE d \in E /\ d < e
        <4>1. d \in first .. e /\ d < e
          BY <1>5, <2>1
        <4> QED
          BY <1>7, <4>1
      <3>2. ASSUME NEW d \in E, d < e PROVE d \in first .. (e - 1)
        BY <1>3, <1>4, <1>5, <2>1, <3>2
      <3>3. \A d : d \in {x \in E : x < e} <=> d \in first .. (e - 1)
        BY <3>1, <3>2
      <3> QED
        BY <3>3
    <2>3. Cardinality(first .. (e - 1)) = e - first
      <3>1. PICK b \in Int : b = e - 1
        BY <2>1
      <3>2. Cardinality(first .. b) = IF first > b THEN 0 ELSE b - first + 1
        BY <1>5, FS_Interval
      <3>3. Cardinality(first .. b) = e - first
        <4>1. first > b => b + 1 = first
          BY <1>5, <2>1, <3>1
        <4> QED
          BY <1>5, <2>1, <3>1, <3>2, <4>1
      <3> QED
        BY <3>1, <3>3
    <2>4. e \in page <=> Cardinality({d \in E : d < e}) < EventPage
      BY <1>1 DEF PageFrom
    <2> QED
      BY <2>2, <2>3, <2>4
  <1>9. page \subseteq E /\ first \in page
    <2>1. page \subseteq E
      BY <1>1 DEF PageFrom
    <2>2. first - first < EventPage
      BY <1>t, <1>5
    <2> QED
      BY <1>4, <1>8, <2>1, <2>2
  <1>10. PICK last \in page : \A e \in page : e <= last
    <2>1. page \in SUBSET Nat /\ \A e \in page : e <= Len(escrowLog)
      BY <1>2, <1>3, <1>9, <1>t DEF Logged
    <2> QED
      BY <1>t, <2>1, Greatest
  <1>11. last \in Nat /\ last \in E /\ last \in Logged /\ first <= last /\ last <= Len(escrowLog) /\ last - first < EventPage
    BY <1>t, <1>2, <1>3, <1>4, <1>8, <1>9, <1>10 DEF Logged
  <1>12. page = first .. last
    <2>1. ASSUME NEW f \in first .. last PROVE f \in page
      BY <1>7, <1>11, <1>t, <1>5, <1>8
    <2>2. ASSUME NEW f \in page PROVE f \in first .. last
      BY <1>3, <1>4, <1>5, <1>9, <1>10, <1>11
    <2> QED
      BY <2>1, <2>2
  <1>13. Max(page) = last
    <2>1. Max(page) \in page /\ \A e \in page : e <= Max(page)
      BY <1>10 DEF Max
    <2>2. PICK m \in Nat : m = Max(page)
      BY <1>3, <1>9, <2>1
    <2>3. m <= last /\ last <= m
      BY <1>10, <2>1, <2>2
    <2> QED
      BY <1>11, <2>2, <2>3
  <1>14. fetched <= last
    <2> SUFFICES ASSUME ~(fetched <= last) PROVE FALSE
      OBVIOUS
    <2>1. fetched \in Logged /\ last <= fetched /\ first <= fetched /\ fetched # 0
      BY <1>t, <1>5, <1>11 DEF Logged
    <2>2. escrowLog[fetched].ledger <= closed /\ escrowLog[last].ledger <= escrowLog[fetched].ledger
      BY <1>t, <1>11, <2>1
    <2>3. fetched \in E
      BY <1>t, <1>2, <1>11, <2>1, <2>2
    <2>4. fetched - first < EventPage
      BY <1>t, <1>2, <1>4, <1>5, <2>1
    <2>5. fetched \in page
      BY <1>8, <2>3, <2>4
    <2> QED
      BY <1>10, <2>5
  <1> QED
    BY <1>2, <1>4, <1>5, <1>6, <1>11, <1>12, <1>13, <1>14

\* A step of the table, of the ledger or of confirmPayment: the poll, its memory and the
\* log stay, a row that changes was new or becomes unsure.
LEMMA TableSteps ==
  ASSUME SyncInv, UNCHANGED <<escrowLog, shortPaid, startLedger, processed, poll, applied, fetched, syncFaults>>,
         rows' \in [EscrowIds -> Statuses], closed' \in {closed, closed + 1}, unsure \subseteq unsure',
         \A p \in EscrowIds : rows'[p] # rows[p] => p \in unsure' \/ rows[p] = "none",
         \A p \in EscrowIds : rows[p] # "none" => rows'[p] # "none",
         confirms' \in [Confirmers -> ConfirmRow],
         \A c \in Confirmers : confirms'[c].pc \in {"confirmed", "expired"} => confirms'[c].id \in EscrowIds
  PROVE  SyncInv'
  <1>t. /\ closed \in Nat /\ startLedger \in Nat /\ startLedger <= closed
        /\ \A e \in Logged : escrowLog[e].ledger \in Nat /\ e \in Nat
        /\ fetched \in Nat /\ fetched <= Len(escrowLog) /\ Len(escrowLog) \in Nat
    BY SyncTyped
  <1>1. SyncTypes'
    BY <1>t DEF SyncInv, SyncTypes
  <1>2. Logged' = Logged /\ Done' = Done
    BY DEF Logged, Done
  <1>3. LogFits'
    BY <1>t, <1>2 DEF SyncInv, LogFits
  <1>4. DedupFits' /\ PageFits' /\ AppliedFits'
    BY <1>2 DEF SyncInv, DedupFits, PageFits, AppliedFits
  <1>5. LostFits'
    BY <1>2 DEF SyncInv, LostFits
  <1>6. \A p : Saving(p)' = Saving(p) /\ Seen(p)' = Seen(p)
    BY <1>2 DEF Saving, Current, Seen
  <1>7. SaveFits'
    BY <1>2, <1>6 DEF SyncInv, SaveFits, Current
  <1>8. ASSUME NEW e \in Logged, NEW p \in EscrowIds, escrowLog[e].id = p PROVE rows[p] # "none"
    BY <1>8 DEF SyncInv, LogFits
  <1>9. RowsFit'
    <2> SUFFICES ASSUME NEW p \in EscrowIds \ (unsure' \cup shortPaid)
                 PROVE  Shows(IF Saving(p) THEN poll.snapshot[p] ELSE rows[p], p)'
      BY DEF RowsFit
    <2>1. PICK x : x = IF Saving(p) THEN poll.snapshot[p] ELSE rows[p]
      OBVIOUS
    <2>2. PICK y : y = (IF Saving(p) THEN poll.snapshot[p] ELSE rows[p])'
      OBVIOUS
    <2>3. Shows(x, p)
      BY <2>1 DEF SyncInv, RowsFit
    <2>4. CASE y = x
      BY <1>6, <2>2, <2>3, <2>4 DEF Shows
    <2>5. CASE y # x
      BY <1>6, <2>1, <2>2, <2>5, <1>t, <1>8 DEF Seen, Logged, Shows
    <2> QED
      BY <2>4, <2>5
  <1>10. SnapshotFits'
    <2> SUFFICES ASSUME poll.pc \in {"events", "save"}, NEW e \in poll.todo, NEW p \in EscrowIds, escrowLog[e].id = p
                 PROVE  /\ poll.snapshot[p] # "none"
                        /\ p \notin unsure' \cup shortPaid /\ ~Saving(p) => poll.snapshot[p] = rows'[p]
      BY <1>6 DEF SnapshotFits
    <2>1. e \in Logged
      BY <1>t DEF SyncInv, PageFits, Logged
    <2> QED
      BY <1>8, <2>1 DEF SyncInv, SnapshotFits
  <1> QED
    BY <1>1, <1>3, <1>4, <1>5, <1>7, <1>9, <1>10 DEF SyncInv

\* The contract emits an event in the ledger that is closing: nothing was read of it.
LEMMA EmitSteps ==
  ASSUME SyncInv, NEW p \in EscrowIds \cup {ForeignId}, NEW topic \in Topics, EmitEscrowEvent(p, topic)
  PROVE  SyncInv'
  <1>t. /\ closed \in Nat /\ startLedger \in Nat /\ startLedger <= closed /\ escrowLog \in Seqs
        /\ \A e \in Logged : escrowLog[e].ledger \in Nat /\ e \in Nat
        /\ fetched \in Nat /\ fetched <= Len(escrowLog) /\ Len(escrowLog) \in Nat /\ EventPage \in Nat \ {0}
    BY SyncTyped
  <1>0. PICK new : new = [id |-> p, topic |-> topic, ledger |-> closed + 1]
    OBVIOUS
  <1>1. new \in LogRow /\ new = [id |-> p, topic |-> topic, ledger |-> closed + 1]
    BY <1>t, <1>0 DEF LogRow
  <1>2. /\ escrowLog' = Append(escrowLog, new) /\ (p \in EscrowIds => rows[p] # "none")
        /\ UNCHANGED <<rows, closed, shortPaid, startLedger, processed, poll, confirms, syncFaults,
                       applied, fetched, unsure>>
    BY <1>1 DEF EmitEscrowEvent
  <1>3. PICK n \in Nat : n = Len(escrowLog)
    BY <1>t
  <1>4. /\ escrowLog' \in Seqs /\ Len(escrowLog') = n + 1 /\ escrowLog'[n + 1] = new
        /\ \A e \in 1 .. n : escrowLog'[e] = escrowLog[e]
    <2>1. escrowLog \in Seq(LogRow) /\ new \in LogRow
      BY <1>t, <1>1 DEF Seqs
    <2> QED
      BY <1>2, <1>3, <2>1, AppendProperties DEF Seqs
  <1>5. Done' = Done /\ Logged = 1 .. n /\ Logged' = 1 .. (n + 1) /\ \A e \in 1 .. fetched : e \in Logged
    BY <1>t, <1>2, <1>3, <1>4 DEF Done, Logged
  <1>6. \A e \in Logged' : \/ e \in Logged /\ escrowLog'[e] = escrowLog[e]
                           \/ e = n + 1 /\ escrowLog'[e] = new
    BY <1>3, <1>4, <1>5
  <1>7. new.ledger = closed + 1 /\ new.id = p
    BY <1>1
  <1>8. SyncTypes'
    BY <1>t, <1>2, <1>3, <1>4 DEF SyncInv, SyncTypes
  <1>9. LogFits'
    <2>1. ASSUME NEW e \in Logged', NEW f \in Logged', e <= f PROVE escrowLog'[e].ledger <= escrowLog'[f].ledger
      <3>1. CASE f \in Logged
        <4>1. e \in Logged
          BY <1>3, <1>5, <2>1, <3>1
        <4> QED
          BY <1>4, <1>5, <2>1, <3>1, <4>1 DEF SyncInv, LogFits
      <3>2. CASE f \notin Logged
        BY <1>6, <1>7, <3>2, <1>t DEF SyncInv, LogFits
      <3> QED
        BY <3>1, <3>2
    <2>2. ASSUME NEW e \in Logged'
          PROVE  /\ escrowLog'[e].ledger <= closed' + 1
                 /\ e <= fetched' => escrowLog'[e].ledger <= closed'
                 /\ escrowLog'[e].id \in EscrowIds => rows'[escrowLog'[e].id] # "none"
      <3>1. CASE e \in Logged
        BY <1>2, <1>4, <1>5, <3>1 DEF SyncInv, LogFits
      <3>2. CASE e \notin Logged
        BY <1>6, <3>2, <1>t, <1>3, <1>2, <1>7
      <3> QED
        BY <3>1, <3>2
    <2> QED
      BY <2>1, <2>2 DEF LogFits
  <1>10. DedupFits'
    <2>1. \A x \in Done : x \in 1 .. fetched
      BY DEF SyncInv, DedupFits
    <2>2. ASSUME NEW f \in Logged', startLedger <= escrowLog'[f].ledger, f \notin Done, NEW x \in Done PROVE x < f
      <3>1. CASE f \in Logged
        BY <1>4, <1>5, <2>2, <3>1 DEF SyncInv, DedupFits
      <3>2. CASE f \notin Logged
        BY <1>t, <1>3, <1>6, <2>1, <3>2
      <3> QED
        BY <3>1, <3>2
    <2>3. ASSUME NEW f \in Logged', startLedger <= escrowLog'[f].ledger, f <= fetched PROVE fetched - f < EventPage
      <3>1. f \in Logged
        BY <1>t, <1>3, <1>6, <2>3
      <3> QED
        BY <1>4, <1>5, <2>3, <3>1 DEF SyncInv, DedupFits
    <2> QED
      BY <1>2, <1>5, <2>1, <2>2, <2>3 DEF SyncInv, DedupFits
  <1>11. PageFits'
    <2>1. ASSUME poll.todo # {}, NEW f \in Logged', startLedger <= escrowLog'[f].ledger, \A e \in poll.todo : f < e
          PROVE  f \in Done
      <3>1. PICK e \in poll.todo : e \in 1 .. fetched
        BY <2>1 DEF SyncInv, PageFits
      <3>2. f \in Logged
        BY <1>t, <1>3, <1>6, <2>1, <3>1
      <3> QED
        BY <1>4, <1>5, <2>1, <3>2 DEF SyncInv, PageFits
    <2> QED
      BY <1>2, <1>5, <2>1 DEF SyncInv, PageFits
  <1>12. LostFits'
    <2>1. ASSUME NEW e \in Logged', fetched < e, escrowLog'[e].ledger < startLedger PROVE escrowLog'[e].id \in unsure
      <3>1. e \in Logged
        BY <1>t, <1>6, <1>7, <2>1
      <3> QED
        BY <1>4, <1>5, <2>1, <3>1 DEF SyncInv, LostFits
    <2>2. ASSUME NEW e \in Logged', e <= fetched, e \notin Done, e \notin poll.todo, startLedger <= escrowLog'[e].ledger
          PROVE  escrowLog'[e].id \in unsure \cup {ForeignId}
      <3>1. e \in Logged
        BY <1>t, <1>3, <1>6, <2>2
      <3> QED
        BY <1>4, <1>5, <2>2, <3>1 DEF SyncInv, LostFits
    <2> QED
      BY <1>2, <1>5, <2>1, <2>2 DEF LostFits
  <1>13. \A q : Seen(q)' = Seen(q)
    BY <1>2, <1>4, <1>5 DEF Seen
  <1>14. Current' = Current /\ (poll.pc = "save" => escrowLog'[Current] = escrowLog[Current])
    BY <1>2, CurrentIs, <1>4, <1>5 DEF Current, SyncInv, PageFits
  <1>15. \A q : Saving(q)' = Saving(q)
    BY <1>2, <1>14 DEF Saving
  <1>16. RowsFit'
    <2> SUFFICES ASSUME NEW q \in EscrowIds \ (unsure \cup shortPaid)
                 PROVE  Shows(IF Saving(q) THEN poll.snapshot[q] ELSE rows[q], q)'
      BY <1>2 DEF RowsFit
    <2>1. PICK x : x = IF Saving(q) THEN poll.snapshot[q] ELSE rows[q]
      OBVIOUS
    <2>2. x = (IF Saving(q) THEN poll.snapshot[q] ELSE rows[q])'
      BY <1>2, <1>15, <2>1
    <2>3. Shows(x, q)
      BY <2>1 DEF SyncInv, RowsFit
    <2>4. \A e \in Seen(q) : escrowLog'[e] = escrowLog[e]
      BY <1>4, <1>5 DEF Seen
    <2> QED
      BY <1>13, <2>2, <2>3, <2>4 DEF Shows
  <1>17. SnapshotFits' /\ SaveFits' /\ AppliedFits'
    <2>1. \A e \in poll.todo : escrowLog'[e] = escrowLog[e]
      BY <1>4, <1>5 DEF SyncInv, PageFits
    <2>2. SnapshotFits'
      <3> SUFFICES ASSUME poll.pc \in {"events", "save"}, NEW e \in poll.todo, NEW q \in EscrowIds, escrowLog'[e].id = q
                   PROVE  /\ poll.snapshot[q] # "none"
                          /\ q \notin unsure \cup shortPaid /\ ~Saving(q) => poll.snapshot[q] = rows[q]
        BY <1>2, <1>15 DEF SnapshotFits
      <3> QED
        BY <2>1 DEF SyncInv, SnapshotFits
    <2>3. SaveFits'
      BY <1>2, <1>5, <1>14, <1>15 DEF SyncInv, SaveFits
    <2> QED
      BY <1>2, <1>5, <2>2, <2>3 DEF SyncInv, AppliedFits
  <1> QED
    BY <1>8, <1>9, <1>10, <1>11, <1>12, <1>16, <1>17 DEF SyncInv

\* A page is fetched: the cursor moves to the latest closed ledger, what the limit of a
\* page cuts off becomes unsure.
LEMMA FetchSteps == SyncInv /\ PollFetch => SyncInv'
  <1> SUFFICES ASSUME SyncInv, PollFetch PROVE SyncInv'
    OBVIOUS
  <1>t. /\ closed \in Nat /\ startLedger \in Nat /\ startLedger <= closed /\ poll \in PollRow
        /\ \A e \in Logged : escrowLog[e].ledger \in Nat /\ e \in Nat
        /\ DOMAIN escrowLog = Logged
        /\ fetched \in Nat /\ fetched <= Len(escrowLog) /\ Len(escrowLog) \in Nat /\ EventPage \in Nat \ {0}
        /\ ForeignId \notin EscrowIds
    BY SyncTyped DEF Logged, Seqs
  <1>i. /\ \A e, f \in Logged : e <= f => escrowLog[e].ledger <= escrowLog[f].ledger
        /\ \A e \in Logged : e <= fetched => escrowLog[e].ledger <= closed
    BY DEF SyncInv, LogFits
  <1>1. PICK page : page = PageFrom(startLedger)
    OBVIOUS
  <1>2. /\ poll.pc = "idle" /\ page # {} /\ startLedger' = closed /\ fetched' = Max(page)
        /\ unsure' = unsure \cup PaymentsOf(EventsFrom(startLedger) \ page)
        /\ poll' = [poll EXCEPT !.pc = "find", !.todo = page]
        /\ UNCHANGED <<rows, escrowLog, closed, shortPaid, processed, confirms, syncFaults, applied>>
    BY <1>1 DEF PollFetch, chainVars
  <1>3. PICK first \in Nat, last \in Nat :
             /\ page = first .. last /\ Max(page) = last /\ first <= last /\ last - first < EventPage
             /\ fetched <= last /\ last <= Len(escrowLog) /\ first \in Logged /\ last \in Logged
             /\ startLedger <= escrowLog[first].ledger /\ escrowLog[last].ledger <= closed
             /\ \A f \in Logged : startLedger <= escrowLog[f].ledger => first <= f
    BY <1>1, <1>2, PageIs
  <1>4. /\ poll' \in PollRow /\ poll'.pc = "find" /\ poll'.todo = page
        /\ poll'.snapshot = poll.snapshot
    <2>1. poll' = [pc |-> "find", todo |-> page, snapshot |-> poll.snapshot]
      BY <1>t, <1>2 DEF PollRow
    <2> QED
      BY <1>t, <1>3, <2>1 DEF PollRow
  <1>5. fetched' = last /\ Done' = Done /\ Logged' = Logged /\ poll.todo = {}
    BY <1>2, <1>3 DEF Done, Logged, SyncInv, PageFits
  <1>6. SyncTypes'
    BY <1>t, <1>2, <1>3, <1>4, SMTT(30) DEF SyncInv, SyncTypes
  <1>7. \A e \in page : e \in Logged /\ e \in 1 .. last /\ startLedger <= escrowLog[e].ledger /\ escrowLog[e].ledger <= closed
    <2> SUFFICES ASSUME NEW e \in first .. last
                 PROVE  e \in Logged /\ e \in 1 .. last /\ startLedger <= escrowLog[e].ledger /\ escrowLog[e].ledger <= closed
      BY <1>3
    <2>1. e \in Logged /\ e \in 1 .. last
      BY <1>t, <1>3 DEF Logged
    <2>2. escrowLog[first].ledger <= escrowLog[e].ledger /\ escrowLog[e].ledger <= escrowLog[last].ledger
      BY <1>i, <1>3, <2>1
    <2>3. escrowLog[first].ledger \in Nat /\ escrowLog[e].ledger \in Nat /\ escrowLog[last].ledger \in Nat
      BY <1>t, <1>3, <2>1
    <2>4. startLedger <= escrowLog[e].ledger /\ escrowLog[e].ledger <= closed
      BY <1>3, <1>t, <2>2, <2>3
    <2> QED
      BY <2>1, <2>4
  <1>8. LogFits'
    <2>1. \A e \in Logged : e <= last => escrowLog[e].ledger <= closed
      BY <1>t, <1>i, <1>3, SMTT(30)
    <2> QED
      BY <1>2, <1>5, <2>1 DEF SyncInv, LogFits
  <1>9. DedupFits'
    <2>1. \A x \in Done : x \in 1 .. last
      BY <1>t, <1>3 DEF SyncInv, DedupFits
    <2>2. \A f \in Logged : closed <= escrowLog[f].ledger => startLedger <= escrowLog[f].ledger
      BY <1>t
    <2>3. ASSUME NEW f \in Logged, closed <= escrowLog[f].ledger, f <= last PROVE last - f < EventPage
      <3>1. first <= f /\ f \in Nat
        BY <1>3, <1>t, <2>2, <2>3
      <3> QED
        BY <1>t, <1>3, <3>1
    <2> QED
      BY <1>2, <1>5, <2>1, <2>2, <2>3 DEF SyncInv, DedupFits
  <1>10. PageFits'
    <2>1. \A e \in page : e \in 1 .. last /\ \A f \in e .. last : f \in page
      BY <1>3, <1>7
    <2>2. \A e \in page : e \notin Done => \A x \in Done : x < e
      BY <1>7 DEF SyncInv, DedupFits
    <2>3. ASSUME NEW f \in Logged, closed <= escrowLog[f].ledger, \A e \in page : f < e PROVE f \in Done
      <3>1. first <= f /\ first \in page
        BY <1>3, <1>t, <2>3
      <3> QED
        BY <1>t, <2>3, <3>1
    <2> QED
      BY <1>2, <1>4, <1>5, <2>1, <2>2, <2>3 DEF PageFits
  <1>11. \A e \in Logged : e \notin page /\ startLedger <= escrowLog[e].ledger /\ escrowLog[e].ledger <= closed
             => escrowLog[e].id \in unsure'
    BY <1>t, <1>2 DEF EventsFrom, PaymentsOf
  <1>12. LostFits'
    <2>1. ASSUME NEW e \in Logged, last < e, escrowLog[e].ledger < closed PROVE escrowLog[e].id \in unsure'
      <3>1. e \notin page
        BY <1>3, <1>t, <2>1
      <3>2. startLedger <= escrowLog[e].ledger
        BY <1>i, <1>3, <1>t, <2>1, <1>7
      <3> QED
        BY <1>11, <1>t, <2>1, <3>1, <3>2
    <2>2. ASSUME NEW e \in Logged, e <= last, e \notin page, closed <= escrowLog[e].ledger PROVE FALSE
      <3>1. first <= e
        BY <1>3, <1>t, <2>2
      <3> QED
        BY <1>3, <1>t, <2>2, <3>1
    <2> QED
      BY <1>2, <1>4, <1>5, <2>1, <2>2 DEF LostFits
  <1>13. ASSUME NEW p \in EscrowIds \ unsure' PROVE Seen(p)' = Seen(p)
    <2>1. p \notin unsure /\ p # ForeignId
      BY <1>2, <1>t
    <2>2. ASSUME NEW e \in Seen(p) PROVE e \in Seen(p)'
      BY <1>t, <1>i, <1>3, <1>5, <1>7, <2>1, <1>2, <1>4 DEF Seen, Logged, SyncInv, LostFits
    <2>3. ASSUME NEW e \in Seen(p)' PROVE e \in Seen(p)
      <3>1. e \in 1 .. last /\ e \in Logged /\ escrowLog[e].id = p /\ (e \in page => e \in Done)
        BY <1>t, <1>2, <1>3, <1>4, <1>5 DEF Seen, Logged
      <3>2. CASE e \in page
        <4>1. e \in 1 .. fetched
          BY <3>1, <3>2 DEF SyncInv, DedupFits
        <4> QED
          BY <1>5, <3>1, <4>1 DEF Seen
      <3>3. CASE e \notin page
        <4>1. escrowLog[e].ledger < startLedger
          <5>1. ~(first <= e)
            BY <1>3, <1>t, <3>1, <3>3
          <5>2. ~(startLedger <= escrowLog[e].ledger)
            BY <1>3, <3>1, <5>1
          <5> QED
            BY <1>t, <3>1, <5>2
        <4>2. e \in 1 .. fetched
          BY <1>t, <2>1, <3>1, <4>1 DEF SyncInv, LostFits
        <4> QED
          BY <1>5, <3>1, <4>2 DEF Seen
      <3> QED
        BY <3>2, <3>3
    <2> QED
      BY <2>2, <2>3
  <1>14. RowsFit'
    <2> SUFFICES ASSUME NEW p \in EscrowIds \ (unsure' \cup shortPaid)
                 PROVE  Shows(IF Saving(p) THEN poll.snapshot[p] ELSE rows[p], p)'
      BY <1>2 DEF RowsFit
    <2>1. ~Saving(p)' /\ ~Saving(p)
      BY <1>2, <1>4 DEF Saving
    <2>2. p \in EscrowIds \ (unsure \cup shortPaid)
      BY <1>2
    <2>3. Shows(rows[p], p)
      BY <2>1, <2>2 DEF SyncInv, RowsFit
    <2>4. Seen(p)' = Seen(p)
      BY <1>13
    <2> QED
      BY <1>2, <2>1, <2>3, <2>4 DEF Shows
  <1>15. SnapshotFits' /\ SaveFits' /\ AppliedFits'
    BY <1>2, <1>4, <1>5 DEF SyncInv, SnapshotFits, SaveFits, AppliedFits
  <1> QED
    BY <1>6, <1>8, <1>9, <1>10, <1>12, <1>14, <1>15 DEF SyncInv

\* The rest of a page is given up: it was empty, or of unknown payments, or it becomes unsure.
LEMMA EndSteps ==
  ASSUME SyncInv, poll.pc # "idle",
         UNCHANGED <<rows, escrowLog, closed, shortPaid, startLedger, processed, confirms, applied, fetched>>,
         syncFaults' \in Nat, poll' = Unpolled, unsure \subseteq unsure',
         \A e \in poll.todo : escrowLog[e].id \in unsure' \cup {ForeignId}
  PROVE  SyncInv'
  <1>t. /\ fetched \in Nat /\ fetched <= Len(escrowLog) /\ Len(escrowLog) \in Nat /\ ForeignId \notin EscrowIds
    BY SyncTyped
  <1>1. Unpolled \in PollRow /\ Unpolled.pc = "idle" /\ Unpolled.todo = {}
    BY DEF Unpolled, PollRow, Statuses
  <1>2. SyncTypes'
    BY <1>1 DEF SyncInv, SyncTypes
  <1>3. Logged' = Logged /\ Done' = Done
    BY DEF Logged, Done
  <1>4. LogFits' /\ DedupFits' /\ PageFits' /\ SnapshotFits' /\ SaveFits' /\ AppliedFits'
    BY <1>1, <1>3 DEF SyncInv, LogFits, DedupFits, PageFits, SnapshotFits, SaveFits, AppliedFits
  <1>5. LostFits'
    BY <1>1, <1>3 DEF SyncInv, LostFits
  <1>6. RowsFit'
    <2> SUFFICES ASSUME NEW p \in EscrowIds \ (unsure' \cup shortPaid)
                 PROVE  Shows(rows[p], p)'
      BY <1>1 DEF RowsFit, Saving
    <2>1. \A e \in poll.todo : escrowLog[e].id # p
      BY <1>t
    <2>2. ~Saving(p)
      BY <2>1, CurrentIs DEF Saving, SyncInv, PageFits
    <2>3. Shows(rows[p], p)
      BY <2>2 DEF SyncInv, RowsFit
    <2>4. Seen(p)' = Seen(p)
      BY <1>1, <2>1 DEF Seen
    <2> QED
      BY <2>3, <2>4 DEF Shows
  <1> QED
    BY <1>2, <1>4, <1>5, <1>6 DEF SyncInv

\* The snapshot is taken, unless no row is there yet.
LEMMA FindSteps == SyncInv /\ PollFind => SyncInv'
  <1> SUFFICES ASSUME SyncInv, PollFind PROVE SyncInv'
    OBVIOUS
  <1>1. poll.pc = "find" /\ poll \in PollRow /\ rows \in [EscrowIds -> Statuses]
        /\ UNCHANGED <<rows, escrowLog, closed, shortPaid, startLedger, processed, confirms, syncFaults,
                       applied, fetched, unsure>>
    BY SyncTyped DEF PollFind, chainVars
  <1>2. \A e \in poll.todo : e \in Logged /\ (escrowLog[e].id \in EscrowIds => rows[escrowLog[e].id] # "none")
                             /\ escrowLog[e].id \in EscrowIds \cup {ForeignId}
    BY SyncTyped, SMTT(30) DEF SyncInv, PageFits, LogFits, Logged
  <1>3. CASE \A p \in EscrowIds : rows[p] = "none"
    BY <1>3, <1>2, <1>1, EndSteps, SyncTyped DEF PollFind
  <1>4. CASE ~ \A p \in EscrowIds : rows[p] = "none"
    <2>1. poll' = [poll EXCEPT !.pc = "events", !.snapshot = rows]
      BY <1>4 DEF PollFind
    <2>2. poll' = [pc |-> "events", todo |-> poll.todo, snapshot |-> rows]
      BY <1>1, <2>1 DEF PollRow
    <2>3. poll' \in PollRow /\ poll'.pc = "events" /\ poll'.todo = poll.todo /\ poll'.snapshot = rows
      BY <1>1, <2>2 DEF PollRow
    <2>4. Logged' = Logged /\ Done' = Done
      BY <1>1 DEF Logged, Done
    <2>5. SyncTypes' /\ LogFits' /\ DedupFits' /\ AppliedFits'
      BY <1>1, <2>3, <2>4 DEF SyncInv, SyncTypes, LogFits, DedupFits, AppliedFits
    <2>6. PageFits' /\ LostFits' /\ SaveFits'
      BY <1>1, <2>3, <2>4 DEF SyncInv, PageFits, LostFits, SaveFits
    <2>7. \A p : ~Saving(p) /\ ~Saving(p)' /\ Seen(p)' = Seen(p)
      BY <1>1, <2>3, <2>4 DEF Saving, Seen
    <2>8. RowsFit'
      <3> SUFFICES ASSUME NEW p \in EscrowIds \ (unsure \cup shortPaid) PROVE Shows(rows[p], p)'
        BY <1>1, <2>7 DEF RowsFit
      <3>1. Shows(rows[p], p)
        BY <2>7 DEF SyncInv, RowsFit
      <3> QED
        BY <1>1, <2>7, <3>1 DEF Shows
    <2>9. SnapshotFits'
      <3> SUFFICES ASSUME NEW e \in poll.todo, NEW p \in EscrowIds, escrowLog[e].id = p
                   PROVE  rows[p] # "none"
        BY <1>1, <2>3 DEF SnapshotFits
      <3> QED
        BY <1>2
    <2> QED
      BY <2>5, <2>6, <2>8, <2>9 DEF SyncInv
  <1> QED
    BY <1>3, <1>4

\* A restart forgets what was read: nothing is claimed until it is read again.
LEMMA RestartSteps == SyncInv /\ SyncRestart => SyncInv'
  <1> SUFFICES ASSUME SyncInv, SyncRestart PROVE SyncInv'
    OBVIOUS
  <1>1. /\ startLedger' = 0 /\ processed' = << >> /\ poll' = Unpolled /\ syncFaults' = syncFaults + 1
        /\ applied' = [p \in EscrowIds |-> 0] /\ fetched' = 0
        /\ confirms' = [c \in Confirmers |-> NoConfirm]
        /\ UNCHANGED <<rows, escrowLog, closed, shortPaid, unsure>>
    BY DEF SyncRestart, SyncThrows, chainVars
  <1>2. Unpolled \in PollRow /\ Unpolled.pc = "idle" /\ Unpolled.todo = {}
    BY DEF Unpolled, PollRow, Statuses
  <1>3. NoConfirm \in ConfirmRow /\ NoConfirm.pc = "idle"
    BY DEF NoConfirm, ConfirmRow
  <1>4. processed' \in Seq(Nat) /\ Len(processed') = 0 /\ Done' = {} /\ Logged' = Logged
    BY <1>1 DEF Done, Range, Logged
  <1>5. SyncTypes'
    BY <1>1, <1>2, <1>3, <1>4, SyncTyped DEF SyncInv, SyncTypes
  <1>6. LogFits' /\ DedupFits' /\ PageFits' /\ LostFits'
    <2>1. \A e \in Logged : ~(e <= 0) /\ escrowLog[e].ledger \in Nat
      BY SyncTyped DEF Logged
    <2>2. LogFits'
      BY <1>1, <1>4, <2>1 DEF SyncInv, LogFits
    <2>3. DedupFits'
      BY <1>1, <1>4, <2>1, SyncTyped DEF DedupFits, Increasing
    <2>4. PageFits' /\ LostFits'
      BY <1>1, <1>2, <1>4, <2>1 DEF PageFits, LostFits
    <2> QED
      BY <2>2, <2>3, <2>4
  <1>7. RowsFit' /\ SnapshotFits' /\ SaveFits' /\ AppliedFits'
    BY <1>1, <1>2 DEF RowsFit, Shows, Seen, SnapshotFits, SaveFits, AppliedFits
  <1> QED
    BY <1>5, <1>6, <1>7 DEF SyncInv

\* The oldest event of the page is dealt with: it is remembered, and it is the only one
\* that changes what the polls are done with.
LEMMA TakeSets ==
  ASSUME SyncInv, poll.todo # {}, NEW h, h = Current,
         UNCHANGED <<escrowLog, closed, startLedger, fetched, unsure>>,
         poll' \in PollRow, poll'.pc \in {"events", "save"},
         poll'.todo = poll.todo \/ (poll'.pc = "events" /\ poll'.todo = poll.todo \ {h}),
         NEW q, q = processed', q = IF h \in Done THEN processed ELSE Remember(h)
  PROVE  /\ DedupFits' /\ PageFits' /\ LostFits' /\ q \in Seq(Nat) /\ h \in Done'
         /\ \A x \in Done' : x \in Done \/ x = h
         /\ h \notin Done => \A x \in Done : x < h
         /\ \A p : Seen(p)' = {e \in Seen(p) \cup {h} : escrowLog[e].id = p}
  <1>t. /\ fetched \in Nat /\ fetched <= Len(escrowLog) /\ Len(escrowLog) \in Nat
        /\ EventPage \in Nat \ {0} /\ DedupMax \in Nat /\ EventPage <= DedupMax
        /\ processed \in Seq(Nat) /\ poll.todo \in SUBSET Nat
        /\ \A e \in Logged : e \in Nat
    BY SyncTyped
  <1>h. h \in poll.todo /\ h \in 1 .. fetched /\ h \in Logged /\ h \in Nat /\ \A e \in poll.todo : h <= e
    BY <1>t, CurrentIs
  <1>1. /\ Increasing(processed) /\ Len(processed) <= DedupMax
        /\ \A x \in Done : x \in 1 .. fetched
        /\ \A f \in Logged : startLedger <= escrowLog[f].ledger /\ f \notin Done => \A x \in Done : x < f
        /\ \A f \in Logged : startLedger <= escrowLog[f].ledger /\ f <= fetched => fetched - f < EventPage
    BY DEF SyncInv, DedupFits
  <1>2. /\ \A e \in poll.todo : e \in 1 .. fetched /\ \A f \in e .. fetched : f \in poll.todo
        /\ \A e \in poll.todo : e \notin Done => \A x \in Done : x < e
        /\ \A f \in Logged : startLedger <= escrowLog[f].ledger /\ (\A e \in poll.todo : f < e) => f \in Done
    BY DEF SyncInv, PageFits
  <1>3. PICK D : D = Range(q)
    OBVIOUS
  <1>4. Done' = D /\ Logged' = Logged
    BY <1>3 DEF Done, Logged
  <1>5. /\ q \in Seq(Nat) /\ Increasing(q) /\ Len(q) <= DedupMax /\ h \in D
        /\ \A x \in D : x \in Done \/ x = h
        /\ \A x \in Done : x \in D \/ x + DedupMax <= h
    <2>1. CASE h \in Done
      BY <2>1, <1>3, <1>t, <1>1 DEF Done
    <2>2. CASE h \notin Done
      BY <1>2, <1>h, <2>2, <1>t, <1>1, <1>3, Remembers
    <2> QED
      BY <2>1, <2>2
  <1>6. \A f \in Logged : startLedger <= escrowLog[f].ledger /\ f \in Done => f \in D
    <2> SUFFICES ASSUME NEW f \in Logged, startLedger <= escrowLog[f].ledger, f \in Done, f \notin D
                 PROVE  FALSE
      OBVIOUS
    <2>1. f + DedupMax <= h /\ f \in Nat /\ f <= fetched
      BY <1>t, <1>1, <1>5
    <2>2. fetched - f < EventPage
      BY <1>1, <2>1
    <2>3. h <= fetched
      BY <1>h
    <2> QED
      BY <1>t, <1>h, <2>1, <2>2, <2>3
  <1>7. \A e \in poll.todo : e \in Done => e \in D
    <2> SUFFICES ASSUME NEW e \in poll.todo, e \in Done, e \notin D PROVE FALSE
      OBVIOUS
    <2>1. e + DedupMax <= h /\ h <= e /\ e \in Nat
      BY <1>t, <1>h, <1>5
    <2> QED
      BY <1>t, <1>h, <2>1
  <1>8. DedupFits'
    <2>1. \A x \in D : x \in 1 .. fetched
      BY <1>h, <1>1, <1>5
    <2>2. ASSUME NEW f \in Logged, startLedger <= escrowLog[f].ledger, f \notin D, NEW x \in D PROVE x < f
      <3>1. f \notin Done /\ f # h
        BY <1>5, <1>6, <2>2
      <3>2. CASE x \in Done
        BY <1>1, <2>2, <3>1, <3>2
      <3>3. CASE x = h
        <4>1. ~(f < h)
          <5> SUFFICES ASSUME f < h PROVE FALSE
            OBVIOUS
          <5>1. \A e \in poll.todo : f < e
            BY <1>t, <1>h
          <5> QED
            BY <1>2, <2>2, <3>1, <5>1
        <4> QED
          BY <1>t, <1>h, <3>1, <3>3, <4>1
      <3> QED
        BY <1>5, <3>2, <3>3
    <2> QED
      BY <1>1, <1>4, <1>5, <2>1, <2>2 DEF DedupFits
  <1>9. /\ poll'.todo \subseteq poll.todo /\ \A e \in poll.todo : e # h => e \in poll'.todo
        /\ h \in poll'.todo => poll'.todo = poll.todo
        /\ poll'.pc = "save" => poll'.todo # {}
    BY <1>h
  <1>10. PageFits'
    <2>1. ASSUME NEW e \in poll'.todo, NEW f \in e .. fetched PROVE f \in poll'.todo
      <3>1. e \in poll.todo /\ f \in poll.todo
        BY <1>2, <1>9
      <3>2. CASE f = h
        <4>1. e = h
          BY <1>t, <1>h, <3>1, <3>2
        <4> QED
          BY <3>2, <4>1
      <3>3. CASE f # h
        BY <1>9, <3>1, <3>3
      <3> QED
        BY <3>2, <3>3
    <2>2. ASSUME NEW e \in poll'.todo, e \notin D, NEW x \in D PROVE x < e
      BY <1>5, <1>7, <1>9, <2>2, <1>t, <1>h, <1>2
    <2>3. ASSUME poll'.todo # {}, NEW f \in Logged, startLedger <= escrowLog[f].ledger, \A e \in poll'.todo : f < e
          PROVE  f \in D
      <3>1. CASE f < h
        <4>1. \A e \in poll.todo : f < e
          BY <1>t, <1>h, <3>1
        <4> QED
          BY <1>2, <1>6, <2>3, <4>1
      <3>2. CASE f = h
        BY <1>5, <3>2
      <3>3. CASE h < f
        <4>1. PICK e \in poll'.todo : TRUE
          BY <2>3
        <4>2. f < e /\ e \in 1 .. fetched
          BY <1>2, <1>9, <2>3, <4>1
        <4>3. f \in h .. fetched
          BY <1>t, <1>h, <3>3, <4>2
        <4>4. f \in poll.todo /\ f # h
          BY <1>h, <1>2, <1>t, <3>3, <4>3
        <4>5. f \in poll'.todo
          BY <1>9, <4>4
        <4>6. f < f
          BY <2>3, <4>5
        <4> QED
          BY <1>t, <4>6
      <3>4. f \in Int /\ h \in Int
        BY <1>t, <1>h
      <3>5. f < h \/ f = h \/ h < f
        BY ONLY <3>4
      <3> QED
        BY <3>1, <3>2, <3>3, <3>5
    <2>4. \A e \in poll'.todo : e \in 1 .. fetched
      BY <1>2, <1>9
    <2> QED
      BY <1>4, <1>9, <2>1, <2>2, <2>3, <2>4 DEF PageFits
  <1>11. LostFits'
    <2>1. ASSUME NEW e \in Logged, e <= fetched, e \notin D, e \notin poll'.todo, startLedger <= escrowLog[e].ledger
          PROVE  escrowLog[e].id \in unsure \cup {ForeignId}
      <3>1. e # h /\ e \notin poll.todo /\ e \notin Done
        BY <1>5, <1>6, <1>9, <2>1
      <3> QED
        BY <2>1, <3>1 DEF SyncInv, LostFits
    <2>2. \A e \in Logged : fetched < e /\ escrowLog[e].ledger < startLedger => escrowLog[e].id \in unsure
      BY DEF SyncInv, LostFits
    <2> QED
      BY <1>4, <2>1, <2>2 DEF LostFits
  <1>12. ASSUME NEW p PROVE Seen(p)' = {e \in Seen(p) \cup {h} : escrowLog[e].id = p}
    <2>1. Seen(p)' = {e \in 1 .. fetched : escrowLog[e].id = p /\ (e \in poll'.todo => e \in D)}
      BY <1>4 DEF Seen
    <2>2. ASSUME NEW e \in 1 .. fetched
          PROVE  (e \in poll'.todo => e \in D) <=> ((e \in poll.todo => e \in Done) \/ e = h)
      <3>1. CASE e = h
        BY <1>5, <3>1
      <3>2. CASE e # h
        BY <1>5, <1>7, <1>9, <3>2
      <3> QED
        BY <3>1, <3>2
    <2> QED
      BY <1>h, <2>1, <2>2 DEF Seen
  <1>13. h \notin Done => \A x \in Done : x < h
    BY <1>2, <1>h
  <1> QED
    BY <1>4, <1>5, <1>8, <1>10, <1>11, <1>12, <1>13

\* The status of the newest event is what the polls make of its payment.
LEMMA NewestShows ==
  ASSUME SyncInv, poll.todo # {}, NEW h, h = Current, h \notin Done,
         NEW p, p = escrowLog[h].id, NEW S, S = {e \in Seen(p) \cup {h} : escrowLog[e].id = p},
         NEW e \in S, \A d \in S : d <= e
  PROVE  e = h
  <1>t. fetched \in Nat /\ poll.todo \in SUBSET Nat
    BY SyncTyped
  <1>h. h \in poll.todo /\ h \in 1 .. fetched /\ h \in Nat
    BY <1>t, CurrentIs
  <1>1. h \in S
    OBVIOUS
  <1> SUFFICES ASSUME e # h PROVE FALSE
    OBVIOUS
  <1>2. e \in Seen(p) /\ e \in 1 .. fetched /\ e \in h .. fetched
    BY <1>t, <1>h, <1>1 DEF Seen
  <1>3. e \in poll.todo
    BY <1>h, <1>2 DEF SyncInv, PageFits
  <1>4. e \in Done
    BY <1>2, <1>3 DEF Seen
  <1>5. e < h
    BY <1>h, <1>4 DEF SyncInv, PageFits
  <1> QED
    BY <1>t, <1>h, <1>2, <1>5

\* The oldest event changes no row: it was seen before, or is of no payment or a short
\* one, or shows the status the row has.
LEMMA SkipSteps ==
  ASSUME SyncInv, poll.pc = "events", poll.todo # {}, NEW h, h = Current,
         UNCHANGED <<rows, escrowLog, closed, shortPaid, startLedger, confirms, applied, fetched, unsure>>,
         syncFaults' \in Nat, NextEvent,
         processed' = IF h \in Done THEN processed ELSE Remember(h),
         \A p \in EscrowIds \ (unsure \cup shortPaid) : escrowLog[h].id = p =>
             h \in Done \/ poll.snapshot[p] = mapTopicToStatus(escrowLog[h].topic)
  PROVE  SyncInv'
  <1>t. poll \in PollRow /\ poll.todo \in SUBSET Nat
    BY SyncTyped
  <1>1. poll' = [pc |-> "events", todo |-> poll.todo \ {h}, snapshot |-> poll.snapshot]
    BY <1>t DEF NextEvent, PollRow
  <1>2. /\ poll' \in PollRow /\ poll'.pc = "events" /\ poll'.todo = poll.todo \ {h}
        /\ poll'.snapshot = poll.snapshot
    BY <1>t, <1>1 DEF PollRow
  <1>3. PICK q : q = processed'
    OBVIOUS
  <1>4. q = IF h \in Done THEN processed ELSE Remember(h)
    BY <1>3
  <1>5. /\ DedupFits' /\ PageFits' /\ LostFits' /\ q \in Seq(Nat) /\ h \in Done'
        /\ \A x \in Done' : x \in Done \/ x = h
        /\ h \notin Done => \A x \in Done : x < h
        /\ \A p : Seen(p)' = {e \in Seen(p) \cup {h} : escrowLog[e].id = p}
    BY <1>2, <1>3, <1>4, TakeSets
  <1>h. h \in poll.todo /\ h \in 1 .. fetched /\ h \in Nat /\ fetched \in Nat
    BY SyncTyped, CurrentIs
  <1>6. SyncTypes'
    BY <1>2, <1>3, <1>5 DEF SyncInv, SyncTypes
  <1>7. LogFits' /\ SaveFits'
    BY <1>2 DEF SyncInv, LogFits, SaveFits, Logged
  <1>8. \A p : ~Saving(p) /\ ~Saving(p)'
    BY <1>2 DEF Saving
  <1>9. RowsFit'
    <2> SUFFICES ASSUME NEW p \in EscrowIds \ (unsure \cup shortPaid) PROVE Shows(rows[p], p)'
      BY <1>8 DEF RowsFit
    <2>1. Shows(rows[p], p)
      BY <1>8 DEF SyncInv, RowsFit
    <2>2. PICK S : S = {e \in Seen(p) \cup {h} : escrowLog[e].id = p}
      OBVIOUS
    <2>3. Seen(p)' = S
      BY <1>5, <2>2
    <2>4. CASE h \in Done \/ escrowLog[h].id # p
      <3>1. S = Seen(p)
        BY <1>h, <2>2, <2>4 DEF Seen
      <3> QED
        BY <2>1, <2>3, <3>1 DEF Shows
    <2>5. CASE ~(h \in Done \/ escrowLog[h].id # p)
      <3>1. poll.snapshot[p] = mapTopicToStatus(escrowLog[h].topic)
        BY <2>5
      <3>2. poll.snapshot[p] = rows[p]
        BY <1>h, <1>8, <2>5 DEF SyncInv, SnapshotFits
      <3>3. \A e \in S : (\A d \in S : d <= e) => e = h
        BY <2>2, <2>5, NewestShows
      <3>4. \A e \in S : (\A d \in S : d <= e) => rows[p] = mapTopicToStatus(escrowLog[e].topic)
        BY <3>1, <3>2, <3>3
      <3> QED
        BY <2>3, <3>4 DEF Shows
    <2> QED
      BY <2>4, <2>5
  <1>10. SnapshotFits'
    <2> SUFFICES ASSUME NEW e \in poll.todo, NEW p \in EscrowIds, escrowLog[e].id = p
                 PROVE  /\ poll.snapshot[p] # "none"
                        /\ p \notin unsure \cup shortPaid => poll.snapshot[p] = rows[p]
      BY <1>2 DEF SnapshotFits
    <2> QED
      BY <1>8 DEF SyncInv, SnapshotFits
  <1>11. AppliedFits'
    <2> SUFFICES ASSUME NEW p \in EscrowIds, NEW x \in Done, applied[p] <= x
                 PROVE  \E y \in Done' : applied[p] <= y
      BY DEF SyncInv, AppliedFits
    <2>1. applied[p] \in Nat /\ x \in Nat
      BY SyncTyped DEF SyncInv, DedupFits
    <2>2. CASE h \in Done
      <3>1. Done' = Done
        BY <2>2 DEF Done
      <3> QED
        BY <3>1
    <2>3. CASE h \notin Done
      BY <1>5, <1>h, <2>1, <2>3
    <2> QED
      BY <2>2, <2>3
  <1> QED
    BY <1>5, <1>6, <1>7, <1>9, <1>10, <1>11 DEF SyncInv

\* The oldest event changes the snapshot: its save is next.
LEMMA ApplySteps ==
  ASSUME SyncInv, poll.pc = "events", poll.todo # {}, NEW h, h = Current, h \notin Done,
         NEW p \in EscrowIds, p = escrowLog[h].id,
         NEW next, next = mapTopicToStatus(escrowLog[h].topic),
         UNCHANGED <<rows, escrowLog, closed, shortPaid, startLedger, confirms, applied, fetched, unsure>>,
         syncFaults' \in Nat, poll' = [poll EXCEPT !.pc = "save", !.snapshot[p] = next],
         processed' = Remember(h),
         p \in shortPaid /\ next = "confirmed" => syncFaults' > 0
  PROVE  SyncInv'
  <1>t. poll \in PollRow /\ poll.todo \in SUBSET Nat /\ poll.snapshot \in [EscrowIds -> Statuses]
    BY SyncTyped
  <1>h. h \in poll.todo /\ h \in 1 .. fetched /\ h \in Nat /\ fetched \in Nat /\ h \in Logged
    BY SyncTyped, CurrentIs
  <1>n. next \in Statuses /\ next # "none"
    <2>1. escrowLog[h].topic \in Topics
      BY <1>h, SyncTyped
    <2> QED
      BY <2>1 DEF Topics, mapTopicToStatus, Statuses
  <1>1. poll' = [pc |-> "save", todo |-> poll.todo, snapshot |-> [poll.snapshot EXCEPT ![p] = next]]
    BY <1>t DEF PollRow
  <1>2. /\ poll' \in PollRow /\ poll'.pc = "save" /\ poll'.todo = poll.todo
        /\ poll'.snapshot = [poll.snapshot EXCEPT ![p] = next]
    <2>1. PICK s : s = [poll.snapshot EXCEPT ![p] = next]
      OBVIOUS
    <2>2. s \in [EscrowIds -> Statuses]
      BY <1>t, <1>n, <2>1
    <2>3. poll' = [pc |-> "save", todo |-> poll.todo, snapshot |-> s]
      BY <1>1, <2>1
    <2> QED
      BY <1>t, <2>1, <2>2, <2>3 DEF PollRow
  <1>s. poll'.snapshot[p] = next /\ \A r \in EscrowIds : r # p => poll'.snapshot[r] = poll.snapshot[r]
    BY <1>t, <1>2
  <1>3. PICK q : q = processed'
    OBVIOUS
  <1>4. q = IF h \in Done THEN processed ELSE Remember(h)
    BY <1>3
  <1>5. /\ DedupFits' /\ PageFits' /\ LostFits' /\ q \in Seq(Nat) /\ h \in Done'
        /\ \A x \in Done' : x \in Done \/ x = h
        /\ \A x \in Done : x < h
        /\ \A r : Seen(r)' = {e \in Seen(r) \cup {h} : escrowLog[e].id = r}
    BY <1>2, <1>3, <1>4, TakeSets
  <1>6. SyncTypes'
    BY <1>2, <1>3, <1>5 DEF SyncInv, SyncTypes
  <1>7. LogFits'
    BY <1>2 DEF SyncInv, LogFits, Logged
  <1>c. Current' = h
    BY <1>2 DEF Current
  <1>8. \A r : ~Saving(r) /\ (Saving(r)' <=> r = p)
    BY <1>2, <1>c DEF Saving
  <1>9. RowsFit'
    <2> SUFFICES ASSUME NEW r \in EscrowIds \ (unsure \cup shortPaid)
                 PROVE  Shows(IF Saving(r) THEN poll.snapshot[r] ELSE rows[r], r)'
      BY DEF RowsFit
    <2>1. PICK x : x = IF r = p THEN next ELSE rows[r]
      OBVIOUS
    <2>2. x = (IF Saving(r) THEN poll.snapshot[r] ELSE rows[r])'
      BY <1>8, <1>s, <2>1
    <2>3. PICK S : S = {e \in Seen(r) \cup {h} : escrowLog[e].id = r}
      OBVIOUS
    <2>4. Seen(r)' = S
      BY <1>5, <2>3
    <2>5. \A e \in S : (\A d \in S : d <= e) => x = mapTopicToStatus(escrowLog[e].topic)
      <3>1. CASE r = p
        <4>1. \A e \in S : (\A d \in S : d <= e) => e = h
          BY <2>3, <3>1, NewestShows
        <4> QED
          BY <2>1, <3>1, <4>1
      <3>2. CASE r # p
        BY <2>3, <3>2, <1>8, <2>1 DEF Seen, SyncInv, RowsFit, Shows
      <3> QED
        BY <3>1, <3>2
    <2> QED
      BY <2>2, <2>4, <2>5 DEF Shows
  <1>10. SnapshotFits'
    <2> SUFFICES ASSUME NEW e \in poll.todo, NEW r \in EscrowIds, escrowLog[e].id = r
                 PROVE  /\ poll'.snapshot[r] # "none"
                        /\ r \notin unsure \cup shortPaid /\ r # p => poll'.snapshot[r] = rows[r]
      BY <1>2, <1>8 DEF SnapshotFits
    <2>1. /\ poll.snapshot[r] # "none"
          /\ r \notin unsure \cup shortPaid => poll.snapshot[r] = rows[r]
      BY <1>8 DEF SyncInv, SnapshotFits
    <2> QED
      BY <1>n, <1>s, <2>1
  <1>11. SaveFits'
    <2>1. \A x \in Done' : x <= h
      <3>1. \A x \in Done : x \in Nat
        BY DEF SyncInv, DedupFits
      <3> QED
        BY <1>5, <1>h, <3>1
    <2> QED
      BY <1>2, <1>5, <1>8, <1>c, <1>s, <2>1 DEF SaveFits
  <1>12. AppliedFits'
    <2> SUFFICES ASSUME NEW r \in EscrowIds, NEW x \in Done, applied[r] <= x
                 PROVE  applied[r] <= h
      BY <1>5 DEF SyncInv, AppliedFits
    <2>1. applied[r] \in Nat /\ x \in Nat
      BY SyncTyped DEF SyncInv, DedupFits
    <2> QED
      BY <1>5, <1>h, <2>1
  <1> QED
    BY <1>5, <1>6, <1>7, <1>9, <1>10, <1>11, <1>12 DEF SyncInv

\* The changed row is saved.
LEMMA SaveSteps == SyncInv /\ PollSave => SyncInv'
  <1> SUFFICES ASSUME SyncInv, PollSave PROVE SyncInv'
    OBVIOUS
  <1>0. poll.pc = "save" /\ poll.todo # {}
    BY DEF PollSave, SyncInv, PageFits
  <1>t. /\ poll \in PollRow /\ poll.todo \in SUBSET Nat /\ poll.snapshot \in [EscrowIds -> Statuses]
        /\ rows \in [EscrowIds -> Statuses] /\ applied \in [EscrowIds -> Nat]
    BY SyncTyped
  <1>1. PICK h : h = Current
    OBVIOUS
  <1>h. h \in poll.todo /\ h \in 1 .. fetched /\ h \in Nat /\ fetched \in Nat /\ h \in Logged
    BY <1>0, <1>1, SyncTyped, CurrentIs
  <1>2. PICK p : p = escrowLog[h].id
    OBVIOUS
  <1>3. p \in EscrowIds /\ h \in Done
    BY <1>0, <1>1, <1>2 DEF SyncInv, SaveFits
  <1>4. /\ rows' = [rows EXCEPT ![p] = poll.snapshot[p]] /\ applied' = [applied EXCEPT ![p] = h]
        /\ poll' = [poll EXCEPT !.pc = "events", !.todo = @ \ {h}]
        /\ UNCHANGED <<escrowLog, closed, shortPaid, startLedger, processed, confirms, syncFaults, fetched, unsure>>
    BY <1>1, <1>2 DEF PollSave, NextEvent, chainVars
  <1>5. poll' = [pc |-> "events", todo |-> poll.todo \ {h}, snapshot |-> poll.snapshot]
    BY <1>t, <1>4 DEF PollRow
  <1>6. /\ poll' \in PollRow /\ poll'.pc = "events" /\ poll'.todo = poll.todo \ {h}
        /\ poll'.snapshot = poll.snapshot
    BY <1>t, <1>5 DEF PollRow
  <1>7. PICK q : q = processed'
    OBVIOUS
  <1>8. q = IF h \in Done THEN processed ELSE Remember(h)
    BY <1>3, <1>4, <1>7
  <1>9. /\ DedupFits' /\ PageFits' /\ LostFits'
        /\ \A r : Seen(r)' = {e \in Seen(r) \cup {h} : escrowLog[e].id = r}
    BY <1>0, <1>1, <1>4, <1>6, <1>7, <1>8, TakeSets
  <1>10. /\ rows'[p] = poll.snapshot[p] /\ \A r \in EscrowIds : r # p => rows'[r] = rows[r]
         /\ rows' \in [EscrowIds -> Statuses]
         /\ applied'[p] = h /\ \A r \in EscrowIds : r # p => applied'[r] = applied[r]
         /\ applied' \in [EscrowIds -> Nat]
    BY <1>t, <1>h, <1>3, <1>4
  <1>11. SyncTypes'
    BY <1>4, <1>6, <1>10 DEF SyncInv, SyncTypes
  <1>12. poll.snapshot[p] # "none"
    BY <1>0, <1>h, <1>2, <1>3 DEF SyncInv, SnapshotFits
  <1>13. LogFits'
    <2>1. \A r \in EscrowIds : rows[r] # "none" => rows'[r] # "none"
      BY <1>10, <1>12
    <2> QED
      BY <1>4, <2>1 DEF SyncInv, LogFits, Logged
  <1>14. \A r : (Saving(r) <=> r = p) /\ ~Saving(r)'
    BY <1>0, <1>1, <1>2, <1>6 DEF Saving
  <1>15. RowsFit'
    <2> SUFFICES ASSUME NEW r \in EscrowIds \ (unsure \cup shortPaid) PROVE Shows(rows[r], r)'
      BY <1>4, <1>14 DEF RowsFit
    <2>1. PICK x : x = IF r = p THEN poll.snapshot[r] ELSE rows[r]
      OBVIOUS
    <2>2. rows'[r] = x
      BY <1>10, <2>1
    <2>3. Shows(x, r)
      BY <1>14, <2>1 DEF SyncInv, RowsFit
    <2>4. Seen(r)' = Seen(r)
      <3>1. {e \in Seen(r) \cup {h} : escrowLog[e].id = r} = Seen(r)
        BY <1>h, <1>3 DEF Seen
      <3> QED
        BY <1>9, <3>1
    <2> QED
      BY <1>4, <2>2, <2>3, <2>4 DEF Shows
  <1>16. SnapshotFits'
    <2> SUFFICES ASSUME NEW e \in poll.todo, NEW r \in EscrowIds, escrowLog[e].id = r
                 PROVE  /\ poll.snapshot[r] # "none"
                        /\ r \notin unsure \cup shortPaid => poll.snapshot[r] = rows'[r]
      BY <1>4, <1>6, <1>14 DEF SnapshotFits
    <2>1. /\ poll.snapshot[r] # "none"
          /\ r \notin unsure \cup shortPaid /\ r # p => poll.snapshot[r] = rows[r]
      BY <1>0, <1>14 DEF SyncInv, SnapshotFits
    <2> QED
      BY <1>10, <2>1
  <1>17. SaveFits'
    BY <1>6 DEF SaveFits
  <1>18. AppliedFits'
    <2>1. Done' = Done
      BY <1>4 DEF Done
    <2>2. h <= h
      BY <1>h
    <2> QED
      BY <1>3, <1>10, <2>1, <2>2 DEF SyncInv, AppliedFits
  <1> QED
    BY <1>9, <1>11, <1>13, <1>15, <1>16, <1>17, <1>18 DEF SyncInv

\* One event of the page.
LEMMA EventSteps == SyncInv /\ PollEvent => SyncInv'
  <1> SUFFICES ASSUME SyncInv, PollEvent PROVE SyncInv'
    OBVIOUS
  <1>1. PICK h : h = Current
    OBVIOUS
  <1>2. PICK p : p = escrowLog[h].id
    OBVIOUS
  <1>3. PICK next : next = mapTopicToStatus(escrowLog[h].topic)
    OBVIOUS
  <1>4. /\ poll.pc = "events" /\ poll.todo # {}
        /\ UNCHANGED <<rows, escrowLog, closed, shortPaid, startLedger, confirms, applied, fetched, unsure>>
        /\ processed' = IF h \in Done THEN processed ELSE Remember(h)
    BY <1>1 DEF PollEvent, IsNew, Done, chainVars
  <1>h. h \in poll.todo /\ h \in Logged /\ p \in EscrowIds \cup {ForeignId} /\ syncFaults \in Nat
    BY <1>1, <1>2, <1>4, CurrentIs, SyncTyped
  <1>5. CASE h \in Done \/ p = ForeignId
    BY <1>1, <1>2, <1>5, SyncTyped, <1>4, <1>h, SkipSteps DEF PollEvent, IsNew, Done, SkipEvent
  <1>6. CASE h \notin Done /\ p # ForeignId
    <2>1. p \in EscrowIds /\ poll.snapshot[p] # "none"
      BY <1>2, <1>4, <1>6, <1>h DEF SyncInv, SnapshotFits
    <2>2. /\ syncFaults' \in Nat
          /\ \/ NextEvent /\ p \in shortPaid
             \/ NextEvent /\ poll.snapshot[p] = next
             \/ /\ poll' = [poll EXCEPT !.pc = "save", !.snapshot[p] = next]
                /\ p \in shortPaid /\ next = "confirmed" => syncFaults' > 0
      <3>1. CASE /\ escrowLog[h].topic # "deposit"
                 /\ ApplyToSnapshot(p, next) /\ UNCHANGED syncFaults
        <4>1. next # "confirmed"
          BY <1>3, <1>h, <3>1, SyncTyped DEF mapTopicToStatus, Topics
        <4> QED
          BY <1>h, <3>1, <4>1 DEF ApplyToSnapshot
      <3>2. ASSUME NEW balance \in queryContractBalance(p),
                   IF balance = "null" THEN SyncThrows ELSE UNCHANGED syncFaults,
                   IF verifyDepositBalance(balance) THEN NextEvent ELSE ApplyToSnapshot(p, next)
            PROVE  /\ syncFaults' \in Nat
                  /\ \/ NextEvent /\ p \in shortPaid
                     \/ NextEvent /\ poll.snapshot[p] = next
                     \/ /\ poll' = [poll EXCEPT !.pc = "save", !.snapshot[p] = next]
                        /\ p \in shortPaid /\ next = "confirmed" => syncFaults' > 0
        <4>1. syncFaults' \in Nat /\ (balance = "null" => syncFaults' > 0)
          BY <1>h, <3>2 DEF SyncThrows
        <4>2. CASE balance = "short"
          BY <3>2, <4>1, <4>2 DEF verifyDepositBalance, queryContractBalance
        <4>3. CASE balance # "short"
          BY <3>2, <4>3, <4>1 DEF verifyDepositBalance, queryContractBalance, ApplyToSnapshot
        <4> QED
          BY <4>2, <4>3
      <3>3. \/ /\ escrowLog[h].topic # "deposit"
               /\ ApplyToSnapshot(p, next) /\ UNCHANGED syncFaults
            \/ \E balance \in queryContractBalance(p) :
                   /\ IF balance = "null" THEN SyncThrows ELSE UNCHANGED syncFaults
                   /\ IF verifyDepositBalance(balance) THEN NextEvent ELSE ApplyToSnapshot(p, next)
        BY <1>1, <1>2, <1>3, <1>6, <2>1 DEF PollEvent, IsNew, Done
      <3> QED
        BY <3>1, <3>2, <3>3
    <2>3. CASE NextEvent /\ (p \in shortPaid \/ poll.snapshot[p] = next)
      BY <1>2, <1>3, <2>3, <1>1, <1>4, <2>2, SkipSteps
    <2>4. CASE /\ poll' = [poll EXCEPT !.pc = "save", !.snapshot[p] = next]
               /\ p \in shortPaid /\ next = "confirmed" => syncFaults' > 0
      <3>1. processed' = Remember(h)
        BY <1>4, <1>6
      <3> QED
        BY <1>1, <1>2, <1>3, <1>4, <1>6, <2>1, <2>2, <2>4, <3>1, ApplySteps
    <2> QED
      BY <2>2, <2>3, <2>4
  <1> QED
    BY <1>5, <1>6

\* Every step keeps the invariant.
LEMMA SyncInvStep == SyncInv /\ [SyncNext]_syncVars => SyncInv'
  <1> SUFFICES ASSUME SyncInv, [SyncNext]_syncVars PROVE SyncInv'
    OBVIOUS
  <1>t. /\ rows \in [EscrowIds -> Statuses] /\ confirms \in [Confirmers -> ConfirmRow]
        /\ closed \in Nat /\ syncFaults \in Nat
        /\ \A c \in Confirmers : confirms[c].pc \in {"confirmed", "expired"} => confirms[c].id \in EscrowIds
        /\ ForeignId \notin EscrowIds
    BY SyncTyped DEF SyncInv, SyncTypes
  <1>1. CASE UNCHANGED syncVars
    BY <1>1, <1>t, TableSteps DEF syncVars
  <1>2. ASSUME NEW p \in EscrowIds, CreateRow(p) PROVE SyncInv'
    BY <1>2, <1>t, TableSteps DEF CreateRow, chainVars, Statuses
  <1>3. ASSUME NEW p \in EscrowIds \cup {ForeignId}, NEW t \in Topics, EmitEscrowEvent(p, t) PROVE SyncInv'
    BY <1>3, EmitSteps
  <1>4. CASE CloseEscrowLedger
    BY <1>4, <1>t, TableSteps DEF CloseEscrowLedger
  <1>5. CASE PollFetch
    BY <1>5, FetchSteps
  <1>6. CASE PollFind
    BY <1>6, FindSteps
  <1>7. CASE PollEvent
    BY <1>7, EventSteps
  <1>8. CASE PollSave
    BY <1>8, SaveSteps
  <1>9. CASE PollEnd
    BY <1>9, <1>t, EndSteps DEF PollEnd, chainVars
  <1>10. CASE PollThrows
    BY <1>10, <1>t, EndSteps DEF PollThrows, SyncThrows, chainVars, PaymentsOf
  <1>11. CASE SyncRestart
    BY <1>11, RestartSteps
  <1>12. ASSUME NEW c \in Confirmers, NEW p \in EscrowIds, ConfirmAsk(c, p) PROVE SyncInv'
    <2>1. PICK answer \in {"confirmed", "expired"} :
              /\ confirms' = [confirms EXCEPT ![c] = [pc |-> answer, id |-> p]]
              /\ UNCHANGED <<rows, escrowLog, closed, shortPaid, startLedger, processed, poll, syncFaults,
                             applied, fetched, unsure>>
      BY <1>12 DEF ConfirmAsk, chainVars
    <2>2. PICK r : r = [pc |-> answer, id |-> p]
      OBVIOUS
    <2>3. r \in ConfirmRow /\ r.id = p
      BY <2>2 DEF ConfirmRow
    <2>4. confirms' = [confirms EXCEPT ![c] = r]
      BY <2>1, <2>2
    <2>5. confirms' \in [Confirmers -> ConfirmRow] /\ confirms'[c] = r
          /\ \A d \in Confirmers : d # c => confirms'[d] = confirms[d]
      BY <1>t, <2>3, <2>4
    <2> QED
      BY <1>t, <2>1, <2>3, <2>5, TableSteps
  <1>13. ASSUME NEW c \in Confirmers, ConfirmSave(c) PROVE SyncInv'
    <2>1. PICK r \in ConfirmRow : r = confirms[c]
      BY <1>t
    <2>2. /\ r.pc \in {"confirmed", "expired"} /\ r.id \in EscrowIds
          /\ rows' = [rows EXCEPT ![r.id] = r.pc]
          /\ confirms' = [confirms EXCEPT ![c].pc = "done"] /\ unsure' = unsure \cup {r.id}
          /\ UNCHANGED <<escrowLog, closed, shortPaid, startLedger, processed, poll, syncFaults,
                         applied, fetched>>
      BY <1>t, <1>13, <2>1 DEF ConfirmSave, chainVars
    <2>3. rows' \in [EscrowIds -> Statuses] /\ rows'[r.id] # "none"
          /\ \A q \in EscrowIds : q # r.id => rows'[q] = rows[q]
      BY <1>t, <2>2 DEF Statuses
    <2>4. PICK s : s = [pc |-> "done", id |-> r.id]
      OBVIOUS
    <2>5. s \in ConfirmRow /\ s.pc = "done"
      BY <2>2, <2>4 DEF ConfirmRow
    <2>6. confirms' = [confirms EXCEPT ![c] = s]
      <3>1. [r EXCEPT !.pc = "done"] = s
        BY <2>1, <2>4 DEF ConfirmRow
      <3>2. confirms' = [confirms EXCEPT ![c] = [r EXCEPT !.pc = "done"]]
        BY <2>1, <2>2
      <3> QED
        BY <3>1, <3>2
    <2>7. confirms' \in [Confirmers -> ConfirmRow] /\ confirms'[c] = s
          /\ \A d \in Confirmers : d # c => confirms'[d] = confirms[d]
      BY <1>t, <2>5, <2>6
    <2>8. \A q \in EscrowIds : rows'[q] # rows[q] => q \in unsure'
      BY <2>2, <2>3
    <2>9. /\ \A q \in EscrowIds : rows[q] # "none" => rows'[q] # "none"
          /\ \A d \in Confirmers : confirms'[d].pc \in {"confirmed", "expired"} => confirms'[d].id \in EscrowIds
          /\ unsure \subseteq unsure' /\ closed' \in {closed, closed + 1}
      BY <1>t, <2>2, <2>3, <2>5, <2>7
    <2> QED
      BY <2>2, <2>3, <2>7, <2>8, <2>9, TableSteps
  <1> QED
    BY <1>1, <1>2, <1>3, <1>4, <1>5, <1>6, <1>7, <1>8, <1>9, <1>10, <1>11, <1>12, <1>13 DEF SyncNext

\* Between polls all events read are dealt with, and the last one of a payment shows.
LEMMA SyncKept == SyncInv => RowsFollowChain
  <1> SUFFICES ASSUME SyncInv, poll.pc = "idle", NEW p \in EscrowIds \ (unsure \cup shortPaid),
                      NEW mine, mine = {e \in 1 .. fetched : escrowLog[e].id = p}, mine # {}
               PROVE  rows[p] = mapTopicToStatus(escrowLog[Max(mine)].topic)
    BY DEF RowsFollowChain
  <1>1. poll.todo = {} /\ fetched \in Nat /\ ~Saving(p)
    BY SyncTyped DEF SyncInv, PageFits, Saving
  <1>2. Seen(p) = mine
    BY <1>1 DEF Seen
  <1>3. PICK last \in mine : \A e \in mine : e <= last
    <2>1. mine \in SUBSET Nat /\ \A e \in mine : e <= fetched
      BY <1>1
    <2> QED
      BY <1>1, <2>1, Greatest
  <1>4. Max(mine) \in mine /\ \A e \in mine : e <= Max(mine)
    BY <1>3 DEF Max
  <1>5. Shows(rows[p], p)
    BY <1>1 DEF SyncInv, RowsFit
  <1> QED
    BY <1>2, <1>4, <1>5 DEF Shows

\* What a step may do: events of a payment are applied in their order ...
OrderStep == \A p \in EscrowIds : applied'[p] >= applied[p] \/ fetched' = 0

\* ... and a short deposit is not confirmed by the poll while balances can be read.
ShortStep ==
    \A p \in shortPaid :
        rows[p] # "confirmed" /\ rows'[p] = "confirmed" =>
            syncFaults > 0 \/ \E c \in Confirmers : confirms[c].id = p

\* Every step of the copying is such a step.
LEMMA SyncApplies == SyncInv /\ [SyncNext]_syncVars => [OrderStep /\ ShortStep]_syncVars
  <1> SUFFICES ASSUME SyncInv, SyncNext PROVE OrderStep /\ ShortStep
    OBVIOUS
  <1>t. /\ rows \in [EscrowIds -> Statuses] /\ applied \in [EscrowIds -> Nat] /\ confirms \in [Confirmers -> ConfirmRow]
        /\ \A c \in Confirmers : confirms[c].pc \in {"confirmed", "expired"} => confirms[c].id \in EscrowIds
    BY SyncTyped DEF SyncInv, SyncTypes
  <1>k. \A p \in EscrowIds : applied[p] >= applied[p]
    BY <1>t
  <1>1. CASE rows' = rows /\ applied' = applied
    BY <1>1, <1>k DEF OrderStep, ShortStep
  <1>2. ASSUME NEW p \in EscrowIds, CreateRow(p) PROVE OrderStep /\ ShortStep
    BY <1>t, <1>2, <1>k DEF CreateRow, OrderStep, ShortStep
  <1>3. CASE PollSave
    <2>0. poll.pc = "save" /\ poll.todo # {}
      BY <1>3 DEF PollSave, SyncInv, PageFits
    <2>1. PICK h : h = Current
      OBVIOUS
    <2>2. PICK p : p = escrowLog[h].id
      OBVIOUS
    <2>3. /\ rows' = [rows EXCEPT ![p] = poll.snapshot[p]] /\ applied' = [applied EXCEPT ![p] = h]
      BY <1>3, <2>1, <2>2 DEF PollSave
    <2>4. p \in EscrowIds /\ \A x \in Done : x <= h
      BY <2>0, <2>1, <2>2 DEF SyncInv, SaveFits
    <2>5. OrderStep
      <3> SUFFICES ASSUME NEW q \in EscrowIds PROVE applied'[q] >= applied[q]
        BY DEF OrderStep
      <3>1. CASE q = p
        BY <1>t, <2>0, <2>1, <2>4, CurrentIs, <2>3, <3>1 DEF SyncInv, DedupFits, AppliedFits
      <3>2. CASE q # p
        BY <1>t, <1>k, <2>3, <3>2
      <3> QED
        BY <3>1, <3>2
    <2>6. ShortStep
      <3> SUFFICES ASSUME NEW q \in shortPaid, rows[q] # "confirmed", rows'[q] = "confirmed"
                   PROVE  syncFaults > 0
        BY DEF ShortStep
      <3>1. q = p
        BY <1>t, <2>3
      <3>2. poll.snapshot[p] = "confirmed"
        BY <1>t, <2>3, <2>4, <3>1
      <3>3. Saving(p)
        BY <2>0, <2>1, <2>2 DEF Saving
      <3> QED
        BY <2>0, <3>1, <3>2, <3>3 DEF SyncInv, SaveFits
    <2> QED
      BY <2>5, <2>6
  <1>4. CASE SyncRestart
    BY <1>4 DEF SyncRestart, OrderStep, ShortStep
  <1>5. ASSUME NEW c \in Confirmers, ConfirmSave(c) PROVE OrderStep /\ ShortStep
    BY <1>5, <1>t, <1>k DEF ConfirmSave, OrderStep, ShortStep
  <1>6. \/ rows' = rows /\ applied' = applied
        \/ \E p \in EscrowIds : CreateRow(p)
        \/ PollSave \/ SyncRestart \/ \E c \in Confirmers : ConfirmSave(c)
    BY DEF SyncNext, EmitEscrowEvent, CloseEscrowLedger, PollFetch, PollFind, PollEvent, PollEnd, PollThrows, ConfirmAsk
  <1> QED
    BY <1>1, <1>2, <1>3, <1>4, <1>5, <1>6

--------------------------------------------------------------------------------
(* The feed                                                                *)

NoteRow == [at : Nat \cup {-1}, read : BOOLEAN]
LoadedRow == [note : Notes, at : Nat]
WalkRow == [cursor : Notes \cup {Top, End}, shown : SUBSET Notes, count : Nat, began : SUBSET Notes]

FeedTypes ==
    /\ feedClock \in Nat /\ feed \in [Notes -> NoteRow] /\ \A n \in Rows : feed[n].at \in Nat
    /\ marking \in SUBSET LoadedRow /\ walk \in WalkRow /\ lost \in SUBSET Notes

\* A row that was loaded is there or was purged, and its time is the same everywhere.
LoadsFit ==
    /\ \A l \in marking : /\ l.note \in Rows \cup lost
                          /\ l.note \in Rows => feed[l.note].at = l.at
    /\ \A l, k \in marking : l.note = k.note => l.at = k.at

\* The times a notification has, or gets again when markRead saves it after a purge.
Timed(n, a) == (n \in Rows /\ feed[n].at = a) \/ \E l \in marking : l.note = n /\ l.at = a

\* What was shown is no older than the cursor and was counted once; what was there at the
\* start and is there still was shown, or one of the same time was, or it is behind the cursor.
WalkFits ==
    /\ walk.shown \cup walk.began \subseteq Rows \cup lost
    /\ walk.cursor \in Notes => walk.cursor \in Rows \cup lost
    /\ walk.cursor = Top => walk.shown = {} /\ walk.began = {}
    /\ walk.count = Cardinality(walk.shown)
    /\ \A m \in walk.shown : \A a, b \in Nat : Timed(m, a) /\ Timed(walk.cursor, b) => b <= a
    /\ \A n \in walk.began \ lost :
           \/ n \in walk.shown
           \/ \E m \in walk.shown : m \in Rows /\ feed[m].at = feed[n].at
           \/ walk.cursor \in Rows /\ feed[n].at < feed[walk.cursor].at

FeedInv == FeedTypes /\ LoadsFit /\ WalkFits

\* It holds at the start.
LEMMA FeedInitially == FeedInit => FeedInv
  <1> SUFFICES ASSUME FeedInit PROVE FeedInv
    OBVIOUS
  <1>1. /\ feedClock = 0 /\ feed = [n \in Notes |-> NoNote] /\ marking = {} /\ walk = NewWalk /\ lost = {}
        /\ NoNote \in NoteRow
    BY DEF FeedInit, NoNote, NoteRow
  <1>2. /\ NewWalk \in WalkRow /\ NewWalk.cursor = Top /\ NewWalk.shown = {} /\ NewWalk.began = {}
        /\ NewWalk.count = 0
    BY DEF NewWalk, WalkRow
  <1>3. Rows = {}
    BY <1>1 DEF Rows
  <1>4. Cardinality({}) = 0 /\ Top \notin Notes
    BY FS_EmptySet, FeedAssumption DEF FeedAssumption
  <1>5. FeedTypes /\ LoadsFit
    BY <1>1, <1>2, <1>3 DEF FeedTypes, LoadsFit
  <1>6. WalkFits
    BY <1>1, <1>2, <1>3, <1>4 DEF WalkFits
  <1> QED
    BY <1>5, <1>6 DEF FeedInv

\* A step that purges nothing keeps the walk in order.
LEMMA FeedGrows ==
  ASSUME FeedInv, FeedTypes', LoadsFit', walk' = walk, lost' = lost, Rows \subseteq Rows',
         \A n \in Rows : feed'[n].at = feed[n].at,
         \A n \in Rows \cup lost : \A a \in Nat : Timed(n, a)' => Timed(n, a)
  PROVE  FeedInv'
  <1>1. PICK c : c = walk.cursor
    OBVIOUS
  <1>2. walk'.cursor = c
    BY <1>1
  <1>3. WalkFits
    BY DEF FeedInv
  <1>4. \A m \in walk.shown : m \in Rows \cup lost
    BY <1>3 DEF WalkFits
  <1>5. ASSUME NEW m \in walk.shown, NEW a \in Nat, NEW b \in Nat, Timed(m, a)', Timed(c, b)' PROVE b <= a
    <2>1. Timed(m, a)
      BY <1>4, <1>5
    <2>2. c \in Notes
      <3>1. LoadsFit' /\ FeedTypes'
        OBVIOUS
      <3> QED
        BY <1>5, <3>1 DEF Timed, FeedTypes, LoadedRow, Rows
    <2>3. Timed(c, b)
      BY <1>1, <1>3, <1>5, <2>2 DEF WalkFits
    <2> QED
      BY <1>1, <1>3, <2>1, <2>3 DEF WalkFits
  <1>6. ASSUME NEW n \in walk.began \ lost
        PROVE  \/ n \in walk.shown
               \/ \E m \in walk.shown : m \in Rows' /\ feed'[m].at = feed'[n].at
               \/ c \in Rows' /\ feed'[n].at < feed'[c].at
    BY <1>3, <1>6, <1>1 DEF WalkFits
  <1>7. WalkFits'
    BY <1>1, <1>3, <1>5, <1>2, <1>6 DEF WalkFits
  <1> QED
    BY <1>7 DEF FeedInv

\* A purge takes with a row every older one, and those of its time.
LEMMA FeedPurges == FeedInv /\ purgeOldNotifications => FeedInv'
  <1> SUFFICES ASSUME FeedInv, purgeOldNotifications PROVE FeedInv'
    OBVIOUS
  <1>t. /\ feedClock \in Nat /\ MaxAge \in Nat /\ feed \in [Notes -> NoteRow] /\ \A n \in Rows : feed[n].at \in Nat
        /\ marking \in SUBSET LoadedRow /\ walk \in WalkRow /\ lost \in SUBSET Notes
    BY FeedAssumption DEF FeedAssumption, FeedInv, FeedTypes
  <1>1. PICK old : old = {n \in Rows : feed[n].at < feedClock - MaxAge}
    OBVIOUS
  <1>2. /\ feed' = [n \in Notes |-> IF n \in old THEN NoNote ELSE feed[n]] /\ lost' = lost \cup old
        /\ UNCHANGED <<feedClock, marking, walk>>
    BY <1>1 DEF purgeOldNotifications
  <1>3. NoNote \in NoteRow /\ old \subseteq Rows /\ Rows \subseteq Notes
    BY <1>1 DEF NoNote, NoteRow, Rows
  <1>4. Rows' = Rows \ old
    BY <1>2, <1>3 DEF Rows
  <1>5. \A n \in Rows \ old : feed'[n] = feed[n]
    BY <1>2, <1>3
  <1>6. feed' \in [Notes -> NoteRow]
    BY <1>t, <1>2, <1>3
  <1>7. FeedTypes'
    BY <1>t, <1>2, <1>3, <1>4, <1>5, <1>6 DEF FeedTypes
  <1>8. LoadsFit'
    BY <1>2, <1>4, <1>5 DEF FeedInv, LoadsFit
  <1>9. \A n, a : Timed(n, a)' => Timed(n, a)
    BY <1>2, <1>4, <1>5 DEF Timed
  <1>w. WalkFits
    BY DEF FeedInv
  <1>10. ASSUME NEW n \in walk.began \ (lost \cup old)
         PROVE  \/ n \in walk.shown
                \/ \E m \in walk.shown : m \in Rows' /\ feed'[m].at = feed'[n].at
                \/ walk.cursor \in Rows' /\ feed'[n].at < feed'[walk.cursor].at
    <2>1. n \in Rows \ old
      BY <1>w, <1>10 DEF WalkFits
    <2>2. feed[n].at \in Nat /\ ~(feed[n].at < feedClock - MaxAge)
      BY <1>t, <1>1, <2>1
    <2>3. \A m \in Rows : feed[n].at <= feed[m].at => m \in Rows \ old
      BY <1>t, <1>1, <2>2
    <2>4. CASE n \in walk.shown
      BY <2>4
    <2>5. ASSUME NEW m \in walk.shown, m \in Rows, feed[m].at = feed[n].at
          PROVE  m \in Rows' /\ feed'[m].at = feed'[n].at
      BY <1>4, <1>5, <2>1, <2>2, <2>3, <2>5
    <2>6. CASE walk.cursor \in Rows /\ feed[n].at < feed[walk.cursor].at
      <3>1. walk.cursor \in Rows \ old
        BY <1>t, <2>2, <2>3, <2>6
      <3> QED
        BY <1>4, <1>5, <2>1, <2>6, <3>1
    <2> QED
      BY <1>w, <1>10, <2>4, <2>5, <2>6 DEF WalkFits
  <1>11. WalkFits'
    <2>1. /\ walk.shown \cup walk.began \subseteq Rows' \cup lost'
          /\ walk.cursor \in Notes => walk.cursor \in Rows' \cup lost'
      BY <1>w, <1>2, <1>4 DEF WalkFits
    <2>2. PICK c : c = walk.cursor
      OBVIOUS
    <2>3. \A m \in walk.shown : \A a, b \in Nat : Timed(m, a)' /\ Timed(c, b)' => b <= a
      BY <1>w, <1>9, <2>2 DEF WalkFits
    <2>4. walk'.cursor = c
      BY <1>2, <2>2
    <2>5. /\ c = Top => walk.shown = {} /\ walk.began = {}
          /\ walk.count = Cardinality(walk.shown)
      BY <1>w, <2>2 DEF WalkFits
    <2> QED
      BY <1>2, <1>10, <2>1, <2>2, <2>3, <2>4, <2>5 DEF WalkFits
  <1> QED
    BY <1>7, <1>8, <1>11 DEF FeedInv

\* A notification has one time.
LEMMA OneTime ==
  ASSUME FeedInv, NEW n \in Rows, NEW a, Timed(n, a)
  PROVE  a = feed[n].at
BY DEF FeedInv, LoadsFit, Timed

\* The next page: rows behind the cursor that were not shown before, and no newer ones are
\* left out.
LEMMA FeedLists == FeedInv /\ listForUser => FeedInv'
  <1> SUFFICES ASSUME FeedInv, listForUser PROVE FeedInv'
    OBVIOUS
  <1>t. /\ feedClock \in Nat /\ feed \in [Notes -> NoteRow] /\ \A n \in Rows : feed[n].at \in Nat
        /\ marking \in SUBSET LoadedRow /\ walk \in WalkRow /\ lost \in SUBSET Notes
        /\ IsFiniteSet(Notes) /\ Top \notin Notes /\ End \notin Notes /\ PageLimit \in Nat \ {0}
        /\ Rows \subseteq Notes
    BY FeedAssumption DEF FeedAssumption, FeedInv, FeedTypes, Rows
  <1>w. WalkFits
    BY DEF FeedInv
  <1>1. PICK c : c = walk.cursor
    OBVIOUS
  <1>2. PICK behind : behind = Behind(c)
    OBVIOUS
  <1>3. PICK items, next :
            /\ items \in Newest(behind, IF Cardinality(behind) > PageLimit THEN PageLimit ELSE Cardinality(behind))
            /\ next \in IF Cardinality(behind) > PageLimit
                        THEN {n \in items : \A m \in items : feed[n].at <= feed[m].at} ELSE {End}
            /\ walk' = [cursor |-> next, shown |-> walk.shown \cup items, count |-> walk.count + Cardinality(items),
                        began |-> IF c = Top THEN Rows ELSE walk.began]
    BY <1>1, <1>2 DEF listForUser
  <1>4. /\ c # End /\ UNCHANGED <<feedClock, feed, marking, lost>>
    BY <1>1 DEF listForUser
  <1>5. /\ behind \subseteq Rows
        /\ c = Top => behind = Rows
        /\ c # Top => behind = {n \in Rows : c \in Rows /\ feed[n].at < feed[c].at}
    BY <1>2 DEF Behind
  <1>6. IsFiniteSet(behind) /\ Cardinality(behind) \in Nat /\ behind \in SUBSET Notes
    BY <1>t, <1>5, FS_Subset, FS_CardinalityType
  <1>7. /\ items \in SUBSET behind /\ \A n \in items, m \in behind \ items : feed[n].at >= feed[m].at
        /\ Cardinality(items) = IF Cardinality(behind) > PageLimit THEN PageLimit ELSE Cardinality(behind)
    BY <1>3 DEF Newest, kSubset
  <1>8. ~(Cardinality(behind) > PageLimit) => items = behind
    BY <1>6, <1>7, FS_Subset
  <1>9. IsFiniteSet(items) /\ Cardinality(items) \in Nat /\ items \subseteq Rows /\ items \subseteq Notes
    <2>1. IsFiniteSet(items)
      BY <1>6, <1>7, FS_Subset
    <2> QED
      BY <1>t, <1>5, <1>7, <2>1, FS_CardinalityType
  <1>10. IF Cardinality(behind) > PageLimit
         THEN next \in items /\ \A m \in items : feed[next].at <= feed[m].at ELSE next = End
    BY <1>3
  <1>s. walk.shown \in SUBSET Notes /\ walk.began \in SUBSET Notes /\ walk.count \in Nat /\ c \in Notes \cup {Top, End}
    BY <1>t, <1>1 DEF WalkRow
  <1>11. \A m \in walk.shown : m \in behind => FALSE
    <2> SUFFICES ASSUME NEW m \in walk.shown, m \in behind PROVE FALSE
      OBVIOUS
    <2>1. c # Top
      BY <1>w, <1>1 DEF WalkFits
    <2>2. m \in Rows /\ c \in Rows /\ feed[m].at < feed[c].at
      BY <1>5, <2>1
    <2>3. Timed(m, feed[m].at) /\ Timed(c, feed[c].at) /\ feed[m].at \in Nat /\ feed[c].at \in Nat
      BY <1>t, <2>2 DEF Timed
    <2>4. feed[c].at <= feed[m].at
      BY <1>w, <1>1, <2>3 DEF WalkFits
    <2> QED
      BY <2>2, <2>3, <2>4
  <1>12. PICK now, count, began :
             /\ now = walk.shown \cup items /\ count = walk.count + Cardinality(items)
             /\ began = IF c = Top THEN Rows ELSE walk.began
    OBVIOUS
  <1>13. walk' = [cursor |-> next, shown |-> now, count |-> count, began |-> began]
    BY <1>3, <1>12
  <1>14. /\ next \in Notes \cup {Top, End} /\ now \in SUBSET Notes /\ count \in Nat /\ began \in SUBSET Notes
         /\ next # Top
         /\ next \in Notes => next \in items
    BY <1>10, <1>s, <1>9, <1>12, <1>t DEF End, Top
  <1>15. /\ walk' \in WalkRow /\ walk'.cursor = next /\ walk'.shown = now /\ walk'.count = count
         /\ walk'.began = began
    BY <1>13, <1>14 DEF WalkRow
  <1>16. Rows' = Rows
    BY <1>4 DEF Rows
  <1>17. FeedTypes' /\ LoadsFit'
    BY <1>t, <1>4, <1>15, <1>16 DEF FeedInv, FeedTypes, LoadsFit
  <1>18. count = Cardinality(now)
    <2>1. IsFiniteSet(walk.shown) /\ Cardinality(walk.shown) \in Nat
      BY <1>t, <1>s, FS_Subset, FS_CardinalityType
    <2>2. walk.shown \cap items = {}
      BY <1>7, <1>11
    <2>3. Cardinality(now) = Cardinality(walk.shown) + Cardinality(items) - Cardinality(walk.shown \cap items)
      BY <1>9, <1>12, <2>1, FS_Union
    <2>4. Cardinality(walk.shown \cap items) = 0
      BY <2>2, FS_EmptySet
    <2>5. walk.count = Cardinality(walk.shown)
      BY <1>w DEF WalkFits
    <2> QED
      BY <1>9, <1>12, <2>1, <2>3, <2>4, <2>5
  <1>19. ASSUME NEW m \in now, NEW a \in Nat, NEW b \in Nat, Timed(m, a), Timed(next, b) PROVE b <= a
    <2>1. next \in items /\ next \in Rows /\ Cardinality(behind) > PageLimit
      <3>1. next \in Notes
        BY <1>t, <1>19 DEF Timed, LoadedRow
      <3> QED
        BY <1>t, <1>9, <1>10, <1>14, <3>1
    <2>2. b = feed[next].at
      BY <1>19, <2>1, OneTime
    <2>3. CASE m \in items
      <3>1. m \in Rows /\ a = feed[m].at
        BY <1>9, <1>19, <2>3, OneTime
      <3> QED
        BY <1>10, <2>1, <2>2, <2>3, <3>1
    <2>4. CASE m \in walk.shown
      <3>1. c # Top
        BY <1>w, <1>1, <2>4 DEF WalkFits
      <3>2. c \in Rows /\ feed[next].at < feed[c].at
        BY <1>5, <1>7, <2>1, <3>1
      <3>3. Timed(c, feed[c].at) /\ feed[c].at \in Nat
        BY <1>t, <3>2 DEF Timed
      <3>4. feed[c].at <= a
        BY <1>w, <1>1, <1>19, <2>4, <3>3 DEF WalkFits
      <3> QED
        BY <1>19, <2>2, <3>2, <3>3, <3>4
    <2> QED
      BY <1>12, <2>3, <2>4
  <1>20. ASSUME NEW n \in began \ lost
         PROVE  \/ n \in now
                \/ \E m \in now : m \in Rows /\ feed[m].at = feed[n].at
                \/ next \in Rows /\ feed[n].at < feed[next].at
    <2>1. n \in Rows
      BY <1>w, <1>12, <1>20 DEF WalkFits
    <2>2. \/ n \in walk.shown
          \/ \E m \in walk.shown : m \in Rows /\ feed[m].at = feed[n].at
          \/ n \in behind
      <3>1. CASE c = Top
        BY <1>5, <2>1, <3>1
      <3>2. CASE c # Top
        <4>1. n \in walk.began \ lost
          BY <1>12, <1>20, <3>2
        <4> QED
          BY <1>w, <1>1, <1>5, <2>1, <3>2, <4>1 DEF WalkFits
      <3> QED
        BY <3>1, <3>2
    <2>3. CASE n \in behind \ items
      BY <1>7, <1>8, <1>10, <2>3, <1>t, <1>9, <1>12, <2>1
    <2> QED
      BY <1>12, <2>2, <2>3
  <1>21. WalkFits'
    BY <1>w, <1>9, <1>12, <1>14, <1>4, <1>16, <1>15, <1>18, <1>19, <1>20 DEF WalkFits, Timed
  <1> QED
    BY <1>17, <1>21 DEF FeedInv

\* Every step keeps the invariant.
LEMMA FeedInvStep == FeedInv /\ [FeedNext]_feedVars => FeedInv'
  <1> SUFFICES ASSUME FeedInv, [FeedNext]_feedVars PROVE FeedInv'
    OBVIOUS
  <1>t. /\ feedClock \in Nat /\ feed \in [Notes -> NoteRow] /\ \A n \in Rows : feed[n].at \in Nat
        /\ marking \in SUBSET LoadedRow /\ walk \in WalkRow /\ lost \in SUBSET Notes /\ Rows \subseteq Notes
        /\ NoNote = [at |-> -1, read |-> FALSE]
    BY DEF FeedInv, FeedTypes, Rows, NoNote
  <1>1. CASE UNCHANGED <<feed, marking, walk, lost>> /\ feedClock' \in Nat
    BY <1>1, <1>t, FeedGrows DEF Rows, FeedInv, FeedTypes, LoadsFit, Timed
  <1>2. ASSUME NEW n \in Notes, Notify(n) PROVE FeedInv'
    <2>1. PICK r : r = [at |-> feedClock, read |-> FALSE]
      OBVIOUS
    <2>2. /\ feed[n] = NoNote /\ n \notin lost /\ feed' = [feed EXCEPT ![n] = r]
          /\ UNCHANGED <<feedClock, marking, walk, lost>>
      BY <1>2, <2>1 DEF Notify
    <2>3. r \in NoteRow /\ r.at = feedClock /\ r # NoNote
      <3>1. r.at # NoNote.at /\ r.at = feedClock
        BY <1>t, <2>1
      <3> QED
        BY <1>t, <2>1, <3>1 DEF NoteRow
    <2>4. feed' \in [Notes -> NoteRow] /\ feed'[n] = r /\ \A m \in Notes : m # n => feed'[m] = feed[m]
      BY <1>t, <2>2, <2>3
    <2>5. n \notin Rows /\ Rows' = Rows \cup {n}
      BY <2>2, <2>3, <2>4 DEF Rows
    <2>6. \A m \in Rows : feed'[m] = feed[m]
      BY <1>t, <2>4, <2>5
    <2>7. FeedTypes'
      BY <1>t, <2>2, <2>3, <2>4, <2>5, <2>6 DEF FeedTypes
    <2>8. LoadsFit'
      BY <2>2, <2>5, <2>6 DEF FeedInv, LoadsFit
    <2>9. \A m \in Rows \cup lost : \A a \in Nat : Timed(m, a)' => Timed(m, a)
      BY <2>2, <2>5, <2>6 DEF Timed
    <2> QED
      BY <2>2, <2>5, <2>6, <2>7, <2>8, <2>9, FeedGrows
  <1>3. ASSUME NEW n \in Notes, LoadNote(n) PROVE FeedInv'
    <2>1. PICK l : l = [note |-> n, at |-> feed[n].at]
      OBVIOUS
    <2>2. /\ n \in Rows /\ marking' = marking \cup {l} /\ UNCHANGED <<feedClock, feed, walk, lost>>
      BY <1>3, <2>1 DEF LoadNote
    <2>3. l \in LoadedRow /\ l.note = n /\ l.at = feed[n].at
      BY <1>t, <2>1, <2>2 DEF LoadedRow
    <2>4. Rows' = Rows
      BY <2>2 DEF Rows
    <2>5. FeedTypes' /\ LoadsFit'
      BY <1>t, <2>2, <2>3, <2>4 DEF FeedInv, FeedTypes, LoadsFit
    <2>6. \A m \in Rows \cup lost : \A a \in Nat : Timed(m, a)' => Timed(m, a)
      BY <2>2, <2>3, <2>4 DEF Timed
    <2> QED
      BY <2>2, <2>4, <2>5, <2>6, FeedGrows
  <1>4. ASSUME NEW l \in marking, SaveRead(l) PROVE FeedInv'
    <2>1. PICK r : r = [at |-> l.at, read |-> TRUE]
      OBVIOUS
    <2>2. /\ marking' = marking \ {l} /\ feed' = [feed EXCEPT ![l.note] = r]
          /\ UNCHANGED <<feedClock, walk, lost>>
      BY <1>4, <2>1 DEF SaveRead
    <2>3. l.note \in Notes /\ l.at \in Nat
      BY <1>t DEF LoadedRow
    <2>4. r \in NoteRow /\ r.at = l.at /\ r # NoNote
      <3>1. r.at # NoNote.at /\ r.at = l.at
        BY <1>t, <2>1, <2>3
      <3> QED
        BY <1>t, <2>1, <2>3, <3>1 DEF NoteRow
    <2>5. /\ feed' \in [Notes -> NoteRow] /\ feed'[l.note] = r
          /\ \A m \in Notes : m # l.note => feed'[m] = feed[m]
      BY <1>t, <2>2, <2>3, <2>4
    <2>6. Rows' = Rows \cup {l.note}
      BY <2>3, <2>4, <2>5 DEF Rows
    <2>7. \A m \in Rows : feed'[m].at = feed[m].at
      BY <1>t, <2>4, <2>5 DEF FeedInv, LoadsFit
    <2>8. FeedTypes'
      BY <1>t, <2>2, <2>3, <2>4, <2>5, <2>6, <2>7 DEF FeedTypes
    <2>9. LoadsFit'
      BY <2>4, <2>5, <2>2, <2>6, <2>7 DEF FeedInv, LoadsFit
    <2>10. \A m \in Rows \cup lost : \A a \in Nat : Timed(m, a)' => Timed(m, a)
      <3> SUFFICES ASSUME NEW m, NEW a \in Nat, Timed(m, a)' PROVE Timed(m, a)
        OBVIOUS
      <3>1. CASE m \in Rows' /\ feed'[m].at = a
        <4>1. CASE m \in Rows
          BY <2>7, <3>1, <4>1 DEF Timed
        <4>2. CASE m = l.note
          BY <2>4, <2>5, <3>1, <4>2 DEF Timed
        <4> QED
          BY <2>6, <3>1, <4>1, <4>2
      <3>2. CASE \E k \in marking' : k.note = m /\ k.at = a
        BY <2>2, <3>2 DEF Timed
      <3> QED
        BY <3>1, <3>2 DEF Timed
    <2> QED
      BY <2>2, <2>6, <2>7, <2>8, <2>9, <2>10, FeedGrows
  <1>5. CASE markAllRead
    <2>1. /\ feed' = [n \in Notes |-> IF n \in Rows THEN [feed[n] EXCEPT !.read = TRUE] ELSE feed[n]]
          /\ UNCHANGED <<feedClock, marking, walk, lost>>
      BY <1>5 DEF markAllRead
    <2>2. ASSUME NEW n \in Rows PROVE feed'[n] \in NoteRow /\ feed'[n].at = feed[n].at /\ feed'[n] # NoNote
      <3>1. PICK y \in NoteRow : y = feed[n]
        BY <1>t
      <3>2. feed'[n] = [at |-> y.at, read |-> TRUE]
        BY <1>t, <2>1, <3>1 DEF NoteRow
      <3>3. y.at \in Nat
        BY <1>t, <3>1
      <3>4. feed'[n].at = y.at /\ feed'[n].at # NoNote.at
        BY <1>t, <3>2, <3>3
      <3> QED
        BY <1>t, <3>1, <3>2, <3>3, <3>4 DEF NoteRow
    <2>3. \A n \in Notes \ Rows : feed'[n] = feed[n] /\ feed[n] = NoNote
      BY <2>1 DEF Rows
    <2>4. feed' \in [Notes -> NoteRow]
      <3>1. \A n \in Notes : feed'[n] \in NoteRow
        BY <1>t, <2>2, <2>3
      <3> QED
        BY <2>1, <3>1
    <2>5. Rows' = Rows
      BY <1>t, <2>2, <2>3 DEF Rows
    <2>6. FeedTypes' /\ LoadsFit'
      BY <1>t, <2>1, <2>2, <2>4, <2>5 DEF FeedInv, FeedTypes, LoadsFit
    <2>7. \A m \in Rows \cup lost : \A a \in Nat : Timed(m, a)' => Timed(m, a)
      BY <2>1, <2>2, <2>5 DEF Timed
    <2> QED
      BY <2>1, <2>2, <2>5, <2>6, <2>7, FeedGrows
  <1>6. CASE purgeOldNotifications
    BY <1>6, FeedPurges
  <1>7. CASE listForUser
    BY <1>7, FeedLists
  <1>8. CASE Restart
    <2>1. walk' = NewWalk /\ UNCHANGED <<feedClock, feed, marking, lost>>
      BY <1>8 DEF Restart
    <2>2. /\ NewWalk \in WalkRow /\ NewWalk.cursor = Top /\ NewWalk.shown = {} /\ NewWalk.began = {}
          /\ NewWalk.count = 0
      BY DEF NewWalk, WalkRow
    <2>3. Cardinality({}) = 0 /\ Top \notin Notes /\ Rows' = Rows
      BY <2>1, FS_EmptySet, FeedAssumption DEF FeedAssumption, Rows
    <2>4. FeedTypes' /\ LoadsFit'
      BY <1>t, <2>1, <2>2, <2>3 DEF FeedInv, FeedTypes, LoadsFit
    <2>5. WalkFits'
      BY <2>1, <2>2, <2>3 DEF WalkFits
    <2> QED
      BY <2>4, <2>5 DEF FeedInv
  <1>9. CASE FeedTick
    BY <1>t, <1>1, <1>9 DEF FeedTick
  <1>10. CASE UNCHANGED feedVars
    BY <1>t, <1>1, <1>10 DEF feedVars
  <1> QED
    BY <1>2, <1>3, <1>4, <1>5, <1>6, <1>7, <1>8, <1>9, <1>10 DEF FeedNext

\* At the end of a walk nothing is behind the cursor.
LEMMA FeedKept == FeedInv => WalkIsComplete
  <1>1. End \notin Rows
    BY FeedAssumption DEF FeedAssumption, Rows
  <1> QED
    BY <1>1 DEF FeedInv, WalkFits, WalkIsComplete

--------------------------------------------------------------------------------
(* Exports                                                                 *)

IsRow(r) ==
    r = [status |-> r.status, period |-> r.period, dateFrom |-> r.dateFrom, dateTo |-> r.dateTo,
         downloadToken |-> r.downloadToken, expiresAt |-> r.expiresAt, file |-> r.file]
IsJob(j) == j = [pc |-> j.pc, record |-> j.record, since |-> j.since]
IsFile(f) == f = [volume |-> f.volume, settlements |-> f.settlements]

\* A worker holds the token of its row; a row that is announced is ready, under the token
\* that was mailed last.
ExportFits(r, j, q) ==
    /\ IsRow(r) /\ IsJob(j) /\ IsRow(j.record) /\ IsFile(r.file) /\ IsFile(j.record.file)
    /\ r.expiresAt \in Int /\ j.record.expiresAt \in Int /\ r.downloadToken \in Nat /\ q \in Seq(Nat)
    /\ j.pc \in {"volume", "settlements", "save", "mail", "threw"} => j.record.downloadToken = r.downloadToken
    /\ j.pc \in {"mail", "completed"} => r.status = "ready" /\ r.downloadToken # 0
    /\ j.pc = "completed" => Len(q) > 0 /\ q[Len(q)] = r.downloadToken

\* The volumes a job has read are those of its range today, unless its end is open and
\* midnight fell after it read them.
PastMidnight(j) == j.record.dateTo = None /\ j.since < today
VolumeFits(k) == k.file.volume = resolveVolumeRange(k.period, k.dateFrom, k.dateTo)
SectionsFit(j) ==
    /\ j.pc = "settlements" => j.since \in Int /\ j.since <= today /\ (VolumeFits(j.record) \/ PastMidnight(j))
    /\ j.pc = "save" =>
           /\ j.since \in Int
           /\ (j.record.file.volume = j.record.file.settlements) \/ PastMidnight(j)

ExportInv ==
    /\ today \in Int /\ lastToken \in Nat
    /\ exportRow = [e \in Exports |-> exportRow[e]] /\ exportJob = [e \in Exports |-> exportJob[e]]
    /\ links = [e \in Exports |-> links[e]]
    /\ \A e \in Exports : ExportFits(exportRow[e], exportJob[e], links[e])
    /\ \A e \in Exports : SectionsFit(exportJob[e]) /\ exportRow[e].downloadToken <= lastToken
    /\ \A d, e \in Exports : d # e /\ exportRow[d].downloadToken = exportRow[e].downloadToken =>
                                 exportRow[e].downloadToken = 0

\* It holds at the start.
LEMMA ExportInitially == ExportInit => ExportInv
  <1> SUFFICES ASSUME ExportInit PROVE ExportInv
    OBVIOUS
  <1>1. /\ today = FirstDay /\ lastToken = 0 /\ exportRow = [e \in Exports |-> NoRow]
        /\ exportJob = [e \in Exports |-> NoExportJob] /\ links = [e \in Exports |-> << >>]
    BY DEF ExportInit, AnalyticsInit
  <1>2. IsRow(NoRow) /\ NoRow.downloadToken = 0 /\ NoRow.expiresAt = 0 /\ IsFile(NoRow.file)
    BY DEF NoRow, IsRow, IsFile
  <1>3. IsJob(NoExportJob) /\ NoExportJob.pc = "none" /\ NoExportJob.record = NoRow
    BY DEF NoExportJob, IsJob
  <1>4. << >> \in Seq(Nat)
    OBVIOUS
  <1>5. ExportFits(NoRow, NoExportJob, << >>) /\ SectionsFit(NoExportJob)
    BY <1>2, <1>3, <1>4 DEF ExportFits, SectionsFit
  <1>6. FirstDay \in Int
    BY AnalyticsAssumption DEF AnalyticsAssumption
  <1> QED
    BY <1>1, <1>2, <1>5, <1>6 DEF ExportInv

\* A step of one export.
ExportMove(e, r, j, q) ==
    /\ exportRow' = [exportRow EXCEPT ![e] = r]
    /\ exportJob' = [exportJob EXCEPT ![e] = j]
    /\ links' = [links EXCEPT ![e] = q]
    /\ today' = today

\* It keeps the invariant when the token of its row is the old one or a fresh one.
LEMMA ExportMoves ==
  ASSUME ExportInv, NEW e \in Exports, NEW r, NEW j, NEW q, ExportMove(e, r, j, q), ExportFits(r, j, q),
         SectionsFit(j),
         \/ r.downloadToken = exportRow[e].downloadToken /\ lastToken' = lastToken
         \/ r.downloadToken = lastToken + 1 /\ lastToken' = lastToken + 1
  PROVE  ExportInv'
  <1>t. /\ today \in Int /\ lastToken \in Nat
        /\ exportRow = [d \in Exports |-> exportRow[d]] /\ exportJob = [d \in Exports |-> exportJob[d]]
        /\ links = [d \in Exports |-> links[d]]
    BY DEF ExportInv
  <1>1. /\ exportRow'[e] = r /\ exportJob'[e] = j /\ links'[e] = q
        /\ \A d \in Exports : d # e => exportRow'[d] = exportRow[d] /\ exportJob'[d] = exportJob[d] /\ links'[d] = links[d]
    BY <1>t DEF ExportMove
  <1>2. exportRow' = [d \in Exports |-> exportRow'[d]] /\ exportJob' = [d \in Exports |-> exportJob'[d]]
    BY <1>t DEF ExportMove
  <1>3. links' = [d \in Exports |-> links'[d]] /\ today' \in Int /\ lastToken' \in Nat
    BY <1>t DEF ExportMove
  <1>4. ASSUME NEW d \in Exports PROVE ExportFits(exportRow'[d], exportJob'[d], links'[d])
    <2>1. CASE d = e
      BY <1>1, <2>1
    <2>2. CASE d # e
      BY <1>1, <2>2 DEF ExportInv
    <2> QED
      BY <2>1, <2>2
  <1>s. ASSUME NEW d \in Exports PROVE SectionsFit(exportJob[d])'
    <2>1. PICK i : i = exportJob'[d]
      OBVIOUS
    <2>2. SectionsFit(i) /\ today' = today
      BY <1>1, <2>1 DEF ExportInv, ExportMove
    <2> QED
      BY <2>1, <2>2 DEF SectionsFit, VolumeFits, PastMidnight, resolveVolumeRange, Truncate, startOfUtcMonth,
                        MonthOf, addUtcDays, addUtcMonths
  <1>5. \A d \in Exports : exportRow[d].downloadToken \in Nat /\ exportRow[d].downloadToken <= lastToken
    BY DEF ExportInv, ExportFits
  <1>6. \A d \in Exports : exportRow'[d].downloadToken <= lastToken'
    BY <1>t, <1>1, <1>5
  <1>7. ASSUME NEW d \in Exports, NEW f \in Exports, d # f, exportRow'[d].downloadToken = exportRow'[f].downloadToken
        PROVE  exportRow'[f].downloadToken = 0
    <2>1. CASE r.downloadToken = exportRow[e].downloadToken
      BY <1>1, <2>1, <1>7 DEF ExportInv
    <2>2. CASE r.downloadToken = lastToken + 1
      <3>1. d # e /\ f # e
        BY <1>t, <1>1, <1>5, <1>7, <2>2
      <3> QED
        BY <1>1, <1>7, <3>1 DEF ExportInv
    <2> QED
      BY <2>1, <2>2
  <1> QED
    BY <1>2, <1>3, <1>4, <1>s, <1>6, <1>7 DEF ExportInv

\* The row a request saves, the record a job saves as ready, and what its two reads write.
Requested(r, s, p, x, y) == [r EXCEPT !.status = s, !.period = p, !.dateFrom = x, !.dateTo = y]
Announced(r, s, x, k) == [r EXCEPT !.status = s, !.expiresAt = x, !.downloadToken = k]
VolumeRead(F, e, p, x, n) == [F EXCEPT ![e].pc = p, ![e].record.file.volume = x, ![e].since = n]
SettlementsRead(F, e, p, x) == [F EXCEPT ![e].pc = p, ![e].record.file.settlements = x]

\* Writing fields of a row or of a job.
LEMMA WritesRow ==
  ASSUME NEW r, IsRow(r), NEW s, NEW f
  PROVE  /\ [r EXCEPT !.status = s] =
                [status |-> s, period |-> r.period, dateFrom |-> r.dateFrom, dateTo |-> r.dateTo,
                 downloadToken |-> r.downloadToken, expiresAt |-> r.expiresAt, file |-> r.file]
         /\ [r EXCEPT !.file = f] =
                [status |-> r.status, period |-> r.period, dateFrom |-> r.dateFrom, dateTo |-> r.dateTo,
                 downloadToken |-> r.downloadToken, expiresAt |-> r.expiresAt, file |-> f]
  <1>1. PICK c1, c2, c3, c4, c5, c6, c7 :
            r = [status |-> c1, period |-> c2, dateFrom |-> c3, dateTo |-> c4, downloadToken |-> c5,
                 expiresAt |-> c6, file |-> c7]
    BY DEF IsRow
  <1>2. /\ r.status = c1 /\ r.period = c2 /\ r.dateFrom = c3 /\ r.dateTo = c4
        /\ r.downloadToken = c5 /\ r.expiresAt = c6 /\ r.file = c7
    BY ONLY <1>1
  <1>3. [r EXCEPT !.status = s] =
            [status |-> s, period |-> c2, dateFrom |-> c3, dateTo |-> c4, downloadToken |-> c5,
             expiresAt |-> c6, file |-> c7]
    BY ONLY <1>1
  <1>4. [r EXCEPT !.file = f] =
            [status |-> c1, period |-> c2, dateFrom |-> c3, dateTo |-> c4, downloadToken |-> c5,
             expiresAt |-> c6, file |-> f]
    BY ONLY <1>1
  <1> QED
    BY ONLY <1>2, <1>3, <1>4

\* The record saved as ready.
LEMMA WritesReady ==
  ASSUME NEW r, IsRow(r), NEW s, NEW x, NEW k
  PROVE  Announced(r, s, x, k) =
             [status |-> s, period |-> r.period, dateFrom |-> r.dateFrom, dateTo |-> r.dateTo,
              downloadToken |-> k, expiresAt |-> x, file |-> r.file]
  <1>1. PICK c1, c2, c3, c4, c5, c6, c7 :
            r = [status |-> c1, period |-> c2, dateFrom |-> c3, dateTo |-> c4, downloadToken |-> c5,
                 expiresAt |-> c6, file |-> c7]
    BY DEF IsRow
  <1>2. r.period = c2 /\ r.dateFrom = c3 /\ r.dateTo = c4 /\ r.file = c7
    BY ONLY <1>1
  <1>3. [r EXCEPT !.status = s] =
            [status |-> s, period |-> c2, dateFrom |-> c3, dateTo |-> c4, downloadToken |-> c5,
             expiresAt |-> c6, file |-> c7]
    BY ONLY <1>1
  <1>5. [r EXCEPT !.status = s, !.expiresAt = x, !.downloadToken = k] =
            [status |-> s, period |-> c2, dateFrom |-> c3, dateTo |-> c4, downloadToken |-> k,
             expiresAt |-> x, file |-> c7]
    <2>1. PICK u : u = [r EXCEPT !.status = s]
      OBVIOUS
    <2>2. PICK v : v = [u EXCEPT !.expiresAt = x]
      OBVIOUS
    <2>3. v = [status |-> s, period |-> c2, dateFrom |-> c3, dateTo |-> c4, downloadToken |-> c5,
               expiresAt |-> x, file |-> c7]
      BY ONLY <1>3, <2>1, <2>2
    <2>4. [r EXCEPT !.status = s, !.expiresAt = x, !.downloadToken = k] = [v EXCEPT !.downloadToken = k]
      BY ONLY <2>1, <2>2
    <2> QED
      BY ONLY <2>3, <2>4
  <1> QED
    BY ONLY <1>2, <1>5 DEF Announced

\* The same for a job.
LEMMA WritesJob ==
  ASSUME NEW j, IsJob(j), NEW p, NEW r
  PROVE  /\ [j EXCEPT !.pc = p] = [pc |-> p, record |-> j.record, since |-> j.since]
         /\ [j EXCEPT !.pc = p, !.record = r] = [pc |-> p, record |-> r, since |-> j.since]
  <1>1. PICK c1, c2, c3 : j = [pc |-> c1, record |-> c2, since |-> c3]
    BY DEF IsJob
  <1>2. j.record = c2 /\ j.since = c3
    BY ONLY <1>1
  <1>3. [j EXCEPT !.pc = p] = [pc |-> p, record |-> c2, since |-> c3]
    BY ONLY <1>1
  <1>4. [j EXCEPT !.pc = p, !.record = r] = [pc |-> p, record |-> r, since |-> c3]
    <2>1. PICK k : k = [j EXCEPT !.pc = p]
      OBVIOUS
    <2>2. [j EXCEPT !.pc = p, !.record = r] = [k EXCEPT !.record = r]
      BY ONLY <2>1
    <2>3. k = [pc |-> p, record |-> c2, since |-> c3]
      BY ONLY <1>3, <2>1
    <2> QED
      BY ONLY <2>2, <2>3
  <1> QED
    BY ONLY <1>2, <1>3, <1>4

OverExports(F) == F = [d \in Exports |-> F[d]]

WithFile(F, e, p, n, f, G) ==
    G = [F EXCEPT ![e] = [pc |-> p, record |-> [F[e].record EXCEPT !.file = f], since |-> n]]

\* The two reads write a range into the record of the job.
LEMMA WritesFile ==
  ASSUME NEW F, OverExports(F), NEW e \in Exports, IsJob(F[e]), IsRow(F[e].record),
         NEW p, NEW x, NEW n
  PROVE  /\ WithFile(F, e, p, F[e].since, [F[e].record.file EXCEPT !.settlements = x], SettlementsRead(F, e, p, x))
         /\ WithFile(F, e, p, n, [F[e].record.file EXCEPT !.volume = x], VolumeRead(F, e, p, x, n))
  <1>1. PICK j : j = F[e]
    OBVIOUS
  <1>2. PICK c1, c2, c3 : j = [pc |-> c1, record |-> c2, since |-> c3]
    BY <1>1 DEF IsJob
  <1>3. j.record = c2 /\ j.since = c3
    BY ONLY <1>2
  <1>4. PICK K : K = [F EXCEPT ![e].pc = p]
    OBVIOUS
  <1>5. K = [F EXCEPT ![e] = [j EXCEPT !.pc = p]]
    BY ONLY <1>1, <1>4
  <1>6. K[e] = [pc |-> p, record |-> c2, since |-> c3] /\ K = [d \in Exports |-> K[d]]
        /\ \A d \in Exports : d # e => K[d] = F[d]
    BY <1>2, <1>5 DEF OverExports
  <1>7. [F EXCEPT ![e].pc = p, ![e].record.file.settlements = x] =
               [F EXCEPT ![e] = [pc |-> p, record |-> [c2 EXCEPT !.file = [c2.file EXCEPT !.settlements = x]], since |-> c3]]
    <2>1. PICK L : L = [F EXCEPT ![e].pc = p, ![e].record.file.settlements = x]
      OBVIOUS
    <2>2. L = [K EXCEPT ![e].record.file.settlements = x]
      BY ONLY <1>4, <2>1
    <2>3. PICK f : f = [K[e].record.file EXCEPT !.settlements = x]
      OBVIOUS
    <2>4. PICK r : r = [K[e].record EXCEPT !.file = f]
      OBVIOUS
    <2>5. PICK m : m = [K[e] EXCEPT !.record = r]
      OBVIOUS
    <2>6. L = [K EXCEPT ![e] = m]
      BY ONLY <2>2, <2>3, <2>4, <2>5
    <2>7. f = [c2.file EXCEPT !.settlements = x] /\ r = [c2 EXCEPT !.file = f] /\ m = [pc |-> p, record |-> r, since |-> c3]
      <3>1. K[e] = [pc |-> p, record |-> c2, since |-> c3]
        BY <1>6
      <3>2. K[e].record = c2
        BY ONLY <3>1
      <3>3. m = [[pc |-> p, record |-> c2, since |-> c3] EXCEPT !.record = r]
        BY ONLY <2>5, <3>1
      <3>4. r = [c2 EXCEPT !.file = f]
        BY ONLY <2>4, <3>2
      <3>5. m = [pc |-> p, record |-> r, since |-> c3]
        BY ONLY <3>3
      <3>6. f = [c2.file EXCEPT !.settlements = x]
        BY ONLY <2>3, <3>2
      <3> QED
        BY ONLY <3>4, <3>5, <3>6
    <2>8. L = [F EXCEPT ![e] = m]
      BY <1>6, <2>6 DEF OverExports
    <2> QED
      BY <2>1, <2>7, <2>8
  <1>8. [F EXCEPT ![e].pc = p, ![e].record.file.volume = x, ![e].since = n] =
               [F EXCEPT ![e] = [pc |-> p, record |-> [c2 EXCEPT !.file = [c2.file EXCEPT !.volume = x]], since |-> n]]
    <2>1. PICK L : L = [F EXCEPT ![e].pc = p, ![e].record.file.volume = x]
      OBVIOUS
    <2>2. L = [K EXCEPT ![e].record.file.volume = x]
      BY ONLY <1>4, <2>1
    <2>3. PICK f : f = [K[e].record.file EXCEPT !.volume = x]
      OBVIOUS
    <2>4. PICK r : r = [K[e].record EXCEPT !.file = f]
      OBVIOUS
    <2>5. PICK m : m = [K[e] EXCEPT !.record = r]
      OBVIOUS
    <2>6. L = [K EXCEPT ![e] = m]
      BY ONLY <2>2, <2>3, <2>4, <2>5
    <2>7. f = [c2.file EXCEPT !.volume = x] /\ r = [c2 EXCEPT !.file = f] /\ m = [pc |-> p, record |-> r, since |-> c3]
      <3>1. K[e] = [pc |-> p, record |-> c2, since |-> c3]
        BY <1>6
      <3>2. K[e].record = c2
        BY ONLY <3>1
      <3>3. m = [[pc |-> p, record |-> c2, since |-> c3] EXCEPT !.record = r]
        BY ONLY <2>5, <3>1
      <3>4. r = [c2 EXCEPT !.file = f]
        BY ONLY <2>4, <3>2
      <3>5. m = [pc |-> p, record |-> r, since |-> c3]
        BY ONLY <3>3
      <3>6. f = [c2.file EXCEPT !.volume = x]
        BY ONLY <2>3, <3>2
      <3> QED
        BY ONLY <3>4, <3>5, <3>6
    <2>8. L = [F EXCEPT ![e] = m]
      BY <1>6, <2>6 DEF OverExports
    <2>9. L[e] = m /\ L = [d \in Exports |-> L[d]] /\ \A d \in Exports : d # e => L[d] = F[d]
      BY <2>8 DEF OverExports
    <2>10. PICK w : w = [m EXCEPT !.since = n]
      OBVIOUS
    <2>11. w = [pc |-> p, record |-> r, since |-> n]
      <3>1. m = [pc |-> p, record |-> r, since |-> c3]
        BY <2>7
      <3> QED
        BY ONLY <2>10, <3>1
    <2>12. [L EXCEPT ![e].since = n] = [L EXCEPT ![e] = w]
      BY ONLY <2>9, <2>10
    <2>13. [L EXCEPT ![e].since = n] = [F EXCEPT ![e] = w]
      BY <2>8, <2>9, <2>12 DEF OverExports
    <2>14. [F EXCEPT ![e].pc = p, ![e].record.file.volume = x, ![e].since = n] = [L EXCEPT ![e].since = n]
      BY ONLY <2>1
    <2> QED
      BY <2>7, <2>11, <2>13, <2>14
  <1> QED
    BY <1>1, <1>3, <1>7, <1>8 DEF SettlementsRead, VolumeRead, WithFile

\* The row a request saves.
LEMMA WritesRequest ==
  ASSUME NEW r, IsRow(r), NEW s, NEW p, NEW x, NEW y
  PROVE  Requested(r, s, p, x, y) =
             [status |-> s, period |-> p, dateFrom |-> x, dateTo |-> y,
              downloadToken |-> r.downloadToken, expiresAt |-> r.expiresAt, file |-> r.file]
  <1>1. PICK c1, c2, c3, c4, c5, c6, c7 :
            r = [status |-> c1, period |-> c2, dateFrom |-> c3, dateTo |-> c4, downloadToken |-> c5,
                 expiresAt |-> c6, file |-> c7]
    BY DEF IsRow
  <1>2. r.downloadToken = c5 /\ r.expiresAt = c6 /\ r.file = c7
    BY ONLY <1>1
  <1>3. PICK u : u = [r EXCEPT !.status = s]
    OBVIOUS
  <1>4. PICK v : v = [u EXCEPT !.period = p]
    OBVIOUS
  <1>5. PICK w : w = [v EXCEPT !.dateFrom = x]
    OBVIOUS
  <1>6. u = [status |-> s, period |-> c2, dateFrom |-> c3, dateTo |-> c4, downloadToken |-> c5,
             expiresAt |-> c6, file |-> c7]
    BY ONLY <1>1, <1>3
  <1>7. v = [status |-> s, period |-> p, dateFrom |-> c3, dateTo |-> c4, downloadToken |-> c5,
             expiresAt |-> c6, file |-> c7]
    BY ONLY <1>4, <1>6
  <1>8. w = [status |-> s, period |-> p, dateFrom |-> x, dateTo |-> c4, downloadToken |-> c5,
             expiresAt |-> c6, file |-> c7]
    BY ONLY <1>5, <1>7
  <1>9. [r EXCEPT !.status = s, !.period = p, !.dateFrom = x, !.dateTo = y] = [w EXCEPT !.dateTo = y]
    BY ONLY <1>3, <1>4, <1>5
  <1> QED
    BY ONLY <1>2, <1>8, <1>9 DEF Requested

\* The fields of a row, and of a job, written out.
LEMMA RowFields ==
  ASSUME NEW c1, NEW c2, NEW c3, NEW c4, NEW c5, NEW c6, NEW c7, NEW r,
         r = [status |-> c1, period |-> c2, dateFrom |-> c3, dateTo |-> c4, downloadToken |-> c5,
              expiresAt |-> c6, file |-> c7]
  PROVE  /\ IsRow(r) /\ r.status = c1 /\ r.downloadToken = c5 /\ r.expiresAt = c6
         /\ r.period = c2 /\ r.dateFrom = c3 /\ r.dateTo = c4 /\ r.file = c7
BY DEF IsRow

\* The same of a job.
LEMMA JobFields ==
  ASSUME NEW p, NEW k, NEW n, NEW j, j = [pc |-> p, record |-> k, since |-> n]
  PROVE  IsJob(j) /\ j.pc = p /\ j.record = k /\ j.since = n
BY DEF IsJob

\* Steps that write the job alone.
JobPc(e, p) ==
    exportJob' = [exportJob EXCEPT ![e].pc = p] /\ UNCHANGED <<today, exportRow, links, lastToken>>
JobReads(e, p, k, f, n) ==
    /\ exportJob' = [exportJob EXCEPT ![e] = [pc |-> p, record |-> [k EXCEPT !.file = f], since |-> n]]
    /\ UNCHANGED <<today, exportRow, links, lastToken>>

\* The export's copy of the window is the window of the volumes.
LEMMA SameRange ==
  ASSUME NEW period, NEW from, NEW to
  PROVE  resolveRange(period, from, to) = resolveVolumeRange(period, from, to)
BY DEF resolveRange, resolveVolumeRange, Truncate

\* What a step of an export does, as a move of its row, its job and its links.
LEMMA ExportSteps ==
  ASSUME ExportInv, NEW e \in Exports, ExportStep(e)
  PROVE  ExportInv'
  <1>t. /\ today \in Int /\ lastToken \in Nat
        /\ exportRow = [d \in Exports |-> exportRow[d]] /\ exportJob = [d \in Exports |-> exportJob[d]]
        /\ links = [d \in Exports |-> links[d]]
    BY DEF ExportInv
  <1>1. PICK r, j, q : r = exportRow[e] /\ j = exportJob[e] /\ q = links[e]
    OBVIOUS
  <1>2. ExportFits(r, j, q)
    BY <1>1 DEF ExportInv
  <1>3. IsRow(r) /\ IsJob(j) /\ IsRow(j.record) /\ q \in Seq(Nat) /\ r.downloadToken \in Nat
        /\ r.expiresAt \in Int /\ j.record.expiresAt \in Int /\ IsFile(r.file) /\ IsFile(j.record.file)
    BY <1>2 DEF ExportFits
  <1>o. /\ exportRow = [exportRow EXCEPT ![e] = r] /\ exportJob = [exportJob EXCEPT ![e] = j]
        /\ links = [links EXCEPT ![e] = q]
    BY <1>t, <1>1
  <1>j. \A p : [exportJob EXCEPT ![e].pc = p] =
               [exportJob EXCEPT ![e] = [pc |-> p, record |-> j.record, since |-> j.since]]
    <2> SUFFICES ASSUME NEW p
                 PROVE  [exportJob EXCEPT ![e].pc = p] =
                        [exportJob EXCEPT ![e] = [pc |-> p, record |-> j.record, since |-> j.since]]
      OBVIOUS
    <2>1. PICK F : F = exportJob
      OBVIOUS
    <2>2. [F EXCEPT ![e].pc = p] = [F EXCEPT ![e] = [F[e] EXCEPT !.pc = p]]
      BY <1>t, <2>1
    <2>3. [F[e] EXCEPT !.pc = p] = [pc |-> p, record |-> j.record, since |-> j.since]
      BY <1>1, <1>3, <2>1, WritesJob
    <2> QED
      BY ONLY <2>1, <2>2, <2>3
  <1>k. ASSUME NEW p, NEW k, NEW n, IsRow(k), IsFile(k.file), k.expiresAt \in Int,
               p \in {"volume", "settlements", "save", "mail", "threw"} => k.downloadToken = r.downloadToken,
               p \notin {"mail", "completed"}
        PROVE  ExportFits(r, [pc |-> p, record |-> k, since |-> n], q)
    <2>1. PICK i : i = [pc |-> p, record |-> k, since |-> n]
      OBVIOUS
    <2>2. IsJob(i) /\ i.pc = p /\ i.record = k
      BY <2>1, JobFields
    <2>3. ExportFits(r, i, q)
      BY <1>3, <1>k, <2>2 DEF ExportFits
    <2> QED
      BY <2>1, <2>3
  <1>g. ASSUME NEW p \in {"waiting", "lost", "threw", "failed"}, JobPc(e, p),
               p = "threw" => j.pc \in {"volume", "settlements", "save", "mail"}
        PROVE  ExportInv'
    <2>1. PICK i : i = [pc |-> p, record |-> j.record, since |-> j.since]
      OBVIOUS
    <2>2. exportJob' = [exportJob EXCEPT ![e] = i]
      BY <1>j, <1>g, <2>1 DEF JobPc
    <2>3. p \in {"volume", "settlements", "save", "mail", "threw"} => j.record.downloadToken = r.downloadToken
      BY <1>2, <1>g DEF ExportFits
    <2>4. ExportFits(r, i, q)
      BY <1>3, <1>k, <1>g, <2>1, <2>3
    <2>5. ExportMove(e, r, i, q)
      BY <1>o, <1>g, <2>2 DEF ExportMove, JobPc
    <2>6. SectionsFit(i)
      BY <1>g, <2>1 DEF SectionsFit
    <2> QED
      BY <1>1, <1>g, <2>4, <2>5, <2>6, ExportMoves DEF JobPc
  <1>4. CASE requestExport(e)
    <2>1. PICK period \in {"daily", "monthly"}, from \in QueryDays \cup {None}, to \in QueryDays \cup {None} :
              /\ exportRow[e] = NoRow
              /\ exportRow' = [exportRow EXCEPT ![e] =
                     [NoRow EXCEPT !.status = "queued", !.period = period, !.dateFrom = from, !.dateTo = to]]
              /\ exportJob' = [exportJob EXCEPT ![e].pc = "adding"]
              /\ UNCHANGED <<today, links, lastToken, exportFaults>>
      BY <1>4 DEF requestExport
    <2>2. PICK n : n = [NoRow EXCEPT !.status = "queued", !.period = period, !.dateFrom = from, !.dateTo = to]
      OBVIOUS
    <2>3. r = NoRow
      BY <1>1, <2>1
    <2>4. n = [status |-> "queued", period |-> period, dateFrom |-> from, dateTo |-> to,
               downloadToken |-> r.downloadToken, expiresAt |-> r.expiresAt, file |-> r.file]
      <3>1. n = Requested(r, "queued", period, from, to)
        BY ONLY <2>2, <2>3 DEF Requested
      <3>2. IsRow(r)
        BY <1>3
      <3> QED
        BY ONLY <3>1, <3>2, WritesRequest
    <2>5. IsRow(n) /\ n.downloadToken = r.downloadToken /\ n.expiresAt = r.expiresAt /\ n.file = r.file
      BY <2>4, RowFields
    <2>6. PICK i : i = [pc |-> "adding", record |-> j.record, since |-> j.since]
      OBVIOUS
    <2>7. IsJob(i) /\ i.pc = "adding" /\ i.record = j.record
      BY <2>6, JobFields
    <2>8. ExportFits(n, i, q)
      BY <1>3, <2>5, <2>7 DEF ExportFits
    <2>9. exportJob' = [exportJob EXCEPT ![e] = i]
      BY <1>j, <2>1, <2>6
    <2>10. exportRow' = [exportRow EXCEPT ![e] = n] /\ UNCHANGED <<today, links, lastToken>>
      BY <2>1, <2>2
    <2>11. ExportMove(e, n, i, q)
      BY <1>o, <2>9, <2>10 DEF ExportMove
    <2>12. SectionsFit(i)
      BY <2>7 DEF SectionsFit
    <2> QED
      BY <1>1, <2>5, <2>8, <2>10, <2>11, <2>12, ExportMoves
  <1>5. CASE AddExportJob(e)
    <2>1. PICK p \in {"waiting", "lost"} : JobGoes(e, "adding", p) /\ UNCHANGED <<today, exportRow, links, lastToken>>
      BY <1>5 DEF AddExportJob
    <2> QED
      BY <1>g, <2>1 DEF JobGoes, JobPc
  <1>6. CASE StartExport(e)
    <2>1. PICK n : n = [r EXCEPT !.status = "processing"]
      OBVIOUS
    <2>2. n = [status |-> "processing", period |-> r.period, dateFrom |-> r.dateFrom, dateTo |-> r.dateTo,
               downloadToken |-> r.downloadToken, expiresAt |-> r.expiresAt, file |-> r.file]
      BY <1>3, <2>1, WritesRow
    <2>3. IsRow(n) /\ n.downloadToken = r.downloadToken /\ n.expiresAt = r.expiresAt /\ n.file = r.file
      BY <2>2, RowFields
    <2>4. PICK i : i = [pc |-> "volume", record |-> n, since |-> today]
      OBVIOUS
    <2>5. IsJob(i) /\ i.pc = "volume" /\ i.record = n
      BY <2>4, JobFields
    <2>6. ExportFits(n, i, q)
      BY <1>3, <2>3, <2>5 DEF ExportFits
    <2>7. /\ exportRow' = [exportRow EXCEPT ![e].status = "processing"]
          /\ exportJob' = [exportJob EXCEPT ![e] =
                 [pc |-> "volume", record |-> [exportRow[e] EXCEPT !.status = "processing"], since |-> today]]
          /\ UNCHANGED <<today, links, lastToken>>
      BY <1>6 DEF StartExport
    <2>8. exportRow' = [exportRow EXCEPT ![e] = n]
      BY <1>1, <2>1, <2>7
    <2>9. exportJob' = [exportJob EXCEPT ![e] = i]
      BY <1>1, <2>1, <2>4, <2>7
    <2>10. ExportMove(e, n, i, q)
      BY <1>o, <2>7, <2>8, <2>9 DEF ExportMove
    <2>11. SectionsFit(i)
      BY <2>5 DEF SectionsFit
    <2> QED
      BY <1>1, <2>3, <2>6, <2>7, <2>10, <2>11, ExportMoves
  <1>f. ASSUME NEW f
        PROVE  /\ IsRow([j.record EXCEPT !.file = f])
               /\ [j.record EXCEPT !.file = f].downloadToken = j.record.downloadToken
               /\ [j.record EXCEPT !.file = f].expiresAt = j.record.expiresAt
               /\ [j.record EXCEPT !.file = f].period = j.record.period
               /\ [j.record EXCEPT !.file = f].dateFrom = j.record.dateFrom
               /\ [j.record EXCEPT !.file = f].dateTo = j.record.dateTo
               /\ [j.record EXCEPT !.file = f].file = f
    <2>1. PICK n : n = [j.record EXCEPT !.file = f]
      OBVIOUS
    <2>2. PICK k : k = j.record
      OBVIOUS
    <2>3. n = [status |-> k.status, period |-> k.period, dateFrom |-> k.dateFrom, dateTo |-> k.dateTo,
               downloadToken |-> k.downloadToken, expiresAt |-> k.expiresAt, file |-> f]
      BY <1>3, <2>1, <2>2, WritesRow
    <2>4. /\ IsRow(n) /\ n.downloadToken = k.downloadToken /\ n.expiresAt = k.expiresAt
          /\ n.period = k.period /\ n.dateFrom = k.dateFrom /\ n.dateTo = k.dateTo /\ n.file = f
      BY <2>3, RowFields
    <2> QED
      BY <2>1, <2>2, <2>4
  <1>h. ASSUME NEW p \in {"settlements", "save", "threw"}, NEW f, NEW n, j.pc \in {"volume", "settlements"},
               IsFile(f), JobReads(e, p, j.record, f, n),
               SectionsFit([pc |-> p, record |-> [j.record EXCEPT !.file = f], since |-> n])
        PROVE  ExportInv'
    <2>1. PICK k : k = [j.record EXCEPT !.file = f]
      OBVIOUS
    <2>2. PICK i : i = [pc |-> p, record |-> k, since |-> n]
      OBVIOUS
    <2>3. j.record.downloadToken = r.downloadToken
      BY <1>2, <1>h DEF ExportFits
    <2>4. IsRow(k) /\ k.downloadToken = r.downloadToken /\ k.expiresAt \in Int /\ IsFile(k.file)
      BY <1>3, <1>f, <1>h, <2>1, <2>3
    <2>5. ExportFits(r, i, q) /\ SectionsFit(i)
      BY <1>h, <1>k, <2>1, <2>2, <2>4
    <2>6. ExportMove(e, r, i, q)
      BY <1>o, <1>h, <2>1, <2>2 DEF ExportMove, JobReads
    <2> QED
      BY <1>1, <1>h, <2>5, <2>6, ExportMoves DEF JobReads
  <1>7. CASE ReadVolume(e)
    <2>1. PICK x : x = resolveVolumeRange(j.record.period, j.record.dateFrom, j.record.dateTo)
      OBVIOUS
    <2>2. PICK p : p = IF x.valid THEN "settlements" ELSE "threw"
      OBVIOUS
    <2>3. /\ j.pc = "volume" /\ UNCHANGED <<today, exportRow, links, lastToken>>
          /\ exportJob' = VolumeRead(exportJob, e, p, x, today)
      BY <1>1, <1>7, <2>1, <2>2 DEF ReadVolume, VolumeRead
    <2>4. PICK F : F = exportJob
      OBVIOUS
    <2>9. PICK f : f = [j.record.file EXCEPT !.volume = x]
      OBVIOUS
    <2>5. WithFile(F, e, p, today, [F[e].record.file EXCEPT !.volume = x], VolumeRead(F, e, p, x, today))
      <3>1. OverExports(F) /\ IsJob(F[e]) /\ IsRow(F[e].record) /\ e \in Exports
        BY <1>t, <1>1, <1>3, <2>4 DEF OverExports
      <3> QED
        BY ONLY <3>1, WritesFile
    <2>6. exportJob' = [exportJob EXCEPT ![e] =
                            [pc |-> p, record |-> [j.record EXCEPT !.file = f], since |-> today]]
      BY <1>1, <2>3, <2>4, <2>5, <2>9 DEF WithFile
    <2>10. IsFile(f) /\ f.volume = x
      BY <1>3, <2>9 DEF IsFile
    <2>11. PICK k, i : k = [j.record EXCEPT !.file = f] /\ i = [pc |-> p, record |-> k, since |-> today]
      OBVIOUS
    <2>12. SectionsFit(i)
      <3>1. /\ k.period = j.record.period /\ k.dateFrom = j.record.dateFrom
            /\ k.dateTo = j.record.dateTo /\ k.file = f
        BY <1>f, <2>11
      <3>2. i.pc = p /\ i.record = k /\ i.since = today
        BY <2>11, JobFields
      <3>3. VolumeFits(k)
        BY <2>1, <2>10, <3>1 DEF VolumeFits
      <3> QED
        BY <1>t, <2>2, <3>2, <3>3 DEF SectionsFit
    <2>7. p \in {"settlements", "save", "threw"} /\ j.pc \in {"volume", "settlements"}
      BY <2>2, <2>3
    <2>8. JobReads(e, p, j.record, f, today)
      BY <2>3, <2>6 DEF JobReads
    <2> QED
      BY <1>h, <2>7, <2>8, <2>10, <2>11, <2>12
  <1>8. CASE ReadSettlements(e)
    <2>1. PICK x : x = resolveRange(j.record.period, j.record.dateFrom, j.record.dateTo)
      OBVIOUS
    <2>2. PICK p : p = IF x.valid THEN "save" ELSE "threw"
      OBVIOUS
    <2>3. /\ j.pc = "settlements" /\ UNCHANGED <<today, exportRow, links, lastToken>>
          /\ exportJob' = SettlementsRead(exportJob, e, p, x)
      BY <1>1, <1>8, <2>1, <2>2 DEF ReadSettlements, SettlementsRead
    <2>4. PICK F : F = exportJob
      OBVIOUS
    <2>9. PICK f : f = [j.record.file EXCEPT !.settlements = x]
      OBVIOUS
    <2>5. WithFile(F, e, p, F[e].since, [F[e].record.file EXCEPT !.settlements = x], SettlementsRead(F, e, p, x))
      <3>1. OverExports(F) /\ IsJob(F[e]) /\ IsRow(F[e].record) /\ e \in Exports
        BY <1>t, <1>1, <1>3, <2>4 DEF OverExports
      <3> QED
        BY ONLY <3>1, WritesFile
    <2>6. exportJob' = [exportJob EXCEPT ![e] =
                            [pc |-> p, record |-> [j.record EXCEPT !.file = f], since |-> j.since]]
      BY <1>1, <2>3, <2>4, <2>5, <2>9 DEF WithFile
    <2>10. IsFile(f) /\ f.volume = j.record.file.volume /\ f.settlements = x
      BY <1>3, <2>9 DEF IsFile
    <2>11. PICK k, i : k = [j.record EXCEPT !.file = f] /\ i = [pc |-> p, record |-> k, since |-> j.since]
      OBVIOUS
    <2>12. SectionsFit(i)
      <3>1. k.dateTo = j.record.dateTo /\ k.file = f
        BY <1>f, <2>11
      <3>2. i.pc = p /\ i.record = k /\ i.since = j.since
        BY <2>11, JobFields
      <3>3. SectionsFit(j)
        BY <1>1 DEF ExportInv
      <3>4. x = resolveVolumeRange(j.record.period, j.record.dateFrom, j.record.dateTo)
        BY <2>1, SameRange
      <3>5. j.since \in Int /\ ((k.file.volume = k.file.settlements) \/ PastMidnight(i))
        BY <2>3, <2>10, <3>1, <3>2, <3>3, <3>4 DEF SectionsFit, VolumeFits, PastMidnight
      <3> QED
        BY <2>2, <3>2, <3>5 DEF SectionsFit
    <2>7. p \in {"settlements", "save", "threw"} /\ j.pc \in {"volume", "settlements"}
      BY <2>2, <2>3
    <2>8. JobReads(e, p, j.record, f, j.since)
      BY <2>3, <2>6 DEF JobReads
    <2> QED
      BY <1>h, <2>7, <2>8, <2>10, <2>11, <2>12
  <1>9. CASE SaveReady(e)
    <2>1. PICK n : n = [j.record EXCEPT !.status = "ready", !.expiresAt = today + 1, !.downloadToken = lastToken + 1]
      OBVIOUS
    <2>2. PICK k : k = j.record
      OBVIOUS
    <2>3. PICK x : x = today + 1
      OBVIOUS
    <2>4. PICK c : c = lastToken + 1
      OBVIOUS
    <2>5. n = [status |-> "ready", period |-> k.period, dateFrom |-> k.dateFrom, dateTo |-> k.dateTo,
               downloadToken |-> c, expiresAt |-> x, file |-> k.file]
      <3>1. n = Announced(k, "ready", x, c)
        BY ONLY <2>1, <2>2, <2>3, <2>4 DEF Announced
      <3>2. IsRow(k)
        BY <1>3, <2>2
      <3> QED
        BY ONLY <3>1, <3>2, WritesReady
    <2>6. IsRow(n) /\ n.status = "ready" /\ n.downloadToken = c /\ n.expiresAt = x /\ n.file = k.file
      BY <2>5, RowFields
    <2>7. x \in Int /\ c \in Nat /\ c # 0
      BY <1>t, <2>3, <2>4
    <2>8. PICK i : i = [j EXCEPT !.pc = "mail", !.record = n]
      OBVIOUS
    <2>9. i = [pc |-> "mail", record |-> n, since |-> j.since]
      BY <1>3, <2>8, WritesJob
    <2>10. IsJob(i) /\ i.pc = "mail" /\ i.record = n
      BY <2>9, JobFields
    <2>11. ExportFits(n, i, q) /\ SectionsFit(i)
      BY <1>3, <2>2, <2>6, <2>7, <2>10 DEF ExportFits, SectionsFit
    <2>12. /\ lastToken' = lastToken + 1 /\ UNCHANGED <<today, links>>
           /\ exportRow' = [exportRow EXCEPT ![e] = n]
           /\ exportJob' = [exportJob EXCEPT ![e].pc = "mail", ![e].record = n]
      BY <1>1, <1>9, <2>1 DEF SaveReady
    <2>13. [exportJob EXCEPT ![e].pc = "mail", ![e].record = n] = [exportJob EXCEPT ![e] = i]
      <3>1. PICK F : F = [exportJob EXCEPT ![e].pc = "mail"]
        OBVIOUS
      <3>2. PICK m : m = [pc |-> "mail", record |-> j.record, since |-> j.since]
        OBVIOUS
      <3>3. F = [exportJob EXCEPT ![e] = m]
        BY <1>j, <3>1, <3>2
      <3>4. F[e] = m /\ F = [d \in Exports |-> F[d]] /\ \A d \in Exports : d # e => F[d] = exportJob[d]
        BY <1>t, <3>3
      <3>5. [m EXCEPT !.record = n] = i
        BY ONLY <3>2, <2>9
      <3>6. [F EXCEPT ![e].record = n] = [F EXCEPT ![e] = i]
        BY ONLY <3>4, <3>5
      <3>7. [F EXCEPT ![e] = i] = [exportJob EXCEPT ![e] = i]
        BY <1>t, <3>3
      <3>8. [exportJob EXCEPT ![e].pc = "mail", ![e].record = n] = [F EXCEPT ![e].record = n]
        BY ONLY <3>1
      <3> QED
        BY ONLY <3>6, <3>7, <3>8
    <2>14. ExportMove(e, n, i, q)
      BY <1>o, <2>12, <2>13 DEF ExportMove
    <2>15. n.downloadToken = lastToken + 1 /\ lastToken' = lastToken + 1
      BY <2>4, <2>6, <2>12
    <2> QED
      BY <2>11, <2>14, <2>15, ExportMoves
  <1>a. ASSUME j.pc = "mail"
        PROVE  \E s : /\ s = Append(q, j.record.downloadToken) /\ s \in Seq(Nat)
                      /\ Len(s) > 0 /\ s[Len(s)] = r.downloadToken
    <2>1. j.record.downloadToken = r.downloadToken
      BY <1>2, <1>a DEF ExportFits
    <2>2. PICK s : s = Append(q, r.downloadToken)
      OBVIOUS
    <2>3. s \in Seq(Nat) /\ Len(s) = Len(q) + 1 /\ s[Len(q) + 1] = r.downloadToken /\ Len(q) \in Nat
      BY <1>3, <2>2
    <2>4. Len(s) > 0 /\ s[Len(s)] = r.downloadToken
      BY <2>3
    <2>5. s = Append(q, j.record.downloadToken)
      BY <2>1, <2>2
    <2> QED
      BY <2>3, <2>4, <2>5
  <1>10. CASE MailLink(e)
    <2>1. /\ j.pc = "mail" /\ exportJob' = [exportJob EXCEPT ![e].pc = "completed"]
          /\ links' = [links EXCEPT ![e] = Append(@, exportJob[e].record.downloadToken)]
          /\ UNCHANGED <<today, exportRow, lastToken>>
      BY <1>1, <1>10 DEF MailLink, JobGoes
    <2>2. PICK s : /\ s = Append(q, j.record.downloadToken) /\ s \in Seq(Nat)
                   /\ Len(s) > 0 /\ s[Len(s)] = r.downloadToken
      BY <1>a, <2>1
    <2>3. PICK i : i = [pc |-> "completed", record |-> j.record, since |-> j.since]
      OBVIOUS
    <2>4. IsJob(i) /\ i.pc = "completed" /\ i.record = j.record
      BY <2>3, JobFields
    <2>5. r.status = "ready" /\ r.downloadToken # 0
      BY <1>2, <2>1 DEF ExportFits
    <2>6. ExportFits(r, i, s) /\ SectionsFit(i)
      BY <1>3, <2>2, <2>4, <2>5 DEF ExportFits, SectionsFit
    <2>7. exportJob' = [exportJob EXCEPT ![e] = i]
      BY <1>j, <2>1, <2>3
    <2>8. links' = [links EXCEPT ![e] = s]
      BY <1>1, <2>1, <2>2
    <2>9. ExportMove(e, r, i, s)
      BY <1>o, <2>1, <2>7, <2>8 DEF ExportMove
    <2> QED
      BY <1>1, <2>1, <2>6, <2>9, ExportMoves
  <1>11. CASE ExportThrows(e)
    BY <1>1, <1>11, <1>g DEF ExportThrows, JobPc
  <1>12. CASE SaveFailed(e)
    <2>1. /\ j.pc = "threw" /\ exportJob' = [exportJob EXCEPT ![e].pc = "failed"]
          /\ UNCHANGED <<today, links, lastToken>>
      BY <1>1, <1>12 DEF SaveFailed, JobGoes
    <2>2. CASE UNCHANGED exportRow
      <3>1. JobPc(e, "failed")
        BY <2>1, <2>2 DEF JobPc
      <3> QED
        BY <1>g, <3>1
    <2>3. CASE exportRow' = [exportRow EXCEPT ![e] = [exportJob[e].record EXCEPT !.status = "failed"]]
      <3>1. PICK k : k = j.record
        OBVIOUS
      <3>2. PICK n : n = [k EXCEPT !.status = "failed"]
        OBVIOUS
      <3>3. n = [status |-> "failed", period |-> k.period, dateFrom |-> k.dateFrom, dateTo |-> k.dateTo,
                 downloadToken |-> k.downloadToken, expiresAt |-> k.expiresAt, file |-> k.file]
        BY <1>3, <3>1, <3>2, WritesRow
      <3>4. IsRow(n) /\ n.downloadToken = k.downloadToken /\ n.expiresAt = k.expiresAt /\ n.file = k.file
        BY <3>3, RowFields
      <3>5. k.downloadToken = r.downloadToken
        BY <1>2, <2>1, <3>1 DEF ExportFits
      <3>6. PICK i : i = [pc |-> "failed", record |-> j.record, since |-> j.since]
        OBVIOUS
      <3>7. IsJob(i) /\ i.pc = "failed" /\ i.record = j.record
        BY <3>6, JobFields
      <3>8. n.downloadToken = r.downloadToken /\ n.expiresAt \in Int
        BY <1>3, <3>1, <3>4, <3>5
      <3>9. ExportFits(n, i, q) /\ SectionsFit(i)
        BY <1>3, <3>1, <3>4, <3>7, <3>8 DEF ExportFits, SectionsFit
      <3>10. exportJob' = [exportJob EXCEPT ![e] = i]
        BY <1>j, <2>1, <3>6
      <3>11. exportRow' = [exportRow EXCEPT ![e] = n]
        BY <1>1, <2>3, <3>1, <3>2
      <3>12. ExportMove(e, n, i, q)
        BY <1>o, <2>1, <3>10, <3>11 DEF ExportMove
      <3> QED
        BY <1>1, <2>1, <3>8, <3>9, <3>12, ExportMoves
    <2> QED
      BY <1>12, <2>2, <2>3 DEF SaveFailed
  <1>w. PICK w : w = [NoExportJob EXCEPT !.pc = "waiting"]
    OBVIOUS
  <1>x. /\ IsJob(w) /\ w.pc = "waiting" /\ IsRow(w.record) /\ w.record.expiresAt \in Int
        /\ IsFile(w.record.file)
    BY <1>w, JobFields DEF NoExportJob, NoRow, IsRow, IsFile
  <1>13. CASE ExportDies(e)
    BY <1>13, <1>w, <1>3, <1>x, <1>o, <1>1, ExportMoves DEF ExportDies, ExportFits, SectionsFit,
       ExportMove
  <1>14. CASE ExportDiesMailed(e)
    <2>1. /\ j.pc = "mail" /\ exportJob' = [exportJob EXCEPT ![e] = w]
          /\ links' = [links EXCEPT ![e] = Append(@, exportJob[e].record.downloadToken)]
          /\ UNCHANGED <<today, exportRow, lastToken>>
      BY <1>1, <1>14, <1>w DEF ExportDiesMailed
    <2>2. PICK s : /\ s = Append(q, j.record.downloadToken) /\ s \in Seq(Nat)
                   /\ Len(s) > 0 /\ s[Len(s)] = r.downloadToken
      BY <1>a, <2>1
    <2>3. ExportFits(r, w, s) /\ SectionsFit(w)
      BY <1>3, <1>x, <2>2 DEF ExportFits, SectionsFit
    <2>4. links' = [links EXCEPT ![e] = s]
      BY <1>1, <2>1, <2>2
    <2>5. ExportMove(e, r, w, s)
      BY <1>o, <2>1, <2>4 DEF ExportMove
    <2> QED
      BY <1>1, <2>1, <2>3, <2>5, ExportMoves
  <1> QED
    BY <1>4, <1>5, <1>6, <1>7, <1>8, <1>9, <1>10, <1>11, <1>12, <1>13, <1>14 DEF ExportStep

\* No report of AnalyticsService moves the day by anything but midnight.
ExportIdle == today' \in {today, today + 1} /\ UNCHANGED <<exportRow, exportJob, links, lastToken>>

\* Midnight, and the reports, touch no export.
LEMMA ExportRests == ExportInv /\ ExportIdle => ExportInv'
  <1> SUFFICES ASSUME ExportInv, ExportIdle PROVE ExportInv'
    OBVIOUS
  <1>1. today' \in Int /\ today \in Int /\ today <= today'
    BY DEF ExportInv, ExportIdle
  <1>2. ASSUME NEW e \in Exports PROVE SectionsFit(exportJob[e])'
    <2>1. PICK j : j = exportJob[e]
      OBVIOUS
    <2>2. SectionsFit(j) /\ exportJob'[e] = j
      BY <2>1 DEF ExportInv, ExportIdle
    <2>3. CASE today' = today
      BY <2>2, <2>3 DEF SectionsFit, VolumeFits, PastMidnight, resolveVolumeRange, Truncate, startOfUtcMonth,
                        MonthOf, addUtcDays, addUtcMonths
    <2>4. CASE today' = today + 1
      <3>1. j.pc \in {"settlements", "save"} /\ PastMidnight(j) => j.record.dateTo = None /\ j.since < today'
        BY <1>1, <2>2, <2>4 DEF PastMidnight, SectionsFit
      <3>2. j.pc = "settlements" /\ j.record.dateTo = None => j.since < today'
        BY <1>1, <2>2, <2>4 DEF SectionsFit
      <3>3. j.pc = "settlements" => j.since \in Int /\ j.since <= today'
        BY <1>1, <2>2 DEF SectionsFit
      <3>4. CASE j.pc = "settlements" /\ VolumeFits(j.record) /\ j.record.dateTo # None
        BY <2>2, <3>3, <3>4 DEF SectionsFit, VolumeFits, resolveVolumeRange, Truncate, startOfUtcMonth,
                                MonthOf, addUtcDays, addUtcMonths
      <3>5. CASE j.pc = "settlements" /\ j.record.dateTo = None
        BY <2>2, <3>2, <3>3, <3>5 DEF SectionsFit, PastMidnight
      <3>6. CASE j.pc = "save"
        BY <2>2, <3>1, <3>6 DEF SectionsFit, PastMidnight
      <3>7. CASE j.pc \notin {"settlements", "save"}
        BY <2>2, <3>7 DEF SectionsFit
      <3> QED
        BY <2>2, <3>4, <3>5, <3>6, <3>7 DEF SectionsFit, PastMidnight
    <2> QED
      BY <2>3, <2>4 DEF ExportIdle
  <1> QED
    BY <1>1, <1>2 DEF ExportInv, ExportIdle

ExportSide == [ExportNext]_exportVars \/ ExportIdle

\* The invariant is kept by every step.
LEMMA ExportInvStep == ExportInv /\ ExportSide => ExportInv'
  <1> SUFFICES ASSUME ExportInv, ExportSide PROVE ExportInv'
    OBVIOUS
  <1>1. CASE \E e \in Exports : ExportStep(e)
    BY <1>1, ExportSteps
  <1>2. CASE ExportDay
    <2>1. ExportIdle
      BY <1>2 DEF ExportDay, NewDay, ExportIdle
    <2> QED
      BY <2>1, ExportRests
  <1>3. CASE UNCHANGED exportVars
    BY <1>3, ExportRests DEF exportVars, ExportIdle
  <1>4. CASE ExportIdle
    BY <1>4, ExportRests
  <1> QED
    BY <1>1, <1>2, <1>3, <1>4 DEF ExportSide, ExportNext

\* The link mailed last is the token of the row alone.
LEMMA ExportKept == ExportInv => AnnouncedLinkWorks
  <1> SUFFICES ASSUME ExportInv, NEW e \in Exports, exportJob[e].pc = "completed"
               PROVE  getDownloadByToken(Last(links[e])) =
                          IF today <= exportRow[e].expiresAt THEN "file" ELSE "gone"
    BY DEF AnnouncedLinkWorks
  <1>1. ExportFits(exportRow[e], exportJob[e], links[e]) /\ today \in Int
    BY DEF ExportInv
  <1>2. PICK k : k = Last(links[e])
    OBVIOUS
  <1>3. k = exportRow[e].downloadToken /\ k # 0 /\ exportRow[e].status = "ready"
    BY <1>1, <1>2 DEF ExportFits, Last
  <1>4. exportRow[e].expiresAt \in Int
    BY <1>1 DEF ExportFits
  <1>5. {d \in Exports : exportRow[d].downloadToken = k /\ exportRow[d].status = "ready"} = {e}
    BY <1>3 DEF ExportInv
  <1>6. getDownloadByToken(k) = IF exportRow[e].expiresAt < today THEN "gone" ELSE "file"
    BY <1>5 DEF getDownloadByToken
  <1> QED
    BY <1>1, <1>2, <1>4, <1>6

\* So do the sections of a finished report.
LEMMA SectionsKept == ExportInv => SectionsAgree
  BY DEF ExportInv, SectionsFit, PastMidnight, SectionsAgree, Report

--------------------------------------------------------------------------------
(* Reports                                                                 *)

\* A report has its six fields.
IsReport(r) ==
    r = [kind |-> r.kind, period |-> r.period, merchant |-> r.merchant, cur |-> r.cur,
         prev |-> r.prev, got |-> r.got]

\* A range of days or of whole months.
RangeFits(r) ==
    /\ r.period \in {"daily", "monthly"}
    /\ r.cur.start \in Int /\ r.cur.endExclusive \in Int
    /\ r.period = "monthly" => \E k \in DOMAIN MonthStarts : r.cur.start = MonthStarts[k]

\* The period before is as long as the one shown.
PeriodsFit(r) ==
    /\ r.prev.endExclusive = r.cur.start
    /\ Cardinality(Buckets(r.period, r.prev)) = Cardinality(Buckets(r.period, r.cur))

\* Today is in the calendar, the view holds payments, and a report begins its range
\* at a day or at the first day of a month.
ReportInv ==
    /\ today \in FirstDay .. LastDay
    /\ mvPayments \subseteq Payments
    /\ report.kind # "none" => IsReport(report)
    /\ report.kind \in {"revenue", "volume"} => RangeFits(report)
    /\ report.kind \in {"revenue", "comparison", "funnel"} => PeriodsFit(report)

\* The month of a day after the first of the calendar is the last that has begun.
LEMMA MonthIs ==
  ASSUME NEW d \in Int, NEW k \in DOMAIN MonthStarts, MonthStarts[k] <= d
  PROVE  /\ MonthOf(d) \in DOMAIN MonthStarts
         /\ MonthOf(d) \in Nat /\ k <= MonthOf(d)
         /\ MonthStarts[MonthOf(d)] \in Int
         /\ MonthStarts[MonthOf(d)] <= d
         /\ MonthStarts[k] <= MonthStarts[MonthOf(d)]
  <1>1. /\ MonthStarts \in Seq(Int) /\ DOMAIN MonthStarts = 1 .. Len(MonthStarts) /\ Len(MonthStarts) \in Nat
        /\ \A i, j \in DOMAIN MonthStarts : i < j => MonthStarts[i] < MonthStarts[j]
    BY AnalyticsAssumption DEF AnalyticsAssumption
  <1>2. PICK M : M = {m \in DOMAIN MonthStarts : MonthStarts[m] <= d}
    OBVIOUS
  <1>3. M \in SUBSET Nat /\ M # {} /\ \A m \in M : m <= Len(MonthStarts)
    BY <1>1, <1>2
  <1>4. \E n \in M : \A m \in M : n >= m
    BY <1>1, <1>3, Greatest
  <1>5. MonthOf(d) \in M /\ \A m \in M : MonthOf(d) >= m
    BY <1>2, <1>4 DEF MonthOf, Max
  <1>6. k \in M
    BY <1>2
  <1>7. MonthStarts[MonthOf(d)] \in Int /\ MonthStarts[k] \in Int
    BY <1>1, <1>2, <1>5
  <1> QED
    BY <1>1, <1>2, <1>3, <1>5, <1>6, <1>7

\* The first day of a month is its own.
LEMMA FirstOfMonth ==
  ASSUME NEW k \in DOMAIN MonthStarts
  PROVE  MonthOf(MonthStarts[k]) = k /\ MonthStarts[k] \in Int /\ startOfUtcMonth(MonthStarts[k]) = MonthStarts[k]
  <1>1. /\ MonthStarts \in Seq(Int) /\ DOMAIN MonthStarts = 1 .. Len(MonthStarts)
        /\ \A i, j \in DOMAIN MonthStarts : i < j => MonthStarts[i] < MonthStarts[j]
    BY AnalyticsAssumption DEF AnalyticsAssumption
  <1>2. MonthStarts[k] \in Int
    BY <1>1
  <1>3. PICK m : m = MonthOf(MonthStarts[k])
    OBVIOUS
  <1>4. m \in DOMAIN MonthStarts /\ m \in Nat /\ k <= m /\ MonthStarts[m] <= MonthStarts[k] /\ MonthStarts[m] \in Int
    BY <1>2, <1>3, MonthIs
  <1>5. m = k
    BY <1>1, <1>2, <1>4
  <1> QED
    BY <1>2, <1>3, <1>5 DEF startOfUtcMonth

\* The bucket of a day of the range is a bucket of the range.
LEMMA BucketOf ==
  ASSUME NEW r, RangeFits(r), NEW d \in Int, r.cur.start <= d, d < r.cur.endExclusive
  PROVE  Truncate(r.period, d) \in Buckets(r.period, r.cur)
  <1>0. r.cur.start \in Int /\ r.cur.endExclusive \in Int
    BY DEF RangeFits
  <1>1. CASE r.period = "daily"
    BY <1>0, <1>1 DEF Buckets, Truncate
  <1>2. CASE r.period = "monthly"
    <2>1. PICK k \in DOMAIN MonthStarts : r.cur.start = MonthStarts[k]
      BY <1>2 DEF RangeFits
    <2>2. PICK m : m = MonthOf(d)
      OBVIOUS
    <2>3. /\ m \in DOMAIN MonthStarts /\ MonthStarts[m] \in Int
          /\ MonthStarts[m] <= d /\ r.cur.start <= MonthStarts[m]
      BY <2>1, <2>2, MonthIs
    <2>4. Truncate(r.period, d) = MonthStarts[m] /\ Truncate(r.period, MonthStarts[m]) = MonthStarts[m]
      BY <1>2, <2>2, <2>3, FirstOfMonth DEF Truncate, startOfUtcMonth
    <2>5. MonthStarts[m] \in r.cur.start .. r.cur.endExclusive - 1
      BY <1>0, <2>3
    <2> QED
      BY <2>4, <2>5 DEF Buckets
  <1> QED
    BY <1>1, <1>2 DEF RangeFits

\* The rows a series counts, as a sum of a function.
CountIn(series) == MapThenSumSet(LAMBDA b : series[b].count, DOMAIN series)

LEMMA SeriesSums ==
  ASSUME NEW series, NEW D, D = DOMAIN series, IsFiniteSet(D)
  PROVE  CountIn(series) = SumOver([b \in D |-> series[b].count], D)
  <1>1. PICK f : f = [b \in D |-> series[b].count]
    OBVIOUS
  <1> DEFINE P(g) == g = [s \in SUBSET D |-> IF s = {} THEN 0
                            ELSE series[CHOOSE x \in s : TRUE].count + g[s \ {CHOOSE x \in s : TRUE}]]
  <1>2. ASSUME NEW g PROVE Sums(f, D, g) <=> P(g)
    <2>1. \A s \in SUBSET D : s # {} => f[Some(s)] = series[CHOOSE x \in s : TRUE].count
      BY <1>1 DEF Some
    <2>2. [s \in SUBSET D |-> IF s = {} THEN 0 ELSE f[Some(s)] + g[s \ {Some(s)}]]
            = [s \in SUBSET D |-> IF s = {} THEN 0
                  ELSE series[CHOOSE x \in s : TRUE].count + g[s \ {CHOOSE x \in s : TRUE}]]
      BY <2>1 DEF Some
    <2> QED
      BY <2>2 DEF Sums
  <1>3. PICK h : Sums(f, D, h)
    BY SumsExist
  <1>4. CountIn(series) = (CHOOSE g : P(g))[D]
    BY DEF CountIn, MapThenSumSet, MapThenFoldSet
  <1> HIDE DEF P
  <1>5. P(h)
    BY <1>2, <1>3
  <1>6. P(CHOOSE g : P(g))
    BY <1>5
  <1>7. Sums(f, D, CHOOSE g : P(g))
    BY <1>2, <1>6
  <1>8. Sums(f, D, CHOOSE g : Sums(f, D, g))
    BY <1>3
  <1>9. (CHOOSE g : P(g))[D] = (CHOOSE g : Sums(f, D, g))[D]
    <2>1. D \in SUBSET D
      OBVIOUS
    <2> QED
      BY <1>7, <1>8, <2>1, SumsAgree
  <1> QED
    BY <1>1, <1>4, <1>9, SumOverDef

\* A series over the rows of its range counts each of them once.
LEMMA SeriesCounts ==
  ASSUME NEW r, RangeFits(r), NEW K, IsFiniteSet(K),
         \A x \in K : DayOf(x) \in Int /\ r.cur.start <= DayOf(x) /\ DayOf(x) < r.cur.endExclusive,
         NEW series, series = buildSeries(r.period, r.cur, GroupByBucket(r.period, K))
  PROVE  CountIn(series) = Cardinality(K)
  <1>1. PICK B : B = Buckets(r.period, r.cur)
    OBVIOUS
  <1>2. IsFiniteSet(B)
    <2>1. r.cur.start \in Int /\ r.cur.endExclusive - 1 \in Int
      BY DEF RangeFits
    <2>2. IsFiniteSet(r.cur.start .. r.cur.endExclusive - 1)
      BY <2>1, FS_Interval
    <2> QED
      BY <1>1, <2>2, FS_Subset DEF Buckets
  <1>3. PICK t : t = [x \in K |-> Truncate(r.period, DayOf(x))]
    OBVIOUS
  <1>4. \A x \in K : t[x] = Truncate(r.period, DayOf(x)) /\ t[x] \in B
    BY <1>1, <1>3, BucketOf
  <1>5. PICK filled : filled = GroupByBucket(r.period, K)
    OBVIOUS
  <1>6. /\ DOMAIN filled = {Truncate(r.period, DayOf(x)) : x \in K}
        /\ \A b \in DOMAIN filled : filled[b].count = Cardinality({x \in K : Truncate(r.period, DayOf(x)) = b})
    BY <1>5 DEF GroupByBucket
  <1>7. /\ DOMAIN series = B
        /\ \A b \in B : series[b] = IF b \in DOMAIN filled THEN filled[b] ELSE [usd |-> 0, count |-> 0]
    BY <1>1, <1>5 DEF buildSeries
  <1>8. ASSUME NEW b \in B
        PROVE  series[b].count = Cardinality({x \in K : t[x] = b})
    <2>1. {x \in K : t[x] = b} = {x \in K : Truncate(r.period, DayOf(x)) = b}
      BY <1>4
    <2>2. CASE b \in DOMAIN filled
      BY <1>6, <1>7, <2>1, <2>2
    <2>3. CASE b \notin DOMAIN filled
      <3>1. {x \in K : t[x] = b} = {}
        BY <1>4, <1>6, <2>3
      <3>2. series[b].count = 0
        BY <1>7, <2>3
      <3> QED
        BY <3>1, <3>2, FS_EmptySet
    <2> QED
      BY <2>2, <2>3
  <1>9. [b \in B |-> series[b].count] = [b \in B |-> Cardinality({x \in K : t[x] = b})]
    BY <1>8
  <1>10. SumOver([b \in B |-> Cardinality({x \in K : t[x] = b})], B) = Cardinality(K)
    BY <1>2, <1>4, CountByValue
  <1>11. CountIn(series) = SumOver([b \in B |-> series[b].count], B)
    BY <1>2, <1>7, SeriesSums
  <1> QED
    BY <1>7, <1>9, <1>10, <1>11

\* It holds at the start.
LEMMA ReportInitially == AnalyticsInit => ReportInv
  BY AnalyticsAssumption DEF AnalyticsAssumption, AnalyticsInit, ReportInv, NoReport

\* The dates a report may be asked for.
Dates == QueryDays \cup (FirstDay .. LastDay)

\* The month of a date, and where it lies in the calendar.
LEMMA MonthOfDate ==
  ASSUME NEW d \in Dates
  PROVE  /\ d \in Int /\ MonthOf(d) \in DOMAIN MonthStarts /\ MonthOf(d) \in Nat
         /\ MonthOf(d) < Len(MonthStarts) /\ 2 * DefaultMonths <= MonthOf(d)
         /\ \A e \in Dates : MonthOf(e) + 2 <= 2 * MonthOf(d)
         /\ MonthOf(startOfUtcMonth(d)) = MonthOf(d)
         /\ startOfUtcMonth(d) = MonthStarts[MonthOf(d)]
  <1>1. /\ d \in Int /\ MonthStarts[1] <= d
        /\ 2 * DefaultMonths <= MonthOf(d) /\ MonthOf(d) < Len(MonthStarts)
        /\ \A e \in Dates : MonthOf(e) + 2 <= 2 * MonthOf(d)
    BY AnalyticsAssumption, CalendarAssumption DEF AnalyticsAssumption, CalendarAssumption, Dates
  <1>2. 1 \in DOMAIN MonthStarts
    BY AnalyticsAssumption DEF AnalyticsAssumption
  <1>3. MonthOf(d) \in DOMAIN MonthStarts /\ MonthOf(d) \in Nat
    BY <1>1, <1>2, MonthIs
  <1> QED
    BY <1>1, <1>3, FirstOfMonth DEF startOfUtcMonth

\* A range of days; or of months, as far from the start of the calendar as it is long.
DayRange(cur) == cur.start \in Int /\ cur.last \in Int /\ cur.endExclusive = cur.last + 1
MonthRange(cur, a, b) ==
    /\ cur.start = MonthStarts[a] /\ cur.last = MonthStarts[b] /\ cur.endExclusive = MonthStarts[b + 1]
    /\ b + 2 <= 2 * a

\* The ranges that reports ask for.
LEMMA RangesFit ==
  ASSUME today \in FirstDay .. LastDay, NEW period \in {"daily", "monthly"},
         NEW from \in QueryDays \cup {None}, NEW to \in QueryDays \cup {None},
         NEW cur, cur = resolveVolumeRange(period, from, to)
  PROVE  /\ cur.valid <=> cur.start <= cur.last
         /\ period = "daily" => DayRange(cur)
         /\ period = "monthly" => \E a, b \in DOMAIN MonthStarts :
                                      b + 1 \in DOMAIN MonthStarts /\ MonthRange(cur, a, b)
  <1>1. PICK e, f : e = (IF to # None THEN to ELSE today) /\ f = from
    OBVIOUS
  <1>2. e \in Dates /\ e \in Int /\ (f # None => f \in Dates /\ f \in Int)
    BY <1>1, AnalyticsAssumption DEF Dates, AnalyticsAssumption
  <1>3. DefaultDays \in Nat \ {0} /\ DefaultMonths \in Nat \ {0} /\ Len(MonthStarts) \in Nat
        /\ DOMAIN MonthStarts = 1 .. Len(MonthStarts) /\ MonthStarts \in Seq(Int)
    BY AnalyticsAssumption DEF AnalyticsAssumption
  <1>v. cur.valid <=> cur.start <= cur.last
    BY DEF resolveVolumeRange
  <1>4. CASE period = "daily"
    BY <1>1, <1>4, <1>2, <1>3, <1>v DEF resolveVolumeRange, Truncate, addUtcDays, DayRange
  <1>5. CASE period = "monthly"
    <2>1. PICK m : m = MonthOf(e)
      OBVIOUS
    <2>2. /\ m \in Nat /\ m < Len(MonthStarts) /\ 2 * DefaultMonths <= m
          /\ MonthOf(startOfUtcMonth(e)) = m /\ startOfUtcMonth(e) = MonthStarts[m]
      BY <1>2, <2>1, MonthOfDate
    <2>3. cur.endExclusive = MonthStarts[m + 1] /\ cur.last = MonthStarts[m]
      BY <1>1, <1>5, <2>1, <2>2 DEF resolveVolumeRange, Truncate, addUtcMonths
    <2>4. cur.start = (IF f # None THEN startOfUtcMonth(f) ELSE MonthStarts[m + (1 - DefaultMonths)])
      BY <1>1, <1>5, <2>1, <2>2 DEF resolveVolumeRange, Truncate, addUtcMonths
    <2>5. m \in DOMAIN MonthStarts /\ m + 1 \in DOMAIN MonthStarts /\ m + (1 - DefaultMonths) \in DOMAIN MonthStarts
      BY <1>3, <2>2
    <2>6. \E a \in DOMAIN MonthStarts : cur.start = MonthStarts[a] /\ m + 2 <= 2 * a
      <3>1. CASE f # None
        BY <1>2, <2>1, <2>4, <3>1, MonthOfDate
      <3>2. CASE f = None
        <4>1. m + 2 <= 2 * (m + (1 - DefaultMonths))
          BY <1>3, <2>2
        <4> QED
          BY <2>4, <2>5, <3>2, <4>1
      <3> QED
        BY <3>1, <3>2
    <2>7. \E a, b \in DOMAIN MonthStarts : b + 1 \in DOMAIN MonthStarts /\ MonthRange(cur, a, b)
      BY <2>3, <2>5, <2>6 DEF MonthRange
    <2> QED
      BY <1>v, <1>5, <2>7
  <1> QED
    BY <1>4, <1>5

\* Between the first days of two months there are as many months as there should be.
LEMMA MonthsBetween ==
  ASSUME NEW i \in DOMAIN MonthStarts, NEW j \in DOMAIN MonthStarts, i <= j,
         NEW w, w.start = MonthStarts[i], w.endExclusive = MonthStarts[j]
  PROVE  Cardinality(Buckets("monthly", w)) = j - i
  <1>1. /\ DOMAIN MonthStarts = 1 .. Len(MonthStarts) /\ Len(MonthStarts) \in Nat
        /\ \A a, b \in DOMAIN MonthStarts : a < b => MonthStarts[a] < MonthStarts[b]
        /\ \A a \in DOMAIN MonthStarts : MonthStarts[a] \in Int
    BY AnalyticsAssumption DEF AnalyticsAssumption
  <1>2. PICK f : f = [k \in i .. j - 1 |-> MonthStarts[k]]
    OBVIOUS
  <1>3. PICK B : B = Buckets("monthly", w)
    OBVIOUS
  <1>4. B = {d \in MonthStarts[i] .. MonthStarts[j] - 1 : startOfUtcMonth(d) = d}
    BY <1>3 DEF Buckets, Truncate
  <1>5. ASSUME NEW k \in i .. j - 1 PROVE f[k] \in B
    BY <1>1, FirstOfMonth, <1>2, <1>4
  <1>6. ASSUME NEW d \in B PROVE \E k \in i .. j - 1 : f[k] = d
    <2>1. d \in Int /\ MonthStarts[i] <= d /\ d < MonthStarts[j] /\ startOfUtcMonth(d) = d
      BY <1>1, <1>4
    <2>2. PICK m : m = MonthOf(d)
      OBVIOUS
    <2>3. m \in DOMAIN MonthStarts /\ m \in Nat /\ i <= m
      BY <2>1, <2>2, MonthIs
    <2>4. MonthStarts[m] = d
      BY <2>1, <2>2 DEF startOfUtcMonth
    <2>5. m < j
      BY <1>1, <2>1, <2>3, <2>4
    <2>6. m \in i .. j - 1
      BY <1>1, <2>3, <2>5
    <2> QED
      BY <1>2, <2>4, <2>6
  <1>7. \A k, l \in i .. j - 1 : k # l => f[k] # f[l]
    <2>1. SUFFICES ASSUME NEW k \in i .. j - 1, NEW l \in i .. j - 1, k < l PROVE f[k] # f[l]
      BY <1>1
    <2>2. k \in DOMAIN MonthStarts /\ l \in DOMAIN MonthStarts
      BY <1>1
    <2> QED
      BY <1>1, <1>2, <2>1, <2>2
  <1>8. f \in [i .. j - 1 -> B]
    BY <1>2, <1>5
  <1>9. f \in Bijection(i .. j - 1, B)
    BY <1>6, <1>7, <1>8 DEF Bijection, Injection, Surjection, IsInjective
  <1>10. IsFiniteSet(i .. j - 1) /\ Cardinality(i .. j - 1) = j - i
    <2>1. PICK k : k = j - 1
      OBVIOUS
    <2>2. i \in Int /\ k \in Int /\ j \in Int
      BY <1>1, <2>1
    <2>3. IsFiniteSet(i .. k) /\ Cardinality(i .. k) = IF i > k THEN 0 ELSE k - i + 1
      BY <2>2, FS_Interval
    <2>4. (IF i > k THEN 0 ELSE k - i + 1) = j - i
      BY <2>1, <2>2
    <2> QED
      BY <2>1, <2>3, <2>4
  <1> QED
    BY <1>3, <1>9, <1>10, FS_Bijection DEF ExistsBijection

\* Days between days.
LEMMA DaysBetween ==
  ASSUME NEW w, w.start \in Int, w.endExclusive \in Int, w.start <= w.endExclusive
  PROVE  Cardinality(Buckets("daily", w)) = w.endExclusive - w.start
  <1>1. Buckets("daily", w) = w.start .. w.endExclusive - 1
    BY DEF Buckets, Truncate
  <1> QED
    BY <1>1, FS_Interval

\* The range before a range that is not empty.
LEMMA PreviousFits ==
  ASSUME NEW period \in {"daily", "monthly"}, NEW cur, cur.start <= cur.last,
         period = "daily" => DayRange(cur),
         period = "monthly" => \E a, b \in DOMAIN MonthStarts :
                                   b + 1 \in DOMAIN MonthStarts /\ MonthRange(cur, a, b),
         NEW prev, prev = resolvePreviousRange(period, cur)
  PROVE  /\ prev.endExclusive = cur.start
         /\ Cardinality(Buckets(period, prev)) = Cardinality(Buckets(period, cur))
  <1>0. prev.endExclusive = cur.start
    BY DEF resolvePreviousRange
  <1>1. CASE period = "daily"
    <2>1. prev.start = cur.start + (-((cur.last - cur.start) + 1))
      BY <1>1 DEF resolvePreviousRange, addUtcDays, diffUtcDays
    <2>2. cur.start \in Int /\ cur.last \in Int /\ cur.endExclusive = cur.last + 1
      BY <1>1 DEF DayRange
    <2>3. /\ prev.start \in Int /\ prev.start <= prev.endExclusive
          /\ prev.endExclusive - prev.start = cur.endExclusive - cur.start
      BY <1>0, <2>1, <2>2
    <2>4. Cardinality(Buckets("daily", prev)) = prev.endExclusive - prev.start
      BY <1>0, <2>2, <2>3, DaysBetween
    <2>5. Cardinality(Buckets("daily", cur)) = cur.endExclusive - cur.start
      BY <2>2, DaysBetween
    <2> QED
      BY <1>0, <1>1, <2>3, <2>4, <2>5
  <1>2. CASE period = "monthly"
    <2>1. PICK a, b \in DOMAIN MonthStarts : b + 1 \in DOMAIN MonthStarts /\ MonthRange(cur, a, b)
      BY <1>2
    <2>2. /\ DOMAIN MonthStarts = 1 .. Len(MonthStarts) /\ Len(MonthStarts) \in Nat
          /\ \A i, j \in DOMAIN MonthStarts : i < j => MonthStarts[i] < MonthStarts[j]
          /\ \A i \in DOMAIN MonthStarts : MonthStarts[i] \in Int
      BY AnalyticsAssumption DEF AnalyticsAssumption
    <2>3. a \in Nat /\ b \in Nat /\ a <= b /\ b + 2 <= 2 * a
      <3>1. MonthStarts[a] <= MonthStarts[b] /\ b + 2 <= 2 * a
        BY <2>1 DEF MonthRange
      <3> QED
        BY <2>2, <3>1
    <2>4. MonthOf(cur.start) = a /\ MonthOf(cur.last) = b
      BY <2>1, FirstOfMonth DEF MonthRange
    <2>5. prev.start = MonthStarts[a + (-((b - a) + 1))]
      BY <1>2, <2>4 DEF resolvePreviousRange, addUtcMonths, diffUtcMonths
    <2>6. PICK c : c = a - ((b - a) + 1)
      OBVIOUS
    <2>7. c \in DOMAIN MonthStarts /\ c <= a /\ a - c = (b + 1) - a /\ c = a + (-((b - a) + 1))
      BY <2>3, <2>6, <2>2
    <2>8. Cardinality(Buckets("monthly", prev)) = a - c
      BY <1>0, <2>1, <2>5, <2>7, MonthsBetween DEF MonthRange
    <2>9. Cardinality(Buckets("monthly", cur)) = (b + 1) - a
      <3>1. PICK n : n = b + 1
        OBVIOUS
      <3>2. n \in DOMAIN MonthStarts /\ a <= n /\ cur.start = MonthStarts[a] /\ cur.endExclusive = MonthStarts[n]
        BY <2>1, <2>3, <3>1 DEF MonthRange
      <3> QED
        BY <3>1, <3>2, MonthsBetween
    <2> QED
      BY <1>0, <1>2, <2>7, <2>8, <2>9
  <1> QED
    BY <1>1, <1>2

\* Today or this month, and the one before.
LEMMA BoundsFit ==
  ASSUME today \in FirstDay .. LastDay, NEW period \in {"daily", "monthly"},
         NEW cur, cur = getPeriodBounds(period).cur, NEW prev, prev = getPeriodBounds(period).prev
  PROVE  /\ prev.endExclusive = cur.start
         /\ Cardinality(Buckets(period, prev)) = Cardinality(Buckets(period, cur))
  <1>0. today \in Dates /\ today \in Int
    BY AnalyticsAssumption DEF AnalyticsAssumption, Dates
  <1>1. prev.endExclusive = cur.start
    BY DEF getPeriodBounds
  <1>2. CASE period = "daily"
    BY <1>2, <1>0, DaysBetween, <1>1 DEF getPeriodBounds, Truncate, addUtcDays
  <1>3. CASE period = "monthly"
    <2>1. PICK m : m = MonthOf(today)
      OBVIOUS
    <2>2. /\ m \in Nat /\ m < Len(MonthStarts) /\ 2 * DefaultMonths <= m
          /\ MonthOf(startOfUtcMonth(today)) = m /\ startOfUtcMonth(today) = MonthStarts[m]
      BY <1>0, <2>1, MonthOfDate
    <2>3. /\ cur.start = MonthStarts[m] /\ cur.endExclusive = MonthStarts[m + 1]
          /\ prev.start = MonthStarts[m + (-1)] /\ prev.endExclusive = MonthStarts[m]
      BY <1>3, <2>2 DEF getPeriodBounds, Truncate, addUtcMonths
    <2>4. /\ m \in DOMAIN MonthStarts /\ m + 1 \in DOMAIN MonthStarts /\ m + (-1) \in DOMAIN MonthStarts
      BY <2>2, AnalyticsAssumption DEF AnalyticsAssumption
    <2>5. Cardinality(Buckets("monthly", prev)) = m - (m + (-1))
      BY <2>2, <2>3, <2>4, MonthsBetween
    <2>6. Cardinality(Buckets("monthly", cur)) = (m + 1) - m
      BY <2>2, <2>3, <2>4, MonthsBetween
    <2> QED
      BY <1>1, <1>3, <2>2, <2>5, <2>6
  <1> QED
    BY <1>2, <1>3

\* A step of the tables or of the clock.
LEMMA ReportRests ==
  ASSUME ReportInv, UNCHANGED report, today' \in FirstDay .. LastDay, mvPayments' \subseteq Payments
  PROVE  ReportInv'
  BY DEF ReportInv, IsReport, RangeFits, PeriodsFit

\* Any step of the reports keeps the invariant.
LEMMA ReportInvStep == ReportInv /\ [AnalyticsNext]_analyticsVars => ReportInv'
  <1> SUFFICES ASSUME ReportInv, [AnalyticsNext]_analyticsVars PROVE ReportInv'
    OBVIOUS
  <1>0. /\ FirstDay \in Int /\ LastDay \in Int
        /\ today \in FirstDay .. LastDay /\ mvPayments \subseteq Payments
    BY AnalyticsAssumption DEF AnalyticsAssumption, ReportInv
  <1>1. CASE NewDay
    BY <1>0, <1>1, ReportRests DEF NewDay
  <1>2. CASE refreshMaterializedViews
    BY <1>0, <1>2, ReportRests DEF refreshMaterializedViews, Settled
  <1>3. ASSUME NEW p \in Payments, PaymentEnds(p) PROVE ReportInv'
    BY <1>0, <1>3, ReportRests DEF PaymentEnds
  <1>4. ASSUME NEW s \in Settlements, SettlementCompletes(s) PROVE ReportInv'
    BY <1>0, <1>4, ReportRests DEF SettlementCompletes
  <1>5. CASE StartRanged
    <2>0. PICK kind \in {"revenue", "volume"}, period \in {"daily", "monthly"},
               from \in QueryDays \cup {None}, to \in QueryDays \cup {None},
               m \in {RowMerchant[x] : x \in Payments} \cup {Admin} :
            /\ resolveVolumeRange(period, from, to).valid
            /\ StartReport([kind |-> kind, period |-> period, merchant |-> m, cur |-> resolveVolumeRange(period, from, to),
                         prev |-> resolvePreviousRange(period, resolveVolumeRange(period, from, to)), got |-> << >>])
      BY <1>5, ZenonT(30) DEF StartRanged
    <2>1. PICK cur : cur = resolveVolumeRange(period, from, to)
      OBVIOUS
    <2>r. /\ cur.start <= cur.last
          /\ period = "daily" => DayRange(cur)
          /\ period = "monthly" => \E a, b \in DOMAIN MonthStarts :
                                       b + 1 \in DOMAIN MonthStarts /\ MonthRange(cur, a, b)
      BY <1>0, <2>0, <2>1, RangesFit
    <2>2. /\ cur.start \in Int /\ cur.endExclusive \in Int
          /\ period = "monthly" => \E k \in DOMAIN MonthStarts : cur.start = MonthStarts[k]
      BY <2>r, FirstOfMonth DEF DayRange, MonthRange
    <2>3. PICK w : w = resolvePreviousRange(period, cur)
      OBVIOUS
    <2>4. /\ report' = [kind |-> kind, period |-> period, merchant |-> m, cur |-> cur, prev |-> w, got |-> << >>]
          /\ today' = today /\ mvPayments' = mvPayments
      BY <2>0, <2>1, <2>3 DEF StartReport
    <2>5. IsReport(report)' /\ RangeFits(report)'
      BY <2>2, <2>4 DEF IsReport, RangeFits
    <2>6. PeriodsFit(report)'
      BY <2>r, <2>3, PreviousFits, <2>4 DEF PeriodsFit
    <2> QED
      BY <1>0, <2>4, <2>5, <2>6 DEF ReportInv
  <1>6. CASE StartCurrent
    <2>1. PICK kind \in {"comparison", "funnel", "networks"}, period \in {"daily", "monthly"},
               m \in {RowMerchant[x] : x \in Payments} :
            StartReport([kind |-> kind, period |-> period, merchant |-> m,
                         cur |-> getPeriodBounds(period).cur, prev |-> getPeriodBounds(period).prev,
                         got |-> << >>])
      BY <1>6, ZenonT(30) DEF StartCurrent
    <2>2. PICK cur, w : cur = getPeriodBounds(period).cur /\ w = getPeriodBounds(period).prev
      OBVIOUS
    <2>3. /\ report' = [kind |-> kind, period |-> period, merchant |-> m, cur |-> cur, prev |-> w, got |-> << >>]
          /\ today' = today /\ mvPayments' = mvPayments
      BY <2>1, <2>2 DEF StartReport
    <2>4. report'.kind = kind /\ IsReport(report)'
      BY <2>3 DEF IsReport
    <2>5. PeriodsFit(report)'
      BY <1>0, <2>2, BoundsFit, <2>3 DEF PeriodsFit
    <2> QED
      BY <1>0, <2>3, <2>4, <2>5 DEF ReportInv
  <1>7. CASE ReadPart
    <2>1. PICK g : report' = [report EXCEPT !.got = g]
      BY <1>7, ZenonT(30) DEF ReadPart
    <2>2. IsReport(report) /\ today' = today /\ mvPayments' = mvPayments /\ report.kind # "none"
      BY <1>7 DEF ReadPart, ReportInv
    <2>3. /\ report'.kind = report.kind /\ report'.period = report.period
          /\ report'.cur = report.cur /\ report'.prev = report.prev
          /\ IsReport(report)'
      BY <2>1, <2>2 DEF IsReport
    <2> QED
      BY <1>0, <2>2, <2>3 DEF ReportInv, RangeFits, PeriodsFit
  <1>8. CASE Answer
    BY <1>8, <1>0 DEF Answer, NoReport, ReportInv
  <1>9. CASE UNCHANGED analyticsVars
    BY <1>0, <1>9, ReportRests DEF analyticsVars
  <1> QED
    BY <1>1, <1>2, <1>3, <1>4, <1>5, <1>6, <1>7, <1>8, <1>9 DEF AnalyticsNext

\* What a step that reads a volume counts.
VolumeStep ==
    (report.kind = "volume" /\ report.got = << >> /\ report'.kind = "volume" /\ report'.got # << >>) =>
        LET series == buildSeries(report.period, report.cur, report'.got["breakdown"])
            known == IF report.period = "daily" THEN mvPayments ELSE Settled
        IN  MapThenSumSet(LAMBDA b : series[b].count, DOMAIN series)
                = Cardinality(In(report.cur, Mine(report, known)))

LEMMA VolumeCounted == ReportInv /\ [AnalyticsNext]_analyticsVars => [VolumeStep]_analyticsVars
  <1> SUFFICES ASSUME ReportInv, [AnalyticsNext]_analyticsVars,
                      report.kind = "volume", report.got = << >>,
                      report'.kind = "volume", report'.got # << >>
               PROVE  VolumeStep
    BY DEF VolumeStep
  <1>1. report' # report
    OBVIOUS
  <1>2. ReadPart
    <2>1. ~NewDay /\ ~refreshMaterializedViews /\ ~UNCHANGED analyticsVars
      BY <1>1 DEF NewDay, refreshMaterializedViews, analyticsVars
    <2>2. ~Answer
      BY DEF Answer, NoReport
    <2>3. ~StartRanged /\ ~StartCurrent
      BY ZenonT(30) DEF StartRanged, StartCurrent, StartReport
    <2>4. \A p \in Payments : ~PaymentEnds(p)
      BY <1>1 DEF PaymentEnds
    <2>5. \A s \in Settlements : ~SettlementCompletes(s)
      BY <1>1 DEF SettlementCompletes
    <2> QED
      BY <2>1, <2>2, <2>3, <2>4, <2>5 DEF AnalyticsNext
  <1>3. PICK part \in PartsOf(report.kind) : report' = [report EXCEPT !.got =
            [q \in DOMAIN report.got \cup {part} |-> IF q = part THEN PartRead(report, q) ELSE report.got[q]]]
    BY <1>2, ZenonT(30) DEF ReadPart
  <1>4. part = "breakdown"
    BY DEF PartsOf
  <1>5. IsReport(report) /\ RangeFits(report) /\ mvPayments \subseteq Payments
    BY DEF ReportInv
  <1>6. report'.got["breakdown"] = PartRead(report, "breakdown")
    BY <1>3, <1>4, <1>5 DEF IsReport
  <1>7. PartRead(report, "breakdown") = getVolumeBreakdown(report)
    BY DEF PartRead
  <1>8. PICK known : known = IF report.period = "daily" THEN mvPayments ELSE Settled
    OBVIOUS
  <1>9. PICK K : K = In(report.cur, Mine(report, known))
    OBVIOUS
  <1>10. known \subseteq Payments
    BY <1>5, <1>8 DEF Settled
  <1>11. K \subseteq Payments /\ \A x \in K : report.cur.start <= DayOf(x) /\ DayOf(x) < report.cur.endExclusive
    BY <1>9, <1>10 DEF In, Mine
  <1>12. IsFiniteSet(K) /\ \A x \in K : DayOf(x) \in Int
    BY <1>11, AnalyticsAssumption, FS_Subset DEF AnalyticsAssumption, DayOf
  <1>13. report'.got["breakdown"] = GroupByBucket(report.period, K)
    BY <1>6, <1>7, <1>8, <1>9 DEF getVolumeBreakdown
  <1>14. PICK series : series = buildSeries(report.period, report.cur, report'.got["breakdown"])
    OBVIOUS
  <1>15. CountIn(series) = Cardinality(K)
    BY <1>5, <1>11, <1>12, <1>13, <1>14, SeriesCounts
  <1> QED
    BY <1>8, <1>9, <1>14, <1>15 DEF VolumeStep, CountIn

--------------------------------------------------------------------------------
(* The parts of a report add up                                            *)

LEMMA UsdIs == ASSUME NEW S PROVE Usd(S) = SumOver(RowUsd, S)
  BY DEF Usd, MapThenSumSet, MapThenFoldSet, SumOver, SumFunctionOnSet, FoldFunctionOnSet

\* The amounts of a series, as a sum of a function.
LEMMA SeriesUsdIs ==
  ASSUME NEW series, NEW D, D = DOMAIN series, IsFiniteSet(D)
  PROVE  SeriesUsd(series) = SumOver([b \in D |-> series[b].usd], D)
  <1>1. PICK f : f = [b \in D |-> series[b].usd]
    OBVIOUS
  <1> DEFINE P(g) == g = [s \in SUBSET D |-> IF s = {} THEN 0
                            ELSE series[CHOOSE x \in s : TRUE].usd + g[s \ {CHOOSE x \in s : TRUE}]]
  <1>2. ASSUME NEW g PROVE Sums(f, D, g) <=> P(g)
    <2>1. \A s \in SUBSET D : s # {} => f[Some(s)] = series[CHOOSE x \in s : TRUE].usd
      BY <1>1 DEF Some
    <2>2. [s \in SUBSET D |-> IF s = {} THEN 0 ELSE f[Some(s)] + g[s \ {Some(s)}]]
            = [s \in SUBSET D |-> IF s = {} THEN 0
                  ELSE series[CHOOSE x \in s : TRUE].usd + g[s \ {CHOOSE x \in s : TRUE}]]
      BY <2>1 DEF Some
    <2> QED
      BY <2>2 DEF Sums
  <1>3. PICK h : Sums(f, D, h)
    BY SumsExist
  <1>4. SeriesUsd(series) = (CHOOSE g : P(g))[D]
    BY DEF SeriesUsd, MapThenSumSet, MapThenFoldSet
  <1> HIDE DEF P
  <1>5. P(h)
    BY <1>2, <1>3
  <1>6. P(CHOOSE g : P(g))
    BY <1>5
  <1>7. Sums(f, D, CHOOSE g : P(g))
    BY <1>2, <1>6
  <1>8. Sums(f, D, CHOOSE g : Sums(f, D, g))
    BY <1>3
  <1>9. (CHOOSE g : P(g))[D] = (CHOOSE g : Sums(f, D, g))[D]
    <2>1. D \in SUBSET D
      OBVIOUS
    <2> QED
      BY <1>7, <1>8, <2>1, SumsAgree
  <1> QED
    BY <1>1, <1>4, <1>9, SumOverDef

\* A series with an entry for the bucket of every row, empty where there is none.
LEMMA RowsAdd ==
  ASSUME NEW period, NEW K, IsFiniteSet(K), K \subseteq Payments \cup Settlements,
         NEW B, IsFiniteSet(B), \A x \in K : Truncate(period, DayOf(x)) \in B,
         NEW filled, filled = GroupByBucket(period, K),
         NEW series, DOMAIN series = B,
         \A b \in B : series[b] = IF b \in DOMAIN filled THEN filled[b] ELSE [usd |-> 0, count |-> 0]
  PROVE  SeriesUsd(series) = SumOver(RowUsd, K)
  <1>3. PICK t : t = [x \in K |-> Truncate(period, DayOf(x))]
    OBVIOUS
  <1>4. \A x \in K : t[x] = Truncate(period, DayOf(x)) /\ t[x] \in B
    BY <1>3
  <1>6. /\ DOMAIN filled = {Truncate(period, DayOf(x)) : x \in K}
        /\ \A b \in DOMAIN filled : filled[b].usd = Usd({x \in K : Truncate(period, DayOf(x)) = b})
    BY DEF GroupByBucket
  <1>8. ASSUME NEW b \in B
        PROVE  series[b].usd = SumOver(RowUsd, {x \in K : t[x] = b})
    <2>1. {x \in K : t[x] = b} = {x \in K : Truncate(period, DayOf(x)) = b}
      BY <1>4
    <2>2. CASE b \in DOMAIN filled
      BY <1>6, <2>1, <2>2, UsdIs
    <2>3. CASE b \notin DOMAIN filled
      <3>1. {x \in K : t[x] = b} = {}
        BY <1>4, <1>6, <2>3
      <3>2. series[b].usd = 0
        BY <2>3
      <3> QED
        BY <3>1, <3>2, SumOfNothing
    <2> QED
      BY <2>2, <2>3
  <1>9. [b \in B |-> series[b].usd] = [b \in B |-> SumOver(RowUsd, {x \in K : t[x] = b})]
    BY <1>8
  <1>10. \A x \in K : RowUsd[x] \in Int
    BY AnalyticsAssumption DEF AnalyticsAssumption
  <1>11. SumOver([b \in B |-> SumOver(RowUsd, {x \in K : t[x] = b})], B) = SumOver(RowUsd, K)
    BY <1>4, <1>10, SumByValue
  <1>12. SeriesUsd(series) = SumOver([b \in B |-> series[b].usd], B)
    BY SeriesUsdIs
  <1> QED
    BY <1>9, <1>11, <1>12

\* The buckets of a range are finitely many.
LEMMA BucketsFinite ==
  ASSUME NEW r, RangeFits(r)
  PROVE  IsFiniteSet(Buckets(r.period, r.cur))
  <1>1. PICK n : n = r.cur.endExclusive - 1
    OBVIOUS
  <1>2. r.cur.start \in Int /\ n \in Int
    BY <1>1 DEF RangeFits
  <1>3. IsFiniteSet(r.cur.start .. n)
    BY <1>2, FS_Interval
  <1> QED
    BY <1>1, <1>3, FS_Subset DEF Buckets

\* A series over the rows of its range adds up to them.
LEMMA SeriesAdds ==
  ASSUME NEW r, RangeFits(r), NEW K, IsFiniteSet(K), K \subseteq Payments \cup Settlements,
         \A x \in K : DayOf(x) \in Int /\ r.cur.start <= DayOf(x) /\ DayOf(x) < r.cur.endExclusive
  PROVE  SeriesUsd(buildSeries(r.period, r.cur, GroupByBucket(r.period, K))) = SumOver(RowUsd, K)
  <1>1. PICK B : B = Buckets(r.period, r.cur)
    OBVIOUS
  <1>2. PICK filled : filled = GroupByBucket(r.period, K)
    OBVIOUS
  <1>3. PICK series : series = buildSeries(r.period, r.cur, filled)
    OBVIOUS
  <1>4. /\ DOMAIN series = B
        /\ \A b \in B : series[b] = IF b \in DOMAIN filled THEN filled[b] ELSE [usd |-> 0, count |-> 0]
    BY <1>1, <1>3 DEF buildSeries
  <1>5. \A x \in K : Truncate(r.period, DayOf(x)) \in B
    BY <1>1, BucketOf
  <1>6. IsFiniteSet(B)
    BY <1>1, BucketsFinite
  <1> QED
    BY <1>2, <1>3, <1>4, <1>5, <1>6, RowsAdd

\* And so does a trend, which has no entry for a bucket without rows.
LEMMA TrendAdds ==
  ASSUME NEW period, NEW K, IsFiniteSet(K), K \subseteq Payments \cup Settlements
  PROVE  SeriesUsd(GroupByBucket(period, K)) = SumOver(RowUsd, K)
  <1>1. PICK filled : filled = GroupByBucket(period, K)
    OBVIOUS
  <1>2. PICK B : B = DOMAIN filled
    OBVIOUS
  <1>3. B = {Truncate(period, DayOf(x)) : x \in K}
    BY <1>1, <1>2 DEF GroupByBucket
  <1>4. IsFiniteSet(B)
    <2>1. PICK t : t = [x \in K |-> Truncate(period, DayOf(x))]
      OBVIOUS
    <2>2. t \in Surjection(K, B)
      BY <1>3, <2>1 DEF Surjection
    <2> QED
      BY <2>2, FS_Surjection
  <1>5. \A x \in K : Truncate(period, DayOf(x)) \in B
    BY <1>3
  <1>6. \A b \in B : filled[b] = IF b \in DOMAIN filled THEN filled[b] ELSE [usd |-> 0, count |-> 0]
    BY <1>2
  <1>7. SeriesUsd(filled) = SumOver(RowUsd, K)
    BY <1>1, <1>2, <1>4, <1>5, <1>6, RowsAdd
  <1> QED
    BY <1>1, <1>7

\* A sum over the rows that did not move, and perhaps some that did.
Between(v, core, M) == \E X : core \subseteq X /\ X \subseteq core \cup M /\ v = SumOver(RowUsd, X)

RevenueCore(r) == In(r.cur, Mine(r, Completed \ moved))
NetworkCore(r, n) == {p \in Mine(r, Settled \ moved) : RowNetwork[p] = n}
Networks == {RowNetwork[p] : p \in Payments}

\* Every part of a report that has been read is such a sum.
RevenueNear(r) ==
    /\ "breakdown" \in DOMAIN r.got =>
           Between(SeriesUsd(buildSeries(r.period, r.cur, r.got["breakdown"])), RevenueCore(r), moved)
    /\ "total" \in DOMAIN r.got => Between(r.got["total"], RevenueCore(r), moved)
    /\ \A q \in {"total", "previous"} : q \in DOMAIN r.got => r.got[q] \in Nat
NetworksNear(r) ==
    /\ "total" \in DOMAIN r.got =>
           /\ DOMAIN r.got["total"] = Networks
           /\ \A n \in Networks : Between(r.got["total"][n], NetworkCore(r, n), moved)
    /\ "trend" \in DOMAIN r.got =>
           \A n \in Networks : Between(SeriesUsd(r.got["trend"][n]), NetworkCore(r, n), moved)

TablesFit ==
    /\ moved \subseteq Payments \cup Settlements
    /\ completedAt \in [Settlements -> Int]
    /\ payStatus \in [Payments -> {"confirmed", "settled", "failed"}]
PartsInv ==
    /\ TablesFit
    /\ report.kind = "revenue" => RevenueNear(report)
    /\ report.kind = "networks" => NetworksNear(report)

\* It holds at the start.
LEMMA PartsInitially == AnalyticsInit => PartsInv
  BY DEF AnalyticsInit, PartsInv, TablesFit, NoReport

\* The rows that count.
LEMMA CoreRows ==
  ASSUME TablesFit, NEW S, S \subseteq Payments \cup Settlements
  PROVE  /\ IsFiniteSet(S) /\ \A x \in S : DayOf(x) \in Int /\ RowUsd[x] \in Nat
         /\ SumOver(RowUsd, S) \in Nat
  <1>1. /\ IsFiniteSet(Payments \cup Settlements) /\ RowDay \in [Payments -> Int]
        /\ RowUsd \in [Payments \cup Settlements -> Nat] /\ completedAt \in [Settlements -> Int]
    BY AnalyticsAssumption, FS_Union DEF AnalyticsAssumption, TablesFit
  <1>2. IsFiniteSet(S)
    BY <1>1, FS_Subset
  <1>3. \A x \in S : DayOf(x) \in Int /\ RowUsd[x] \in Nat
    BY <1>1 DEF DayOf
  <1>4. SumOver(RowUsd, S) \in Int
    BY <1>2, <1>3, SumIsInt
  <1>5. SumOver(RowUsd, {}) <= SumOver(RowUsd, S)
    BY <1>2, <1>3, SumOfPart
  <1> QED
    BY <1>2, <1>3, <1>4, <1>5, SumOfNothing

\* Rows that move leave what was read near.
LEMMA StaysNear ==
  ASSUME NEW v, NEW A, NEW B, NEW M, NEW N, Between(v, A, M), M \subseteq N,
         B \subseteq A, A \subseteq B \cup N
  PROVE  Between(v, B, N)
  <1>1. PICK X : A \subseteq X /\ X \subseteq A \cup M /\ v = SumOver(RowUsd, X)
    BY DEF Between
  <1>2. B \subseteq X /\ X \subseteq B \cup N
    BY <1>1
  <1> QED
    BY <1>1, <1>2 DEF Between

\* A step of the tables, seen by the report.
LEMMA PartsRest ==
  ASSUME PartsInv, TablesFit', report' = report, moved \subseteq moved',
         report.kind # "none" => \A x \in Payments \cup Settlements : x \notin moved' =>
             /\ x \in Completed' <=> x \in Completed
             /\ x \in Settled' <=> x \in Settled
             /\ x \in Completed \cup Settled => DayOf(x)' = DayOf(x)
  PROVE  PartsInv'
  <1>0. Completed \subseteq Settlements /\ Completed' \subseteq Settlements
        /\ Settled \subseteq Payments /\ Settled' \subseteq Payments
    BY DEF Completed, Settled
  <1>1. ASSUME report.kind = "revenue" PROVE RevenueNear(report)'
    <2>1. PICK r, A, B, M, N : r = report /\ A = RevenueCore(report) /\ B = RevenueCore(report)' /\ M = moved /\ N = moved'
      OBVIOUS
    <2>2. B = {x \in A : x \notin N}
      BY <1>0, <1>1, <2>1 DEF RevenueCore, In, Mine
    <2>3. M \subseteq N /\ B \subseteq A /\ A \subseteq B \cup N
      BY <2>1, <2>2
    <2>4. RevenueNear(report)
      BY <1>1 DEF PartsInv
    <2>5. "breakdown" \in DOMAIN r.got => Between(SeriesUsd(buildSeries(r.period, r.cur, r.got["breakdown"])), B, N)
      BY <2>1, <2>3, <2>4, StaysNear DEF RevenueNear
    <2>6. "total" \in DOMAIN r.got => Between(r.got["total"], B, N)
      BY <2>1, <2>3, <2>4, StaysNear DEF RevenueNear
    <2>7. \A q \in {"total", "previous"} : q \in DOMAIN r.got => r.got[q] \in Nat
      BY <2>1, <2>4 DEF RevenueNear
    <2>8. report' = r
      BY <2>1
    <2> QED
      BY <2>1, <2>5, <2>6, <2>7, <2>8 DEF RevenueNear
  <1>2. ASSUME report.kind = "networks" PROVE NetworksNear(report)'
    <2>1. PICK r, M, N : r = report /\ M = moved /\ N = moved'
      OBVIOUS
    <2>2. NetworksNear(report) /\ report' = r
      BY <1>2, <2>1 DEF PartsInv
    <2>3. ASSUME NEW n, NEW v, Between(v, NetworkCore(r, n), M)
          PROVE  Between(v, NetworkCore(r, n)', N)
      <3>1. PICK A, B : A = NetworkCore(r, n) /\ B = NetworkCore(r, n)'
        OBVIOUS
      <3>2. B = {x \in A : x \notin N}
        BY <1>0, <1>2, <2>1, <3>1 DEF NetworkCore, Mine
      <3>3. M \subseteq N /\ B \subseteq A /\ A \subseteq B \cup N
        BY <2>1, <3>2
      <3> QED
        BY <2>3, <3>1, <3>3, StaysNear
    <2> QED
      BY <2>1, <2>2, <2>3 DEF NetworksNear
  <1> QED
    BY <1>1, <1>2 DEF PartsInv

\* A part that is read is near its rows.
LEMMA RevenuePart ==
  ASSUME PartsInv, RangeFits(report), report.kind = "revenue", NEW r, r = report
  PROVE  /\ Between(SeriesUsd(buildSeries(r.period, r.cur, getRevenueBreakdown(r))), RevenueCore(r), moved)
         /\ Between(getRevenueTotal(r, r.cur), RevenueCore(r), moved)
         /\ \A w : getRevenueTotal(r, w) \in Nat
  <1>1. TablesFit /\ Completed \subseteq Settlements
    BY DEF PartsInv, Completed
  <1>2. PICK K : K = In(r.cur, Mine(r, Completed))
    OBVIOUS
  <1>3. /\ K \subseteq Payments \cup Settlements
        /\ \A x \in K : r.cur.start <= DayOf(x) /\ DayOf(x) < r.cur.endExclusive
    BY <1>1, <1>2 DEF In, Mine
  <1>4. RevenueCore(r) \subseteq K /\ K \subseteq RevenueCore(r) \cup moved
    BY <1>2 DEF RevenueCore, In, Mine
  <1>5. SeriesUsd(buildSeries(r.period, r.cur, getRevenueBreakdown(r))) = SumOver(RowUsd, K)
    BY <1>1, <1>2, <1>3, CoreRows, SeriesAdds DEF getRevenueBreakdown
  <1>6. getRevenueTotal(r, r.cur) = SumOver(RowUsd, K)
    BY <1>2, UsdIs DEF getRevenueTotal
  <1>7. ASSUME NEW w PROVE getRevenueTotal(r, w) \in Nat
    <2>1. PICK L : L = In(w, Mine(r, Completed))
      OBVIOUS
    <2>2. L \subseteq Payments \cup Settlements
      BY <1>1, <2>1 DEF In, Mine
    <2>3. SumOver(RowUsd, L) \in Nat
      BY <1>1, <2>2, CoreRows
    <2> QED
      BY <2>1, <2>3, UsdIs DEF getRevenueTotal
  <1> QED
    BY <1>4, <1>5, <1>6, <1>7 DEF Between

LEMMA NetworkPart ==
  ASSUME PartsInv, report.kind = "networks", NEW r, r = report
  PROVE  /\ DOMAIN NetworkTotals(r) = Networks
         /\ \A n \in Networks : /\ Between(NetworkTotals(r)[n], NetworkCore(r, n), moved)
                                /\ Between(SeriesUsd(NetworkTrend(r)[n]), NetworkCore(r, n), moved)
  <1>1. TablesFit /\ Settled \subseteq Payments
    BY DEF PartsInv, Settled
  <1>2. DOMAIN NetworkTotals(r) = Networks
    BY DEF NetworkTotals, Networks
  <1>3. ASSUME NEW n \in Networks
        PROVE  /\ Between(NetworkTotals(r)[n], NetworkCore(r, n), moved)
               /\ Between(SeriesUsd(NetworkTrend(r)[n]), NetworkCore(r, n), moved)
    <2>1. PICK K : K = {p \in Mine(r, Settled) : RowNetwork[p] = n}
      OBVIOUS
    <2>2. K \subseteq Payments \cup Settlements
      BY <1>1, <2>1 DEF Mine
    <2>3. NetworkCore(r, n) \subseteq K /\ K \subseteq NetworkCore(r, n) \cup moved
      BY <2>1 DEF NetworkCore, Mine
    <2>4. NetworkTotals(r)[n] = SumOver(RowUsd, K)
      BY <2>1, UsdIs DEF NetworkTotals, Networks
    <2>5. NetworkTrend(r)[n] = GroupByBucket(r.period, K)
      BY <2>1 DEF NetworkTrend, Networks
    <2>6. SeriesUsd(GroupByBucket(r.period, K)) = SumOver(RowUsd, K)
      BY <1>1, <2>2, CoreRows, TrendAdds
    <2> QED
      BY <2>3, <2>4, <2>5, <2>6 DEF Between
  <1> QED
    BY <1>2, <1>3

\* A read changes the parts alone.
LEMMA PartReads ==
  ASSUME IsReport(report), ReadPart
  PROVE  \E part \in PartsOf(report.kind) \ DOMAIN report.got : \E g :
            /\ report' = [report EXCEPT !.got = g]
            /\ DOMAIN g = DOMAIN report.got \cup {part}
            /\ g[part] = PartRead(report, part)
            /\ \A q \in DOMAIN report.got : g[q] = report.got[q]
            /\ report'.kind = report.kind /\ report'.period = report.period /\ report'.merchant = report.merchant
            /\ report'.cur = report.cur /\ report'.prev = report.prev /\ report'.got = g
  <1>1. PICK part \in PartsOf(report.kind) \ DOMAIN report.got : report' = [report EXCEPT !.got =
            [q \in DOMAIN report.got \cup {part} |-> IF q = part THEN PartRead(report, q) ELSE report.got[q]]]
    BY ZenonT(30) DEF ReadPart
  <1>2. PICK g : g = [q \in DOMAIN report.got \cup {part} |-> IF q = part THEN PartRead(report, q) ELSE report.got[q]]
    OBVIOUS
  <1>3. report' = [report EXCEPT !.got = g]
    BY <1>1, <1>2
  <1>4. /\ DOMAIN g = DOMAIN report.got \cup {part} /\ g[part] = PartRead(report, part)
        /\ \A q \in DOMAIN report.got : g[q] = report.got[q]
    BY <1>2
  <1>5. /\ report'.kind = report.kind /\ report'.period = report.period /\ report'.merchant = report.merchant
        /\ report'.cur = report.cur /\ report'.prev = report.prev /\ report'.got = g
    BY <1>3 DEF IsReport
  <1> QED
    BY <1>3, <1>4, <1>5

LEMMA PartsAfterRead == PartsInv /\ ReportInv /\ ReadPart => PartsInv'
  <1> SUFFICES ASSUME PartsInv, ReportInv, ReadPart PROVE PartsInv'
    OBVIOUS
  <1>1. IsReport(report) /\ UNCHANGED <<payStatus, completedAt, moved>>
    BY DEF ReportInv, ReadPart
  <1>2. TablesFit' /\ Completed' = Completed /\ Settled' = Settled
    BY <1>1 DEF PartsInv, TablesFit, Completed, Settled
  <1>p. PICK part \in PartsOf(report.kind) \ DOMAIN report.got : \E g :
            /\ DOMAIN g = DOMAIN report.got \cup {part}
            /\ g[part] = PartRead(report, part)
            /\ \A q \in DOMAIN report.got : g[q] = report.got[q]
            /\ report'.kind = report.kind /\ report'.period = report.period /\ report'.merchant = report.merchant
            /\ report'.cur = report.cur /\ report'.prev = report.prev /\ report'.got = g
    BY <1>1, PartReads
  <1>3. PICK g :
            /\ DOMAIN g = DOMAIN report.got \cup {part}
            /\ g[part] = PartRead(report, part)
            /\ \A q \in DOMAIN report.got : g[q] = report.got[q]
            /\ report'.kind = report.kind /\ report'.period = report.period /\ report'.merchant = report.merchant
            /\ report'.cur = report.cur /\ report'.prev = report.prev /\ report'.got = g
    BY <1>p
  <1>4. PICK r, s : r = report /\ s = report'
    OBVIOUS
  <1>5. ASSUME report.kind = "revenue" PROVE RevenueNear(report)'
    <2>1. RevenueNear(report) /\ RangeFits(report)
      BY <1>5 DEF PartsInv, ReportInv
    <2>2. PICK core : core = RevenueCore(r)
      OBVIOUS
    <2>3. RevenueCore(report)' = core
      BY <1>1, <1>2, <1>3, <1>4, <2>2 DEF RevenueCore, In, Mine, DayOf
    <2>4. part \in {"breakdown", "total", "previous"}
      BY <1>p, <1>5 DEF PartsOf
    <2>5. g[part] = CASE part = "breakdown" -> getRevenueBreakdown(r)
                      [] part = "total" -> getRevenueTotal(r, r.cur)
                      [] part = "previous" -> getRevenueTotal(r, r.prev)
      BY <1>3, <1>4, <1>5, <2>4 DEF PartRead
    <2>6. /\ Between(SeriesUsd(buildSeries(r.period, r.cur, getRevenueBreakdown(r))), core, moved)
          /\ Between(getRevenueTotal(r, r.cur), core, moved)
          /\ \A w : getRevenueTotal(r, w) \in Nat
      BY <1>4, <1>5, <2>1, <2>2, RevenuePart
    <2>7. "breakdown" \in DOMAIN g => Between(SeriesUsd(buildSeries(r.period, r.cur, g["breakdown"])), core, moved)
      <3>1. CASE part = "breakdown"
        BY <2>5, <2>6, <3>1
      <3>2. CASE part # "breakdown"
        BY <1>3, <1>4, <2>1, <2>2, <3>2 DEF RevenueNear
      <3> QED
        BY <3>1, <3>2
    <2>8. "total" \in DOMAIN g => Between(g["total"], core, moved)
      <3>1. CASE part = "total"
        BY <2>5, <2>6, <3>1
      <3>2. CASE part # "total"
        BY <1>3, <1>4, <2>1, <2>2, <3>2 DEF RevenueNear
      <3> QED
        BY <3>1, <3>2
    <2>9. \A q \in {"total", "previous"} : q \in DOMAIN g => g[q] \in Nat
      <3> SUFFICES ASSUME NEW q \in {"total", "previous"}, q \in DOMAIN g PROVE g[q] \in Nat
        OBVIOUS
      <3>1. CASE part = q
        BY <2>5, <2>6, <3>1
      <3>2. CASE part # q
        BY <1>3, <2>1, <3>2 DEF RevenueNear
      <3> QED
        BY <3>1, <3>2
    <2>10. s.got = g /\ s.period = r.period /\ s.cur = r.cur /\ moved' = moved
      BY <1>1, <1>3, <1>4
    <2> QED
      BY <1>4, <2>3, <2>7, <2>8, <2>9, <2>10 DEF RevenueNear
  <1>6. ASSUME report.kind = "networks" PROVE NetworksNear(report)'
    <2>1. NetworksNear(report)
      BY <1>6 DEF PartsInv
    <2>2. PICK core : core = [n \in Networks |-> NetworkCore(r, n)]
      OBVIOUS
    <2>3. \A n \in Networks : NetworkCore(r, n) = core[n] /\ NetworkCore(report, n)' = core[n]
      BY <1>1, <1>2, <1>3, <1>4, <2>2 DEF NetworkCore, Mine
    <2>4. part \in {"total", "trend"}
      BY <1>p, <1>6 DEF PartsOf
    <2>5. g[part] = IF part = "total" THEN NetworkTotals(r) ELSE NetworkTrend(r)
      BY <1>3, <1>4, <1>6, <2>4 DEF PartRead
    <2>6. /\ DOMAIN NetworkTotals(r) = Networks
          /\ \A n \in Networks : /\ Between(NetworkTotals(r)[n], core[n], moved)
                                 /\ Between(SeriesUsd(NetworkTrend(r)[n]), core[n], moved)
      BY <1>4, <1>6, <2>3, NetworkPart
    <2>7. "total" \in DOMAIN g => /\ DOMAIN g["total"] = Networks
                                  /\ \A n \in Networks : Between(g["total"][n], core[n], moved)
      <3>1. CASE part = "total"
        BY <2>5, <2>6, <3>1
      <3>2. CASE part # "total"
        BY <1>3, <1>4, <2>1, <2>3, <3>2 DEF NetworksNear
      <3> QED
        BY <3>1, <3>2
    <2>8. "trend" \in DOMAIN g => \A n \in Networks : Between(SeriesUsd(g["trend"][n]), core[n], moved)
      <3>1. CASE part = "trend"
        BY <2>5, <2>6, <3>1
      <3>2. CASE part # "trend"
        BY <1>3, <1>4, <2>1, <2>3, <3>2 DEF NetworksNear
      <3> QED
        BY <3>1, <3>2
    <2>9. report'.got = g /\ moved' = moved
      BY <1>1, <1>3
    <2> QED
      BY <2>3, <2>7, <2>8, <2>9 DEF NetworksNear
  <1> QED
    BY <1>2, <1>3, <1>5, <1>6 DEF PartsInv

\* Any step keeps it.
LEMMA PartsInvStep == PartsInv /\ ReportInv /\ [AnalyticsNext]_analyticsVars => PartsInv'
  <1> SUFFICES ASSUME PartsInv, ReportInv, [AnalyticsNext]_analyticsVars PROVE PartsInv'
    OBVIOUS
  <1>0. TablesFit /\ today \in Int
    BY AnalyticsAssumption DEF PartsInv, ReportInv, AnalyticsAssumption
  <1>1. ASSUME UNCHANGED <<payStatus, completedAt, report, moved>> PROVE PartsInv'
    BY <1>0, <1>1, PartsRest DEF TablesFit, Completed, Settled, DayOf
  <1>2. ASSUME NEW p \in Payments, PaymentEnds(p) PROVE PartsInv'
    <2>1. PICK st \in {"settled", "failed"} : payStatus' = [payStatus EXCEPT ![p] = st]
      BY <1>2 DEF PaymentEnds
    <2>2. /\ completedAt' = completedAt /\ report' = report
          /\ moved' = IF report.kind = "none" THEN moved ELSE moved \cup {p}
      BY <1>2 DEF PaymentEnds, Move
    <2>3. TablesFit'
      BY <1>0, <2>1, <2>2 DEF TablesFit
    <2>4. \A x \in Payments : x # p => payStatus'[x] = payStatus[x]
      BY <1>0, <2>1 DEF TablesFit
    <2>5. \A x : DayOf(x)' = DayOf(x)
      BY <2>2 DEF DayOf
    <2>6. Completed' = Completed /\ \A x : x # p => (x \in Settled' <=> x \in Settled)
      BY <2>2, <2>4 DEF Completed, Settled
    <2> QED
      BY <2>2, <2>3, <2>5, <2>6, PartsRest
  <1>3. ASSUME NEW c \in Settlements, SettlementCompletes(c) PROVE PartsInv'
    <2>1. /\ completedAt[c] = 0 /\ completedAt' = [completedAt EXCEPT ![c] = today]
          /\ payStatus' = payStatus /\ report' = report
          /\ moved' = IF report.kind = "none" THEN moved ELSE moved \cup {c}
      BY <1>3 DEF SettlementCompletes, Move
    <2>2. TablesFit'
      BY <1>0, <2>1 DEF TablesFit
    <2>3. \A x \in Settlements : x # c => completedAt'[x] = completedAt[x]
      BY <1>0, <2>1 DEF TablesFit
    <2>4. Settled' = Settled /\ \A x : x # c => (x \in Completed' <=> x \in Completed)
      BY <2>1, <2>3 DEF Completed, Settled
    <2>5. \A x \in Completed \cup Settled : x # c => DayOf(x)' = DayOf(x)
      BY <2>3 DEF DayOf, Completed, Settled
    <2> QED
      BY <2>1, <2>2, <2>4, <2>5, PartsRest
  <1>4. CASE StartRanged \/ StartCurrent
    <2>1. \E r : StartReport(r) /\ r.got = << >>
      <3>1. CASE StartRanged
        <4>1. PICK kind \in {"revenue", "volume"}, period \in {"daily", "monthly"},
                   from \in QueryDays \cup {None}, to \in QueryDays \cup {None},
                   m \in {RowMerchant[x] : x \in Payments} \cup {Admin} :
                StartReport([kind |-> kind, period |-> period, merchant |-> m, cur |-> resolveVolumeRange(period, from, to),
                             prev |-> resolvePreviousRange(period, resolveVolumeRange(period, from, to)), got |-> << >>])
          BY <3>1, ZenonT(90) DEF StartRanged
        <4> QED
          BY <4>1
      <3>2. CASE StartCurrent
        <4>1. PICK kind \in {"comparison", "funnel", "networks"}, period \in {"daily", "monthly"},
                   m \in {RowMerchant[x] : x \in Payments} :
                StartReport([kind |-> kind, period |-> period, merchant |-> m,
                             cur |-> getPeriodBounds(period).cur, prev |-> getPeriodBounds(period).prev,
                             got |-> << >>])
          BY <3>2, ZenonT(30) DEF StartCurrent
        <4> QED
          BY <4>1
      <3> QED
        BY <1>4, <3>1, <3>2
    <2>2. UNCHANGED <<payStatus, completedAt>> /\ moved' = {} /\ report'.got = << >>
      BY <2>1 DEF StartReport
    <2> QED
      BY <1>0, <2>2 DEF PartsInv, TablesFit, RevenueNear, NetworksNear
  <1>5. CASE ReadPart
    BY <1>5, PartsAfterRead
  <1>6. CASE Answer
    BY <1>6, <1>0 DEF Answer, NoReport, PartsInv, TablesFit
  <1> QED
    BY <1>1, <1>2, <1>3, <1>4, <1>5, <1>6 DEF AnalyticsNext, NewDay, refreshMaterializedViews, analyticsVars

\* Two sums near the same rows are near each other.
LEMMA BothNear ==
  ASSUME TablesFit, NEW A, A \subseteq Payments \cup Settlements, NEW v, NEW w,
         Between(v, A, moved), Between(w, A, moved)
  PROVE  v - w <= Usd(moved) /\ w - v <= Usd(moved)
  <1>1. moved \subseteq Payments \cup Settlements
    BY DEF TablesFit
  <1>2. PICK X : A \subseteq X /\ X \subseteq A \cup moved /\ v = SumOver(RowUsd, X)
    BY DEF Between
  <1>3. PICK Y : A \subseteq Y /\ Y \subseteq A \cup moved /\ w = SumOver(RowUsd, Y)
    BY DEF Between
  <1>4. IsFiniteSet(A) /\ IsFiniteSet(moved) /\ \A x \in A \cup moved : RowUsd[x] \in Nat
    <2>1. A \cup moved \subseteq Payments \cup Settlements
      BY <1>1
    <2> QED
      BY <1>1, <2>1, CoreRows
  <1>5. /\ SumOver(RowUsd, X) - SumOver(RowUsd, Y) <= SumOver(RowUsd, moved)
        /\ SumOver(RowUsd, Y) - SumOver(RowUsd, X) <= SumOver(RowUsd, moved)
    BY <1>2, <1>3, <1>4, SumsAreNear
  <1> QED
    BY <1>2, <1>3, <1>5, UsdIs

LEMMA PartsAddUp == PartsInv => ReportsAddUp
  <1> SUFFICES ASSUME PartsInv, ReportDone PROVE ReportsAddUp
    BY DEF ReportsAddUp
  <1>1. TablesFit /\ Completed \subseteq Settlements /\ Settled \subseteq Payments
    BY DEF PartsInv, Completed, Settled
  <1>2. ASSUME report.kind = "revenue"
        PROVE  /\ SeriesUsd(buildRevenueSeries) - report.got["total"] <= Usd(moved)
               /\ report.got["total"] - SeriesUsd(buildRevenueSeries) <= Usd(moved)
    <2>1. RevenueNear(report)
      BY <1>2 DEF PartsInv
    <2>2. DOMAIN report.got = {"breakdown", "total", "previous"}
      BY <1>2 DEF ReportDone, PartsOf
    <2>3. RevenueCore(report) \subseteq Payments \cup Settlements
      BY <1>1 DEF RevenueCore, In, Mine
    <2>4. /\ Between(SeriesUsd(buildRevenueSeries), RevenueCore(report), moved)
          /\ Between(report.got["total"], RevenueCore(report), moved)
      BY <2>1, <2>2 DEF RevenueNear, buildRevenueSeries
    <2> QED
      BY <1>1, <2>3, <2>4, BothNear
  <1>3. ASSUME report.kind = "networks", NEW n \in DOMAIN report.got["total"]
        PROVE  /\ report.got["total"][n] - SeriesUsd(report.got["trend"][n]) <= Usd(moved)
               /\ SeriesUsd(report.got["trend"][n]) - report.got["total"][n] <= Usd(moved)
    <2>1. NetworksNear(report)
      BY <1>3 DEF PartsInv
    <2>2. DOMAIN report.got = {"total", "trend"}
      BY <1>3 DEF ReportDone, PartsOf
    <2>3. NetworkCore(report, n) \subseteq Payments \cup Settlements
      BY <1>1 DEF NetworkCore, Mine
    <2>4. /\ Between(report.got["total"][n], NetworkCore(report, n), moved)
          /\ Between(SeriesUsd(report.got["trend"][n]), NetworkCore(report, n), moved)
      BY <1>3, <2>1, <2>2 DEF NetworksNear
    <2> QED
      BY <1>1, <2>3, <2>4, BothNear
  <1> QED
    BY <1>2, <1>3 DEF ReportsAddUp

\* Units make a decimal and come back from it.
LEMMA DecimalOf ==
  ASSUME NEW v \in Int
  PROVE  decimalToUnits(unitsToDecimal(v)) = v /\ (unitsToDecimal(v).neg <=> v < 0)
  <1>1. Scale \in Nat \ {0}
    BY AnalyticsAssumption DEF AnalyticsAssumption
  <1>2. PICK a : a = (IF v < 0 THEN -v ELSE v)
    OBVIOUS
  <1>3. a \in Int
    BY <1>2
  <1>4. unitsToDecimal(v) = [neg |-> v < 0, whole |-> a \div Scale, frac |-> a % Scale]
    BY <1>2 DEF unitsToDecimal
  <1>5. (a \div Scale) * Scale + (a % Scale) = a
    BY <1>1, <1>3, SMTT(30)
  <1>6. unitsToDecimal(v).whole = a \div Scale /\ unitsToDecimal(v).frac = a % Scale
    BY <1>4
  <1>n. unitsToDecimal(v).neg <=> v < 0
    <2>1. PICK x, y : x = a \div Scale /\ y = a % Scale
      OBVIOUS
    <2>3. PICK b : b = (v < 0)
      BY Zenon
    <2>4. unitsToDecimal(v) = [neg |-> b, whole |-> x, frac |-> y]
      BY <1>4, <2>1, <2>3, Zenon
    <2>5. unitsToDecimal(v).neg = b
      BY ONLY <2>4
    <2> QED
      BY <2>3, <2>5, Zenon
  <1>7. decimalToUnits(unitsToDecimal(v)) = (IF v < 0 THEN -1 ELSE 1) * a
    BY <1>5, <1>6, <1>n DEF decimalToUnits
  <1> QED
    BY <1>2, <1>7, <1>n

LEMMA ChangeExact == PartsInv => ChangeIsExact
  <1> SUFFICES ASSUME PartsInv, ReportDone, report.kind = "revenue" PROVE ChangeIsExact
    BY DEF ChangeIsExact
  <1>1. PICK cur, prev : cur = report.got["total"] /\ prev = report.got["previous"]
    OBVIOUS
  <1>2. cur \in Nat /\ prev \in Nat
    <2>1. DOMAIN report.got = {"breakdown", "total", "previous"}
      BY DEF ReportDone, PartsOf
    <2> QED
      BY <1>1, <2>1 DEF PartsInv, RevenueNear
  <1>3. PICK change : change = subtractDecimalStrings(unitsToDecimal(cur), unitsToDecimal(prev))
    OBVIOUS
  <1>4. change = unitsToDecimal(cur - prev)
    BY <1>2, <1>3, DecimalOf DEF subtractDecimalStrings
  <1>5. decimalToUnits(change) = cur - prev /\ (change.neg <=> cur - prev < 0)
    BY <1>2, <1>4, DecimalOf
  <1>6. PICK percent : percent = calculatePercentageChange(cur, prev)
    OBVIOUS
  <1>7. CASE prev = 0
    BY <1>1, <1>2, <1>3, <1>5, <1>6, <1>7 DEF ChangeIsExact, calculatePercentageChange
  <1>8. CASE prev # 0
    <2>1. PICK diff, d : diff = cur - prev /\ d = (IF diff < 0 THEN -diff ELSE diff)
      OBVIOUS
    <2>2. diff \in Int /\ d \in Nat
      BY <1>2, <2>1
    <2>3. PICK size : size = (20000 * d + prev) \div (2 * prev)
      OBVIOUS
    <2>4. size \in Int /\ size >= 0
      <3>1. PICK a, b : a = 20000 * d + prev /\ b = 2 * prev
        OBVIOUS
      <3>2. a \in Nat /\ b \in Nat \ {0}
        BY <1>2, <1>8, <2>2, <3>1
      <3>3. a \div b \in Int /\ a \div b >= 0
        BY <3>2, SMTT(30)
      <3> QED
        BY <2>3, <3>1, <3>3
    <2>5. percent = IF diff < 0 THEN -size ELSE size
      BY <1>6, <1>8, <2>1, <2>3 DEF calculatePercentageChange
    <2>6. change.neg => percent <= 0
      BY <1>5, <2>1, <2>4, <2>5
    <2>7. percent < 0 => change.neg
      BY <1>5, <2>1, <2>4, <2>5
    <2> QED
      BY <1>1, <1>3, <1>5, <1>6, <2>6, <2>7 DEF ChangeIsExact
  <1> QED
    BY <1>7, <1>8

--------------------------------------------------------------------------------
(* Signups                                                                 *)

\* A request is no younger than the clock, and nobody signed up in the future.
SignupInv ==
    /\ signupClock \in Int /\ signedUp \in [Signers -> Int]
    /\ request = [asked |-> request.asked, asOf |-> request.asOf, got |-> request.got]
    /\ request.asOf \in Int /\ request.asOf <= signupClock
    /\ SignupsShown

\* It holds at the start.
LEMMA SignupInitially == SignupInit => SignupInv
  BY DEF SignupInit, SignupInv, SignupsShown, Never

\* The days of the window of a request, and who is known to have signed up on one.
SignupDays(asOf) == Day(asOf) - (WindowDays - 1) .. Day(asOf)
EarlyOn(asOf, d) == {u \in SignedUpUsers : Day(signedUp[u]) = d /\ signedUp[u] < asOf}
CutOff(asOf, S) == {u \in S : signedUp[u] < asOf - (WindowDays - 1) * DayParts}
Shown(asOf, series) ==
    \A d \in SignupDays(asOf) :
        d \in DOMAIN series /\ series[d] >= Cardinality(EarlyOn(asOf, d) \ CutOff(asOf, EarlyOn(asOf, d)))

LEMMA ShownIs == SignupsShown <=>
    ("signups" \in DOMAIN request.got => Shown(request.asOf, request.got["signups"]))
  BY DEF SignupsShown, Shown, SignupDays, EarlyOn, CutOff

\* The series of a query shows them.
LEMMA SeriesShows ==
  ASSUME SignupInv, NEW asOf \in Int
  PROVE  Shown(asOf, MetricsPart(asOf, "signups"))
  <1>1. PICK first : first = asOf - (WindowDays - 1) * DayParts
    OBVIOUS
  <1>2. PICK filled : filled = {u \in SignedUpUsers : signedUp[u] >= first}
    OBVIOUS
  <1>3. PICK counts : counts = [d \in {Day(signedUp[u]) : u \in filled} |-> Cardinality({u \in filled : Day(signedUp[u]) = d})]
    OBVIOUS
  <1>4. PICK series : series = [d \in SignupDays(asOf) |-> IF d \in DOMAIN counts THEN counts[d] ELSE 0]
    OBVIOUS
  <1>5. MetricsPart(asOf, "signups") = series
    BY <1>1, <1>2, <1>3, <1>4 DEF MetricsPart, SignupRows, buildDailySignupSeries, SignupDays
  <1>6. first \in Int /\ \A u \in Signers : signedUp[u] \in Int
    BY <1>1, SignupAssumption DEF SignupAssumption, SignupInv
  <1>7. ASSUME NEW d \in SignupDays(asOf)
        PROVE  series[d] >= Cardinality(EarlyOn(asOf, d) \ CutOff(asOf, EarlyOn(asOf, d)))
    <2>1. PICK K, L : /\ K = EarlyOn(asOf, d) \ CutOff(asOf, EarlyOn(asOf, d))
                      /\ L = {u \in filled : Day(signedUp[u]) = d}
      OBVIOUS
    <2>2. K \subseteq L
      BY <1>1, <1>2, <1>6, <2>1 DEF EarlyOn, CutOff, SignedUpUsers
    <2>3. IsFiniteSet(L)
      BY <1>2, <2>1, SignupAssumption, FS_Subset DEF SignupAssumption, SignedUpUsers
    <2>4. Cardinality(K) \in Nat /\ Cardinality(L) \in Nat /\ Cardinality(K) <= Cardinality(L)
      BY <2>2, <2>3, FS_Subset, FS_CardinalityType
    <2>5. CASE d \in DOMAIN counts
      BY <1>3, <1>4, <2>1, <2>4, <2>5
    <2>6. CASE d \notin DOMAIN counts
      BY <1>3, <2>1, <2>6, <1>4, FS_EmptySet, <2>4
    <2> QED
      BY <2>5, <2>6
  <1>8. DOMAIN series = SignupDays(asOf)
    BY <1>4
  <1> QED
    BY <1>5, <1>7, <1>8 DEF Shown

\* Every step of the signups keeps the invariant.
LEMMA SignupInvStep == SignupInv /\ [SignupNext]_signupVars => SignupInv'
  <1> SUFFICES ASSUME SignupInv, [SignupNext]_signupVars PROVE SignupInv'
    OBVIOUS
  <1>0. /\ signupClock \in Int /\ signedUp \in [Signers -> Int]
        /\ request = [asked |-> request.asked, asOf |-> request.asOf, got |-> request.got]
        /\ request.asOf \in Int /\ request.asOf <= signupClock
    BY DEF SignupInv
  <1>r. ASSUME request' = request, signupClock' \in {signupClock, signupClock + 1}, signedUp' \in [Signers -> Int],
               \A u \in Signers : \/ signedUp'[u] = signedUp[u]
                                  \/ signedUp[u] = Never /\ signedUp'[u] >= request.asOf
        PROVE  SignupInv'
    <2>1. signupClock' \in Int /\ request'.asOf <= signupClock'
      BY <1>0, <1>r
    <2>3. PICK a, s : a = request.asOf /\ s = request.got["signups"]
      OBVIOUS
    <2>4. ASSUME NEW d PROVE EarlyOn(a, d)' = EarlyOn(a, d)
      BY <1>0, <1>r, <2>3 DEF EarlyOn, SignedUpUsers
    <2>5. ASSUME NEW d PROVE (EarlyOn(a, d) \ CutOff(a, EarlyOn(a, d)))' = EarlyOn(a, d) \ CutOff(a, EarlyOn(a, d))
      <3>1. \A u \in EarlyOn(a, d) : signedUp'[u] = signedUp[u]
        BY <1>r DEF EarlyOn, SignedUpUsers
      <3> QED
        BY <2>4, <3>1 DEF CutOff
    <2>6. Shown(a, s) => Shown(a, s)'
      BY <2>5 DEF Shown
    <2>7. SignupsShown'
      <3> SUFFICES ASSUME "signups" \in DOMAIN request.got PROVE Shown(a, s)'
        BY <1>r, <2>3 DEF SignupsShown, Shown, SignupDays, EarlyOn, CutOff
      <3>1. Shown(a, s)
        BY <2>3, ShownIs DEF SignupInv
      <3> QED
        BY <2>6, <3>1
    <2> QED
      BY <1>0, <1>r, <2>1, <2>7 DEF SignupInv
  <1>1. CASE SignupTick
    BY <1>0, <1>1, <1>r DEF SignupTick
  <1>2. ASSUME NEW u \in Signers, SignUp(u) PROVE SignupInv'
    BY <1>2, <1>0, <1>r DEF SignUp
  <1>3. ASSUME NEW u \in Signers, IsSeen(u) PROVE SignupInv'
    BY <1>0, <1>3, <1>r DEF IsSeen
  <1>5. CASE StartMetrics
    BY <1>5, <1>0 DEF StartMetrics, SignupInv, SignupsShown
  <1>6. CASE QueryMetrics
    <2>1. PICK part \in {"signups", "activation", "active"} \ DOMAIN request.got :
              request' = [request EXCEPT !.got = [q \in DOMAIN @ \cup {part} |->
                             IF q = part THEN MetricsPart(request.asOf, part) ELSE @[q]]]
      BY <1>6 DEF QueryMetrics
    <2>2. PICK g : g = [q \in DOMAIN request.got \cup {part} |->
                             IF q = part THEN MetricsPart(request.asOf, part) ELSE request.got[q]]
      OBVIOUS
    <2>3. UNCHANGED <<signupClock, signedUp>>
      BY <1>6 DEF QueryMetrics
    <2>4. request' = [asked |-> request.asked, asOf |-> request.asOf, got |-> g]
      BY <1>0, <2>1, <2>2, <2>3
    <2>5. PICK a : a = request.asOf
      OBVIOUS
    <2>6. "signups" \in DOMAIN g => Shown(a, g["signups"])
      <3>1. CASE part = "signups"
        BY <1>0, <2>2, <2>5, <3>1, SeriesShows
      <3>2. CASE part # "signups"
        BY <2>2, <2>3, <2>5, <3>2, ShownIs DEF SignupInv
      <3> QED
        BY <3>1, <3>2
    <2>7. SignupsShown'
      BY <2>3, <2>4, <2>5, <2>6 DEF SignupsShown, Shown, SignupDays, EarlyOn, CutOff, SignedUpUsers
    <2> QED
      BY <1>0, <2>3, <2>4, <2>7 DEF SignupInv
  <1>9. CASE UNCHANGED signupVars
    BY <1>0, <1>9, <1>r DEF signupVars
  <1> QED
    BY <1>1, <1>2, <1>3, <1>5, <1>6, <1>9 DEF SignupNext

--------------------------------------------------------------------------------
(* The text of a secret                                                    *)

\* One step of the encoder or of the decoder, and the recursive function that a fold
\* over the indices of seq chooses.
Blank == [val |-> 0, bits |-> 0, out |-> << >>]
Take(way, st, x) == IF way = "encode" THEN EncodeByte(st, x) ELSE DecodeLetter(st, x)
Latest(s) == Max(s)
Folded(way, seq, S, g) ==
    g = [s \in SUBSET S |->
           IF s = {} THEN Blank ELSE Take(way, g[s \ {Latest(s)}], seq[Latest(s)])]

\* The last index of a set of indices is one of them.
LEMMA LastIn ==
  ASSUME NEW n \in Nat, NEW s \in SUBSET (1 .. n), s # {}
  PROVE  Latest(s) \in s /\ \A m \in s : m <= Latest(s)
  <1>1. s \in SUBSET Nat /\ \A m \in s : m <= n
    OBVIOUS
  <1>2. \E k \in s : \A m \in s : m <= k
    BY <1>1, Greatest
  <1>3. \E k \in s : \A m \in s : k >= m
    BY <1>1, <1>2
  <1>4. Max(s) \in s /\ \A m \in s : Max(s) >= m
    BY <1>3 DEF Max
  <1> QED
    BY <1>1, <1>4 DEF Latest

\* Folds of two sequences agree on the indices that come before the first difference.
LEMMA FoldsAgree ==
  ASSUME NEW way, NEW n \in Nat, NEW m \in Nat, n <= m,
         NEW q, NEW u, \A i \in 1 .. n : q[i] = u[i],
         NEW g, Folded(way, q, 1 .. n, g), NEW h, Folded(way, u, 1 .. m, h)
  PROVE  \A s \in SUBSET (1 .. n) : g[s] = h[s]
  <1>1. PICK T : T = {s \in SUBSET (1 .. n) : g[s] # h[s]}
    OBVIOUS
  <1>2. SUFFICES ASSUME T # {} PROVE FALSE
    BY <1>1
  <1>3. PICK R : R = 1 .. n
    OBVIOUS
  <1>4. IsFiniteSet(R)
    <2>1. 1 \in Int /\ n \in Int
      OBVIOUS
    <2> QED
      BY <1>3, <2>1, FS_Interval
  <1>5. T \in SUBSET SUBSET R
    BY <1>1, <1>3
  <1>6. PICK s \in T : \A y \in T : ~ (y \subseteq s /\ y # s)
    BY ONLY <1>2, <1>4, <1>5, SmallestSubset
  <1>7. s \in SUBSET (1 .. n) /\ s \in SUBSET (1 .. m) /\ g[s] # h[s]
    BY <1>1, <1>6
  <1>8. /\ g[s] = IF s = {} THEN Blank ELSE Take(way, g[s \ {Latest(s)}], q[Latest(s)])
        /\ h[s] = IF s = {} THEN Blank ELSE Take(way, h[s \ {Latest(s)}], u[Latest(s)])
    BY <1>7 DEF Folded
  <1>9. s # {}
    BY <1>7, <1>8
  <1>10. Latest(s) \in s
    BY <1>7, <1>9, LastIn
  <1>11. g[s \ {Latest(s)}] = h[s \ {Latest(s)}]
    BY <1>1, <1>6, <1>7, <1>10
  <1>12. q[Latest(s)] = u[Latest(s)]
    BY <1>7, <1>10
  <1>13. QED BY <1>7, <1>8, <1>11, <1>12

\* Every fold exists.
LEMMA FoldExists ==
  ASSUME NEW way, NEW n \in Nat, NEW q
  PROVE  \E g : Folded(way, q, 1 .. n, g)
  <1> DEFINE T == {k \in Nat : ~ \E g : Folded(way, q, 1 .. k, g)}
             H(k) == CHOOSE g : Folded(way, q, 1 .. k, g)
  <1>1. SUFFICES ASSUME T # {} PROVE FALSE
    OBVIOUS
  <1>2. PICK k \in T : \A j \in T : k <= j
    <2>1. T \in SUBSET Nat
      OBVIOUS
    <2> HIDE DEF T
    <2>2. QED BY <1>1, <2>1, Smallest
  <1>3. k \in Nat /\ ~ \E g : Folded(way, q, 1 .. k, g)
    BY <1>2
  <1>4. CASE k = 0
    <2>1. PICK G : G = [s \in SUBSET (1 .. 0) |-> Blank]
      OBVIOUS
    <2>2. \A s \in SUBSET (1 .. 0) : s = {}
      OBVIOUS
    <2>3. Folded(way, q, 1 .. 0, G)
      BY <2>1, <2>2 DEF Folded
    <2>4. QED BY <1>3, <1>4, <2>3
  <1>5. CASE k # 0
    <2>1. k - 1 \in Nat /\ k - 1 \notin T
      BY <1>2, <1>3, <1>5
    <2>2. PICK g : Folded(way, q, 1 .. (k - 1), g)
      BY <2>1
    <2>3. PICK G : G = [s \in SUBSET (1 .. k) |->
                          IF k \in s THEN Take(way, g[s \ {k}], q[k]) ELSE g[s]]
      OBVIOUS
    <2>4. ASSUME NEW s \in SUBSET (1 .. k)
          PROVE  G[s] = IF s = {} THEN Blank ELSE Take(way, G[s \ {Latest(s)}], q[Latest(s)])
      <3>1. CASE k \in s
        <4>1. Latest(s) \in s /\ k <= Latest(s) /\ Latest(s) <= k
          <5>1. Latest(s) \in s /\ k <= Latest(s)
            BY <1>3, <3>1, LastIn
          <5>2. Latest(s) \in 1 .. k
            BY <5>1
          <5>3. QED BY <1>3, <5>1, <5>2
        <4>2. Latest(s) = k
          <5>1. PICK j : j = Latest(s)
            OBVIOUS
          <5>2. j \in 1 .. k /\ k <= j /\ j <= k
            BY <4>1, <5>1
          <5>3. QED BY <1>3, <5>1, <5>2
        <4>3. s \ {k} \in SUBSET (1 .. k) /\ k \notin s \ {k}
          OBVIOUS
        <4>4. G[s \ {k}] = g[s \ {k}]
          BY <2>3, <4>3
        <4>5. QED BY <2>3, <3>1, <4>2, <4>4
      <3>2. CASE k \notin s
        <4>1. s \in SUBSET (1 .. (k - 1)) /\ G[s] = g[s]
          BY <1>3, <2>3, <3>2
        <4>2. G[s \ {Latest(s)}] = g[s \ {Latest(s)}]
          BY <3>2, <2>3
        <4>3. g[s] = IF s = {} THEN Blank ELSE Take(way, g[s \ {Latest(s)}], q[Latest(s)])
          BY <2>2, <4>1 DEF Folded
        <4>4. QED BY <4>1, <4>2, <4>3
      <3>3. QED BY <3>1, <3>2
    <2>5. Folded(way, q, 1 .. k, G)
      <3>1. G = [s \in SUBSET (1 .. k) |-> G[s]]
        BY <2>3
      <3>2. QED BY <2>4, <3>1 DEF Folded
    <2>6. QED BY <1>3, <2>5
  <1>6. QED BY <1>4, <1>5

\* What a fold over a sequence is: on an empty one and on one with one element more.
FoldOf(way, q) == (CHOOSE g : Folded(way, q, 1 .. Len(q), g))[1 .. Len(q)]

LEMMA FoldIs ==
  ASSUME NEW way, NEW q, Len(q) \in Nat, NEW g, Folded(way, q, 1 .. Len(q), g)
  PROVE  g[1 .. Len(q)] = FoldOf(way, q)
  <1>1. PICK h : h = CHOOSE f : Folded(way, q, 1 .. Len(q), f)
    OBVIOUS
  <1>2. Folded(way, q, 1 .. Len(q), h)
    BY <1>1
  <1>3. \A s \in SUBSET (1 .. Len(q)) : g[s] = h[s]
    <2>1. PICK n \in Nat : n = Len(q)
      OBVIOUS
    <2>2. Folded(way, q, 1 .. n, g) /\ Folded(way, q, 1 .. n, h) /\ n <= n /\ \A i \in 1 .. n : q[i] = q[i]
      BY <1>2, <2>1
    <2>3. \A s \in SUBSET (1 .. n) : g[s] = h[s]
      BY ONLY <2>2, n \in Nat, FoldsAgree
    <2> QED
      BY <2>1, <2>3
  <1> QED
    BY <1>1, <1>3 DEF FoldOf

LEMMA FoldOfNothing ==
  ASSUME NEW way
  PROVE  FoldOf(way, << >>) = Blank
  <1>1. Len(<< >>) = 0
    OBVIOUS
  <1>2. PICK g : Folded(way, << >>, 1 .. 0, g)
    BY FoldExists
  <1>3. 1 .. 0 = {}
    OBVIOUS
  <1>4. g[1 .. 0] = Blank
    BY <1>2, <1>3 DEF Folded
  <1> QED
    BY <1>1, <1>2, <1>4, FoldIs

LEMMA FoldOfMore ==
  ASSUME NEW way, NEW D, NEW q \in Seq(D), NEW x \in D
  PROVE  FoldOf(way, Append(q, x)) = Take(way, FoldOf(way, q), x)
  <1>1. PICK u, n : u = Append(q, x) /\ n = Len(q)
    OBVIOUS
  <1>2. n \in Nat /\ Len(u) = n + 1 /\ u[n + 1] = x /\ \A i \in 1 .. n : u[i] = q[i]
    BY <1>1
  <1>3. PICK g : Folded(way, q, 1 .. n, g)
    BY <1>2, FoldExists
  <1>4. PICK h : Folded(way, u, 1 .. (n + 1), h)
    <2>1. PICK m \in Nat : m = n + 1
      BY <1>2
    <2>2. \E h : Folded(way, u, 1 .. m, h)
      BY FoldExists
    <2> QED
      BY <2>1, <2>2
  <1>5. \A s \in SUBSET (1 .. n) : g[s] = h[s]
    <2>1. PICK m \in Nat : m = n + 1
      BY <1>2
    <2>2. n \in Nat /\ m \in Nat /\ n <= m
      BY <1>2, <2>1
    <2>3. \A i \in 1 .. n : q[i] = u[i]
      BY <1>2
    <2>4. Folded(way, u, 1 .. m, h) /\ Folded(way, q, 1 .. n, g)
      BY <1>3, <1>4, <2>1
    <2>5. \A s \in SUBSET (1 .. n) : g[s] = h[s]
      BY ONLY <2>2, <2>3, <2>4, FoldsAgree
    <2> QED
      BY <2>5
  <1>6. PICK s : s = 1 .. (n + 1)
    OBVIOUS
  <1>7. s \in SUBSET (1 .. (n + 1)) /\ s # {} /\ n + 1 \in s /\ n + 1 \in Nat
    BY <1>2, <1>6
  <1>8. Latest(s) = n + 1
    <2>1. Latest(s) \in s /\ n + 1 <= Latest(s)
      BY <1>7, LastIn
    <2> QED
      BY <1>2, <1>6, <2>1
  <1>9. s \ {n + 1} = 1 .. n
    BY <1>2, <1>6
  <1>10. h[s] = Take(way, h[1 .. n], x)
    BY <1>2, <1>4, <1>7, <1>8, <1>9 DEF Folded
  <1>11. h[1 .. n] = FoldOf(way, q)
    <2>1. g[1 .. n] = FoldOf(way, q)
      BY <1>1, <1>2, <1>3, FoldIs
    <2> QED
      BY <1>5, <2>1
  <1>12. h[s] = FoldOf(way, u)
    BY <1>2, <1>4, <1>6, FoldIs
  <1> QED
    BY <1>1, <1>10, <1>11, <1>12

\* The folds of the model are these.
LEMMA EncodeIs ==
  ASSUME NEW q, q \in Seq(0 .. 255)
  PROVE  base32Encode(q) = PadEnd(FoldOf("encode", q))
  <1> DEFINE P(g) == g = [s \in SUBSET DOMAIN q |->
                            IF s = {} THEN Blank ELSE EncodeByte(g[s \ {Max(s)}], q[Max(s)])]
             c == CHOOSE g : P(g)
  <1>1. FoldLeft(EncodeByte, Blank, q) = c[DOMAIN q]
    BY DEF FoldLeft, MapThenFoldSet
  <1>2. DOMAIN q = 1 .. Len(q) /\ Len(q) \in Nat
    OBVIOUS
  <1>3. \A g : P(g) <=> Folded("encode", q, 1 .. Len(q), g)
    BY <1>2 DEF Folded, Take, Latest
  <1>4. \E g : P(g)
    BY <1>2, <1>3, FoldExists
  <1>5. P(c)
    <2> HIDE DEF P
    <2> QED BY <1>4
  <1>6. Folded("encode", q, 1 .. Len(q), c)
    <2> HIDE DEF P, c
    <2> QED BY <1>3, <1>5
  <1>7. c[1 .. Len(q)] = FoldOf("encode", q)
    <2> HIDE DEF P, c
    <2> QED BY <1>2, <1>6, FoldIs
  <1>8. FoldLeft(EncodeByte, Blank, q) = FoldOf("encode", q)
    <2> HIDE DEF P, c
    <2> QED BY <1>1, <1>2, <1>7
  <1> QED
    BY <1>8 DEF base32Encode, Blank

LEMMA DecodeIs ==
  ASSUME NEW q, q \in Seq(0 .. 31)
  PROVE  base32Decode(q) = FoldOf("decode", q).out
  <1> DEFINE P(g) == g = [s \in SUBSET DOMAIN q |->
                            IF s = {} THEN Blank ELSE DecodeLetter(g[s \ {Max(s)}], q[Max(s)])]
             c == CHOOSE g : P(g)
  <1>1. FoldLeft(DecodeLetter, Blank, q) = c[DOMAIN q]
    BY DEF FoldLeft, MapThenFoldSet
  <1>2. DOMAIN q = 1 .. Len(q) /\ Len(q) \in Nat
    OBVIOUS
  <1>3. \A g : P(g) <=> Folded("decode", q, 1 .. Len(q), g)
    BY <1>2 DEF Folded, Take, Latest
  <1>4. \E g : P(g)
    BY <1>2, <1>3, FoldExists
  <1>5. P(c)
    <2> HIDE DEF P
    <2> QED BY <1>4
  <1>6. Folded("decode", q, 1 .. Len(q), c)
    <2> HIDE DEF P, c
    <2> QED BY <1>3, <1>5
  <1>7. c[1 .. Len(q)] = FoldOf("decode", q)
    <2> HIDE DEF P, c
    <2> QED BY <1>2, <1>6, FoldIs
  <1>8. FoldLeft(DecodeLetter, Blank, q) = FoldOf("decode", q)
    <2> HIDE DEF P, c
    <2> QED BY <1>1, <1>2, <1>7
  <1> QED
    BY <1>8 DEF base32Decode, Blank

--------------------------------------------------------------------------------
(* The bit buffer                                                          *)

\* The word has more bits than the 12 that are ever pending.
LEMMA WordIs == \E K \in Nat \ {0} : Pow2(WordBits) = 4096 * K
  <1>1. PICK w \in 16 .. 32 : w = WordBits
    BY TotpAssumption DEF TotpAssumption
  <1>2. PICK k : k = 2 ^ w \div 4096
    OBVIOUS
  <1>3. w = 16 => k = 16 /\ 2 ^ w = 4096 * 16
    BY <1>2
  <1>4. w = 17 => k = 32 /\ 2 ^ w = 4096 * 32
    BY <1>2
  <1>5. w = 18 => k = 64 /\ 2 ^ w = 4096 * 64
    BY <1>2
  <1>6. w = 19 => k = 128 /\ 2 ^ w = 4096 * 128
    BY <1>2
  <1>7. w = 20 => k = 256 /\ 2 ^ w = 4096 * 256
    BY <1>2
  <1>8. w = 21 => k = 512 /\ 2 ^ w = 4096 * 512
    BY <1>2
  <1>9. w = 22 => k = 1024 /\ 2 ^ w = 4096 * 1024
    BY <1>2
  <1>10. w = 23 => k = 2048 /\ 2 ^ w = 4096 * 2048
    BY <1>2
  <1>11. w = 24 => k = 4096 /\ 2 ^ w = 4096 * 4096
    BY <1>2
  <1>12. w = 25 => k = 8192 /\ 2 ^ w = 4096 * 8192
    BY <1>2
  <1>13. w = 26 => k = 16384 /\ 2 ^ w = 4096 * 16384
    BY <1>2
  <1>14. w = 27 => k = 32768 /\ 2 ^ w = 4096 * 32768
    BY <1>2
  <1>15. w = 28 => k = 65536 /\ 2 ^ w = 4096 * 65536
    BY <1>2
  <1>16. w = 29 => k = 131072 /\ 2 ^ w = 4096 * 131072
    BY <1>2
  <1>17. w = 30 => k = 262144 /\ 2 ^ w = 4096 * 262144
    BY <1>2
  <1>18. w = 31 => k = 524288 /\ 2 ^ w = 4096 * 524288
    BY <1>2
  <1>19. w = 32 => k = 1048576 /\ 2 ^ w = 4096 * 1048576
    BY <1>2
  <1>20. k \in Nat \ {0} /\ 2 ^ w = 4096 * k
    BY <1>3, <1>4, <1>5, <1>6, <1>7, <1>8, <1>9, <1>10, <1>11,
       <1>12, <1>13, <1>14, <1>15, <1>16, <1>17, <1>18, <1>19
  <1> QED
    BY <1>1, <1>20 DEF Pow2

\* What is left of a number in the word differs from it by a multiple of 4096.
LEMMA InWord ==
  ASSUME NEW y \in Nat
  PROVE  y % Pow2(WordBits) \in Nat /\ \E t \in Int : y % Pow2(WordBits) = y + 4096 * t
  <1>1. PICK K \in Nat \ {0} : Pow2(WordBits) = 4096 * K
    BY WordIs
  <1>2. PICK P \in Nat : P = 4096 * K /\ P > 0 /\ P = Pow2(WordBits)
    BY <1>1
  <1>3. y % P \in Int /\ 0 <= y % P /\ y \div P \in Int /\ y = P * (y \div P) + (y % P)
    BY <1>2, SMTT(30)
  <1>4. PICK q \in Int, r \in Nat : q = y \div P /\ r = y % P
    BY <1>3
  <1>5. P * q = 4096 * (K * q) /\ K * q \in Int
    BY <1>2, <1>4, SMTT(30)
  <1>6. PICK c \in Int : c = K * q
    BY <1>5
  <1>7. PICK t \in Int : t = -c
    OBVIOUS
  <1>8. r = y + 4096 * t
    BY <1>3, <1>4, <1>5, <1>6, <1>7
  <1> QED
    BY <1>2, <1>4, <1>8

\* So what is pushed into it keeps its lower 12 bits.
LEMMA Pushed ==
  ASSUME NEW z \in Nat, NEW x \in Nat
  PROVE  /\ ((z % Pow2(WordBits)) + x) % Pow2(WordBits) \in Nat
         /\ \E t \in Int : ((z % Pow2(WordBits)) + x) % Pow2(WordBits) = z + x + 4096 * t
  <1>1. PICK m \in Nat, a \in Int : m = z % Pow2(WordBits) /\ m = z + 4096 * a
    <2>1. z % Pow2(WordBits) \in Nat
      BY InWord
    <2>2. PICK a \in Int : z % Pow2(WordBits) = z + 4096 * a
      BY InWord
    <2> QED
      BY <2>1, <2>2
  <1>2. PICK y \in Nat : y = m + x
    OBVIOUS
  <1>3. PICK w \in Nat, c \in Int : w = y % Pow2(WordBits) /\ w = y + 4096 * c
    <2>1. y % Pow2(WordBits) \in Nat
      BY InWord
    <2>2. PICK c \in Int : y % Pow2(WordBits) = y + 4096 * c
      BY InWord
    <2> QED
      BY <2>1, <2>2
  <1>4. PICK t \in Int : t = a + c
    OBVIOUS
  <1>5. w = z + x + 4096 * t
    BY <1>1, <1>2, <1>3, <1>4
  <1> QED
    BY <1>1, <1>2, <1>3, <1>5

\* The word after a byte, and after a letter.
EncWord(v, b) == (Shl(v, 8) + b) % Pow2(WordBits)
DecWord(u, l) == (Shl(u, 5) + l) % Pow2(WordBits)

\* What waited is still there above what was pushed.
Lifts(w, z) == w \in Nat /\ \E t \in Int : w = z + 4096 * t

LEMMA EncWordAt ==
  ASSUME NEW v \in Nat, NEW b \in 0 .. 255
  PROVE  Lifts(EncWord(v, b), 256 * v + b)
  <1>1. Shl(v, 8) = (v * 256) % Pow2(WordBits)
    <2>1. Pow2(8) = 256
      BY DEF Pow2
    <2> QED
      BY <2>1 DEF Shl
  <1>2. PICK z \in Nat : z = 256 * v /\ z = v * 256
    OBVIOUS
  <1>3. PICK w : w = ((z % Pow2(WordBits)) + b) % Pow2(WordBits) /\ w = EncWord(v, b)
    BY <1>1, <1>2 DEF EncWord
  <1>4. PICK t \in Int : w = 256 * v + b + 4096 * t /\ w \in Nat
    <2>1. b \in Nat
      OBVIOUS
    <2> QED
      BY <1>2, <1>3, <2>1, Pushed
  <1> QED
    BY <1>3, <1>4 DEF Lifts

LEMMA DecWordAt ==
  ASSUME NEW u \in Nat, NEW l \in 0 .. 31
  PROVE  Lifts(DecWord(u, l), 32 * u + l)
  <1>1. Shl(u, 5) = (u * 32) % Pow2(WordBits)
    <2>1. Pow2(5) = 32
      BY DEF Pow2
    <2> QED
      BY <2>1 DEF Shl
  <1>2. PICK z \in Nat : z = 32 * u /\ z = u * 32
    OBVIOUS
  <1>3. PICK x : x = ((z % Pow2(WordBits)) + l) % Pow2(WordBits) /\ x = DecWord(u, l)
    BY <1>1, <1>2 DEF DecWord
  <1>4. PICK t \in Int : x = 32 * u + l + 4096 * t /\ x \in Nat
    <2>1. l \in Nat
      OBVIOUS
    <2> QED
      BY <1>2, <1>3, <2>1, Pushed
  <1> QED
    BY <1>3, <1>4 DEF Lifts

Buf(v, n, o) == [val |-> v, bits |-> n, out |-> o]

\* The letters in the word after a byte, and the byte in the word after a letter, above
\* what waits then.
ByteIn(w, v, b) ==
    /\ w \in Nat /\ w % 2 = b % 2 /\ w % 4 = b % 4 /\ w % 8 = b % 8 /\ w % 16 = b % 16
    /\ Shr(w, 3) % 32 = b \div 8
    /\ Shr(w, 4) % 32 = (v % 2) * 16 + (b \div 16)
    /\ Shr(w, 5) % 32 = (v % 4) * 8 + (b \div 32) /\ Shr(w, 0) % 32 = b % 32
    /\ Shr(w, 6) % 32 = (v % 8) * 4 + (b \div 64) /\ Shr(w, 1) % 32 = (b \div 2) % 32
    /\ Shr(w, 7) % 32 = (v % 16) * 2 + (b \div 128) /\ Shr(w, 2) % 32 = (b \div 4) % 32
LetterIn(x, u, l) ==
    /\ x \in Nat /\ x % 32 = l /\ x % 64 = (u % 2) * 32 + l /\ x % 128 = (u % 4) * 32 + l
    /\ Shr(x, 0) % 256 = (u % 8) * 32 + l
    /\ Shr(x, 1) % 256 = (u % 16) * 16 + (l \div 2) /\ x % 2 = l % 2
    /\ Shr(x, 2) % 256 = (u % 32) * 8 + (l \div 4) /\ x % 4 = l % 4
    /\ Shr(x, 3) % 256 = (u % 64) * 4 + (l \div 8) /\ x % 8 = l % 8
    /\ Shr(x, 4) % 256 = (u % 128) * 2 + (l \div 16) /\ x % 16 = l % 16

LEMMA ShrIs ==
  ASSUME NEW w \in Nat
  PROVE  /\ Shr(w, 0) = w \div 1 /\ Shr(w, 1) = w \div 2 /\ Shr(w, 2) = w \div 4 /\ Shr(w, 3) = w \div 8
         /\ Shr(w, 4) = w \div 16 /\ Shr(w, 5) = w \div 32 /\ Shr(w, 6) = w \div 64 /\ Shr(w, 7) = w \div 128
  BY DEF Shr, Pow2

LEMMA ByteGoesIn ==
  ASSUME NEW v \in Nat, NEW b \in 0 .. 255
  PROVE  ByteIn(EncWord(v, b), v, b)
  <1>1. PICK w \in Nat, t \in Int : w = EncWord(v, b) /\ w = 256 * v + b + 4096 * t
    <2>1. Lifts(EncWord(v, b), 256 * v + b)
      BY Zenon, EncWordAt
    <2> QED
      BY <2>1 DEF Lifts
  <1>2. (w \div 8) % 32 = b \div 8 /\ w % 8 = b % 8
    BY <1>1, SMTT(30)
  <1>3. (w \div 16) % 32 = (v % 2) * 16 + (b \div 16) /\ w % 16 = b % 16
    BY <1>1, SMTT(30)
  <1>4. (w \div 32) % 32 = (v % 4) * 8 + (b \div 32)
    BY <1>1, SMTT(30)
  <1>5. (w \div 1) % 32 = b % 32
    BY <1>1, SMTT(30)
  <1>6. (w \div 64) % 32 = (v % 8) * 4 + (b \div 64)
    <2>1. PICK q \in Nat, r \in 0 .. 7, j \in 0 .. 3 : v = 8 * q + r /\ r = v % 8 /\ j = b \div 64
      <3>1. v = 8 * (v \div 8) + (v % 8) /\ v \div 8 \in Nat /\ v % 8 \in 0 .. 7
        BY SMTT(30)
      <3>2. b \div 64 \in 0 .. 3
        BY SMTT(30)
      <3> QED
        BY <3>1, <3>2
    <2>2. PICK s \in Int : s = q + 2 * t
      OBVIOUS
    <2>3. w \div 64 = 32 * s + (r * 4 + j)
      BY <1>1, <2>1, <2>2, SMTT(30)
    <2>4. r * 4 + j \in 0 .. 31
      BY SMTT(30)
    <2> QED
      BY <2>1, <2>3, <2>4, SMTT(30)
  <1>7. (w \div 2) % 32 = (b \div 2) % 32
    BY <1>1, SMTT(30)
  <1>8. (w \div 128) % 32 = (v % 16) * 2 + (b \div 128)
    <2>1. PICK q \in Nat, r \in 0 .. 15, j \in 0 .. 1 : v = 16 * q + r /\ r = v % 16 /\ j = b \div 128
      <3>1. v = 16 * (v \div 16) + (v % 16) /\ v \div 16 \in Nat /\ v % 16 \in 0 .. 15
        BY SMTT(30)
      <3>2. b \div 128 \in 0 .. 1
        BY SMTT(30)
      <3> QED
        BY <3>1, <3>2
    <2>2. PICK s \in Int : s = q + t
      OBVIOUS
    <2>3. w \div 128 = 32 * s + (r * 2 + j)
      BY <1>1, <2>1, <2>2, SMTT(30)
    <2>4. r * 2 + j \in 0 .. 31
      BY <2>1, SMTT(30)
    <2> QED
      BY <2>1, <2>3, <2>4, SMTT(30)
  <1>9. (w \div 4) % 32 = (b \div 4) % 32
    BY <1>1, SMTT(30)
  <1>10. w % 2 = b % 2 /\ w % 4 = b % 4
    BY <1>1, SMTT(30)
  <1>11. ByteIn(w, v, b)
    <2>1. /\ Shr(w, 0) = w \div 1 /\ Shr(w, 1) = w \div 2 /\ Shr(w, 2) = w \div 4 /\ Shr(w, 3) = w \div 8
          /\ Shr(w, 4) = w \div 16 /\ Shr(w, 5) = w \div 32 /\ Shr(w, 6) = w \div 64 /\ Shr(w, 7) = w \div 128
      BY ShrIs
    <2> QED
      BY <1>2, <1>3, <1>4, <1>5, <1>6, <1>7, <1>8, <1>9, <1>10, <2>1 DEF ByteIn
  <1> QED
    BY <1>1, <1>11

LEMMA LetterGoesIn ==
  ASSUME NEW u \in Nat, NEW l \in 0 .. 31
  PROVE  LetterIn(DecWord(u, l), u, l)
  <1>1. PICK x \in Nat, t \in Int : x = DecWord(u, l) /\ x = 32 * u + l + 4096 * t
    <2>1. Lifts(DecWord(u, l), 32 * u + l)
      BY Zenon, DecWordAt
    <2> QED
      BY <2>1 DEF Lifts
  <1>2. (x \div 1) % 256 = (u % 8) * 32 + l /\ x % 32 = l
    BY <1>1, SMTT(30)
  <1>3. (x \div 2) % 256 = (u % 16) * 16 + (l \div 2) /\ x % 2 = l % 2
    BY <1>1, SMTT(30)
  <1>4. (x \div 4) % 256 = (u % 32) * 8 + (l \div 4) /\ x % 4 = l % 4
    BY <1>1, SMTT(30)
  <1>5. (x \div 8) % 256 = (u % 64) * 4 + (l \div 8) /\ x % 8 = l % 8
    BY <1>1, SMTT(30)
  <1>6. (x \div 16) % 256 = (u % 128) * 2 + (l \div 16) /\ x % 16 = l % 16
    BY <1>1, SMTT(30)
  <1>7. x % 64 = (u % 2) * 32 + l /\ x % 128 = (u % 4) * 32 + l
    BY <1>1, SMTT(30)
  <1>8. LetterIn(x, u, l)
    <2>1. /\ Shr(x, 0) = x \div 1 /\ Shr(x, 1) = x \div 2 /\ Shr(x, 2) = x \div 4 /\ Shr(x, 3) = x \div 8
          /\ Shr(x, 4) = x \div 16
      BY ShrIs
    <2> QED
      BY <1>2, <1>3, <1>4, <1>5, <1>6, <1>7, <2>1 DEF LetterIn
  <1> QED
    BY <1>1, <1>8

\* What a byte does to a buffer, and what a letter does.
LEMMA EncodeTo ==
  ASSUME NEW v, NEW n, NEW o, NEW b, NEW k, NEW m, k = (n + 8) - 5, m = (n + 8) - 10
  PROVE  EncodeByte(Buf(v, n, o), b) =
             IF k >= 5
             THEN Buf(EncWord(v, b), m, Append(Append(o, Shr(EncWord(v, b), k) % 32), Shr(EncWord(v, b), m) % 32))
             ELSE Buf(EncWord(v, b), k, Append(o, Shr(EncWord(v, b), k) % 32))
  <1>1. PICK st : st = Buf(v, n, o)
    OBVIOUS
  <1>2. st.val = v /\ st.bits = n /\ st.out = o
    BY <1>1 DEF Buf
  <1>3. PICK w : w = EncWord(v, b) /\ w = EncWord(st.val, b)
    BY <1>2, Zenon
  <1>4. k = (st.bits + 8) - 5 /\ m = (st.bits + 8) - 10
    BY <1>2, Zenon
  <1>5. EncodeByte(st, b) =
             IF k >= 5
             THEN Buf(w, m, Append(Append(st.out, Shr(w, k) % 32), Shr(w, m) % 32))
             ELSE Buf(w, k, Append(st.out, Shr(w, k) % 32))
    BY <1>3, <1>4, Zenon DEF EncodeByte, EncWord, Buf
  <1> QED
    BY <1>1, <1>2, <1>3, <1>5, Zenon

LEMMA DecodeTo ==
  ASSUME NEW u, NEW n, NEW o, NEW l, NEW k, NEW m, k = n + 5, m = (n + 5) - 8
  PROVE  DecodeLetter(Buf(u, n, o), l) =
             IF k >= 8
             THEN Buf(DecWord(u, l), m, Append(o, Shr(DecWord(u, l), m) % 256))
             ELSE Buf(DecWord(u, l), k, o)
  <1>1. PICK st : st = Buf(u, n, o)
    OBVIOUS
  <1>2. st.val = u /\ st.bits = n /\ st.out = o
    BY <1>1 DEF Buf
  <1>3. PICK x : x = DecWord(u, l) /\ x = DecWord(st.val, l)
    BY <1>2, Zenon
  <1>4. k = st.bits + 5 /\ m = (st.bits + 5) - 8
    BY <1>2, Zenon
  <1>5. DecodeLetter(st, l) =
             IF k >= 8
             THEN Buf(x, m, Append(st.out, Shr(x, m) % 256))
             ELSE Buf(x, k, st.out)
    BY <1>3, <1>4, Zenon DEF DecodeLetter, DecWord, Buf
  <1> QED
    BY <1>1, <1>2, <1>3, <1>5, Zenon

\* A byte gives one letter or two, a letter gives a byte or none.
LEMMA EncodeOne ==
  ASSUME NEW v, NEW n \in 0 .. 1, NEW o, NEW b
  PROVE  EncodeByte(Buf(v, n, o), b) = Buf(EncWord(v, b), n + 3, Append(o, Shr(EncWord(v, b), n + 3) % 32))
  <1>1. n + 3 = (n + 8) - 5 /\ ~(n + 3 >= 5)
    OBVIOUS
  <1> QED
    BY <1>1, EncodeTo

LEMMA EncodeTwo ==
  ASSUME NEW v, NEW n \in 2 .. 4, NEW o, NEW b
  PROVE  EncodeByte(Buf(v, n, o), b) =
             Buf(EncWord(v, b), n - 2, Append(Append(o, Shr(EncWord(v, b), n + 3) % 32), Shr(EncWord(v, b), n - 2) % 32))
  <1>1. n + 3 = (n + 8) - 5 /\ n - 2 = (n + 8) - 10 /\ n + 3 >= 5
    OBVIOUS
  <1> QED
    BY <1>1, EncodeTo

LEMMA DecodeOne ==
  ASSUME NEW u, NEW n \in 3 .. 7, NEW o, NEW l
  PROVE  DecodeLetter(Buf(u, n, o), l) = Buf(DecWord(u, l), n - 3, Append(o, Shr(DecWord(u, l), n - 3) % 256))
  <1>1. n - 3 = (n + 5) - 8 /\ n + 5 >= 8
    OBVIOUS
  <1> QED
    BY <1>1, DecodeTo

LEMMA DecodeNone ==
  ASSUME NEW u, NEW n \in 0 .. 2, NEW o, NEW l
  PROVE  DecodeLetter(Buf(u, n, o), l) = Buf(DecWord(u, l), n + 5, o)
  <1>1. ~(n + 5 >= 8)
    OBVIOUS
  <1> QED
    BY <1>1, DecodeTo

\* What waits in the two buffers is either nothing or the last byte: its upper bits in the
\* decoder's, its lower ones in the encoder's.
LEMMA Powers ==
    /\ Pow2(0) = 1 /\ Pow2(1) = 2 /\ Pow2(2) = 4 /\ Pow2(3) = 8
    /\ Pow2(4) = 16 /\ Pow2(5) = 32 /\ Pow2(6) = 64 /\ Pow2(7) = 128
  BY DEF Pow2

Byte(e, u, v) == (u % Pow2(8 - e)) * Pow2(e) + (v % Pow2(e))
Waits(q, es, ds) == \E v, u \in Nat : \E o, r :
    \/ es = Buf(v, 0, o) /\ ds = Buf(u, 0, r) /\ q = r
    \/ \E e \in 1 .. 4 : es = Buf(v, e, o) /\ ds = Buf(u, 8 - e, r) /\ q = Append(r, Byte(e, u, v))

LEMMA ByteIs ==
  ASSUME NEW u, NEW v
  PROVE  /\ Byte(1, u, v) = (u % 128) * 2 + (v % 2)
         /\ Byte(2, u, v) = (u % 64) * 4 + (v % 4)
         /\ Byte(3, u, v) = (u % 32) * 8 + (v % 8)
         /\ Byte(4, u, v) = (u % 16) * 16 + (v % 16)
  <1>1. 8 - 1 = 7 /\ 8 - 2 = 6 /\ 8 - 3 = 5 /\ 8 - 4 = 4
    OBVIOUS
  <1> QED
    BY <1>1, Powers DEF Byte

\* The letters a byte makes keep it so.  One lemma for each number of bits that wait.
Follows(q, es, ds, b) == \E l \in 0 .. 31 :
    \/ /\ EncodeByte(es, b).out = Append(es.out, l)
       /\ Waits(Append(q, b), EncodeByte(es, b), DecodeLetter(ds, l))
    \/ \E k \in 0 .. 31 :
          /\ EncodeByte(es, b).out = Append(Append(es.out, l), k)
          /\ Waits(Append(q, b), EncodeByte(es, b), DecodeLetter(DecodeLetter(ds, l), k))

LEMMA FromNone ==
  ASSUME NEW v \in Nat, NEW u \in Nat, NEW o, NEW r, NEW b \in 0 .. 255
  PROVE  Follows(r, Buf(v, 0, o), Buf(u, 0, r), b)
  <1>1. PICK l \in 0 .. 31 : l = b \div 8
    BY SMTT(30)
  <1>3. PICK w : w = EncWord(v, b) /\ ByteIn(w, v, b)
    BY ByteGoesIn
  <1>4. PICK x : x = DecWord(u, l) /\ LetterIn(x, u, l)
    BY LetterGoesIn
  <1>6. EncodeByte(Buf(v, 0, o), b) = Buf(w, 3, Append(o, l))
    <2>1. Shr(w, 3) % 32 = l
      BY <1>1, <1>3 DEF ByteIn
    <2> QED
      BY <1>3, <2>1, EncodeOne
  <1>7. DecodeLetter(Buf(u, 0, r), l) = Buf(x, 5, r)
    BY <1>4, DecodeNone
  <1>9. Waits(Append(r, b), Buf(w, 3, Append(o, l)), Buf(x, 5, r))
    <2>1. x \in Nat /\ w \in Nat /\ w % 8 = b % 8 /\ x % 32 = l
      BY <1>3, <1>4 DEF ByteIn, LetterIn
    <2>2. (x % 32) * 8 + (w % 8) = b
      BY <1>1, <2>1, SMTT(30)
    <2>3. Byte(3, x, w) = b
      BY <2>2, ByteIs
    <2>4. 3 \in 1 .. 4 /\ 8 - 3 = 5
      OBVIOUS
    <2> QED
      BY <2>1, <2>3, <2>4, Zenon DEF Waits
  <1> QED
    <2>1. Buf(v, 0, o).out = o /\ Buf(w, 3, Append(o, l)).out = Append(o, l)
      BY DEF Buf
    <2> QED
      BY <1>6, <1>7, <1>9, <2>1, Zenon DEF Follows

LEMMA FromOne ==
  ASSUME NEW v \in Nat, NEW u \in Nat, NEW o, NEW r, NEW b \in 0 .. 255
  PROVE  Follows(Append(r, Byte(1, u, v)), Buf(v, 1, o), Buf(u, 7, r), b)
  <1>1. PICK l \in 0 .. 31 : l = (v % 2) * 16 + (b \div 16)
    BY SMTT(30)
  <1>3. PICK w : w = EncWord(v, b) /\ ByteIn(w, v, b)
    BY ByteGoesIn
  <1>4. PICK x : x = DecWord(u, l) /\ LetterIn(x, u, l)
    BY LetterGoesIn
  <1>6. EncodeByte(Buf(v, 1, o), b) = Buf(w, 4, Append(o, l))
    <2>1. Shr(w, 4) % 32 = l
      BY <1>1, <1>3 DEF ByteIn
    <2> QED
      BY <1>3, <2>1, EncodeOne
  <1>7. DecodeLetter(Buf(u, 7, r), l) = Buf(x, 4, Append(r, Byte(1, u, v)))
    <2>1. Shr(x, 4) % 256 = (u % 128) * 2 + (l \div 16)
      BY <1>4 DEF LetterIn
    <2>2. l \div 16 = v % 2
      BY <1>1, SMTT(30)
    <2>3. Byte(1, u, v) = (u % 128) * 2 + (v % 2)
      BY ByteIs
    <2>4. Shr(x, 4) % 256 = Byte(1, u, v)
      BY <2>1, <2>2, <2>3
    <2> QED
      BY <1>4, <2>4, DecodeOne
  <1>9. Waits(Append(Append(r, Byte(1, u, v)), b), Buf(w, 4, Append(o, l)), Buf(x, 4, Append(r, Byte(1, u, v))))
    <2>1. x \in Nat /\ w \in Nat /\ w % 16 = b % 16 /\ x % 16 = l % 16
      BY <1>3, <1>4 DEF ByteIn, LetterIn
    <2>2. (x % 16) * 16 + (w % 16) = b
      BY <1>1, <2>1, SMTT(30)
    <2>3. Byte(4, x, w) = b
      BY <2>2, ByteIs
    <2>4. 4 \in 1 .. 4 /\ 8 - 4 = 4
      OBVIOUS
    <2> QED
      BY <2>1, <2>3, <2>4, Zenon DEF Waits
  <1> QED
    <2>1. Buf(v, 1, o).out = o /\ Buf(w, 4, Append(o, l)).out = Append(o, l)
      BY DEF Buf
    <2> QED
      BY <1>6, <1>7, <1>9, <2>1, Zenon DEF Follows

LEMMA FromTwo ==
  ASSUME NEW v \in Nat, NEW u \in Nat, NEW o, NEW r, NEW b \in 0 .. 255
  PROVE  Follows(Append(r, Byte(2, u, v)), Buf(v, 2, o), Buf(u, 6, r), b)
  <1>1. PICK l \in 0 .. 31 : l = (v % 4) * 8 + (b \div 32)
    BY SMTT(30)
  <1>2. PICK k \in 0 .. 31 : k = b % 32
    BY SMTT(30)
  <1>3. PICK w : w = EncWord(v, b) /\ ByteIn(w, v, b)
    BY ByteGoesIn
  <1>4. PICK x : x = DecWord(u, l) /\ LetterIn(x, u, l)
    BY LetterGoesIn
  <1>5. PICK y : y = DecWord(x, k) /\ LetterIn(y, x, k)
    <2>1. x \in Nat
      BY <1>4 DEF LetterIn
    <2> QED
      BY <2>1, LetterGoesIn
  <1>6. EncodeByte(Buf(v, 2, o), b) = Buf(w, 0, Append(Append(o, l), k))
    <2>1. Shr(w, 5) % 32 = l /\ Shr(w, 0) % 32 = k
      BY <1>1, <1>2, <1>3 DEF ByteIn
    <2> QED
      BY <1>3, <2>1, EncodeTwo
  <1>7. DecodeLetter(Buf(u, 6, r), l) = Buf(x, 3, Append(r, Byte(2, u, v)))
    <2>1. Shr(x, 3) % 256 = (u % 64) * 4 + (l \div 8)
      BY <1>4 DEF LetterIn
    <2>2. l \div 8 = v % 4
      BY <1>1, SMTT(30)
    <2>3. Byte(2, u, v) = (u % 64) * 4 + (v % 4)
      BY ByteIs
    <2>4. Shr(x, 3) % 256 = Byte(2, u, v)
      BY <2>1, <2>2, <2>3
    <2> QED
      BY <1>4, <2>4, DecodeOne
  <1>8. DecodeLetter(Buf(x, 3, Append(r, Byte(2, u, v))), k) = Buf(y, 0, Append(Append(r, Byte(2, u, v)), b))
    <2>1. Shr(y, 0) % 256 = (x % 8) * 32 + k
      BY <1>5 DEF LetterIn
    <2>2. x % 8 = l % 8
      BY <1>4 DEF LetterIn
    <2>3. (x % 8) * 32 + k = b
      BY <1>1, <1>2, <2>2, SMTT(30)
    <2> QED
      BY <1>5, <2>1, <2>3, DecodeOne
  <1>9. Waits(Append(Append(r, Byte(2, u, v)), b), Buf(w, 0, Append(Append(o, l), k)), Buf(y, 0, Append(Append(r, Byte(2, u, v)), b)))
    <2>1. w \in Nat /\ y \in Nat
      BY <1>3, <1>5 DEF ByteIn, LetterIn
    <2> QED
      BY <2>1, Zenon DEF Waits
  <1> QED
    <2>1. Buf(v, 2, o).out = o /\ Buf(w, 0, Append(Append(o, l), k)).out = Append(Append(o, l), k)
      BY DEF Buf
    <2> QED
      BY <1>6, <1>7, <1>8, <1>9, <2>1, Zenon DEF Follows

LEMMA FromThree ==
  ASSUME NEW v \in Nat, NEW u \in Nat, NEW o, NEW r, NEW b \in 0 .. 255
  PROVE  Follows(Append(r, Byte(3, u, v)), Buf(v, 3, o), Buf(u, 5, r), b)
  <1>1. PICK l \in 0 .. 31 : l = (v % 8) * 4 + (b \div 64)
    BY SMTT(30)
  <1>2. PICK k \in 0 .. 31 : k = (b \div 2) % 32
    BY SMTT(30)
  <1>3. PICK w : w = EncWord(v, b) /\ ByteIn(w, v, b)
    BY ByteGoesIn
  <1>4. PICK x : x = DecWord(u, l) /\ LetterIn(x, u, l)
    BY LetterGoesIn
  <1>5. PICK y : y = DecWord(x, k) /\ LetterIn(y, x, k)
    <2>1. x \in Nat
      BY <1>4 DEF LetterIn
    <2> QED
      BY <2>1, LetterGoesIn
  <1>6. EncodeByte(Buf(v, 3, o), b) = Buf(w, 1, Append(Append(o, l), k))
    <2>1. Shr(w, 6) % 32 = l /\ Shr(w, 1) % 32 = k
      BY <1>1, <1>2, <1>3 DEF ByteIn
    <2> QED
      BY <1>3, <2>1, EncodeTwo
  <1>7. DecodeLetter(Buf(u, 5, r), l) = Buf(x, 2, Append(r, Byte(3, u, v)))
    <2>1. Shr(x, 2) % 256 = (u % 32) * 8 + (l \div 4)
      BY <1>4 DEF LetterIn
    <2>2. l \div 4 = v % 8
      BY <1>1, SMTT(30)
    <2>3. Byte(3, u, v) = (u % 32) * 8 + (v % 8)
      BY ByteIs
    <2>4. Shr(x, 2) % 256 = Byte(3, u, v)
      BY <2>1, <2>2, <2>3
    <2> QED
      BY <1>4, <2>4, DecodeOne
  <1>8. DecodeLetter(Buf(x, 2, Append(r, Byte(3, u, v))), k) = Buf(y, 7, Append(r, Byte(3, u, v)))
    BY <1>5, DecodeNone
  <1>9. Waits(Append(Append(r, Byte(3, u, v)), b), Buf(w, 1, Append(Append(o, l), k)), Buf(y, 7, Append(r, Byte(3, u, v))))
    <2>1. y \in Nat /\ w \in Nat /\ w % 2 = b % 2 /\ y % 128 = (x % 4) * 32 + k /\ x % 4 = l % 4
      BY <1>3, <1>4, <1>5 DEF ByteIn, LetterIn
    <2>2. (y % 128) * 2 + (w % 2) = b
      BY <1>1, <1>2, <2>1, SMTT(30)
    <2>3. Byte(1, y, w) = b
      BY <2>2, ByteIs
    <2>4. 1 \in 1 .. 4 /\ 8 - 1 = 7
      OBVIOUS
    <2> QED
      BY <2>1, <2>3, <2>4, Zenon DEF Waits
  <1> QED
    <2>1. Buf(v, 3, o).out = o /\ Buf(w, 1, Append(Append(o, l), k)).out = Append(Append(o, l), k)
      BY DEF Buf
    <2> QED
      BY <1>6, <1>7, <1>8, <1>9, <2>1, Zenon DEF Follows

LEMMA FromFour ==
  ASSUME NEW v \in Nat, NEW u \in Nat, NEW o, NEW r, NEW b \in 0 .. 255
  PROVE  Follows(Append(r, Byte(4, u, v)), Buf(v, 4, o), Buf(u, 4, r), b)
  <1>1. PICK l \in 0 .. 31 : l = (v % 16) * 2 + (b \div 128)
    BY SMTT(30)
  <1>2. PICK k \in 0 .. 31 : k = (b \div 4) % 32
    BY SMTT(30)
  <1>3. PICK w : w = EncWord(v, b) /\ ByteIn(w, v, b)
    BY ByteGoesIn
  <1>4. PICK x : x = DecWord(u, l) /\ LetterIn(x, u, l)
    BY LetterGoesIn
  <1>5. PICK y : y = DecWord(x, k) /\ LetterIn(y, x, k)
    <2>1. x \in Nat
      BY <1>4 DEF LetterIn
    <2> QED
      BY <2>1, LetterGoesIn
  <1>6. EncodeByte(Buf(v, 4, o), b) = Buf(w, 2, Append(Append(o, l), k))
    <2>1. Shr(w, 7) % 32 = l /\ Shr(w, 2) % 32 = k
      BY <1>1, <1>2, <1>3 DEF ByteIn
    <2> QED
      BY <1>3, <2>1, EncodeTwo
  <1>7. DecodeLetter(Buf(u, 4, r), l) = Buf(x, 1, Append(r, Byte(4, u, v)))
    <2>1. Shr(x, 1) % 256 = (u % 16) * 16 + (l \div 2)
      BY <1>4 DEF LetterIn
    <2>2. l \div 2 = v % 16
      BY <1>1, SMTT(30)
    <2>3. Byte(4, u, v) = (u % 16) * 16 + (v % 16)
      BY ByteIs
    <2>4. Shr(x, 1) % 256 = Byte(4, u, v)
      BY <2>1, <2>2, <2>3
    <2> QED
      BY <1>4, <2>4, DecodeOne
  <1>8. DecodeLetter(Buf(x, 1, Append(r, Byte(4, u, v))), k) = Buf(y, 6, Append(r, Byte(4, u, v)))
    BY <1>5, DecodeNone
  <1>9. Waits(Append(Append(r, Byte(4, u, v)), b), Buf(w, 2, Append(Append(o, l), k)), Buf(y, 6, Append(r, Byte(4, u, v))))
    <2>1. y \in Nat /\ w \in Nat /\ w % 4 = b % 4 /\ y % 64 = (x % 2) * 32 + k /\ x % 2 = l % 2
      BY <1>3, <1>4, <1>5 DEF ByteIn, LetterIn
    <2>2. (y % 64) * 4 + (w % 4) = b
      BY <1>1, <1>2, <2>1, SMTT(30)
    <2>3. Byte(2, y, w) = b
      BY <2>2, ByteIs
    <2>4. 2 \in 1 .. 4 /\ 8 - 2 = 6
      OBVIOUS
    <2> QED
      BY <2>1, <2>3, <2>4, Zenon DEF Waits
  <1> QED
    <2>1. Buf(v, 4, o).out = o /\ Buf(w, 2, Append(Append(o, l), k)).out = Append(Append(o, l), k)
      BY DEF Buf
    <2> QED
      BY <1>6, <1>7, <1>8, <1>9, <2>1, Zenon DEF Follows

\* So it is after any number of bytes, for the letters made so far.
Tied(q, es) == es.out \in Seq(0 .. 31) /\ Waits(q, es, FoldOf("decode", es.out))

LEMMA TiedMore ==
  ASSUME NEW q, NEW b \in 0 .. 255, NEW es, Tied(q, es)
  PROVE  Tied(Append(q, b), EncodeByte(es, b))
  <1>1. PICK s, ds : s = es.out /\ ds = FoldOf("decode", s) /\ s \in Seq(0 .. 31) /\ Waits(q, es, ds)
    BY DEF Tied
  <1>2. PICK fs : fs = EncodeByte(es, b)
    OBVIOUS
  <1>3. Follows(q, es, ds, b)
    <2>1. PICK v \in Nat, u \in Nat : \E o, r :
             \/ es = Buf(v, 0, o) /\ ds = Buf(u, 0, r) /\ q = r
             \/ \E e \in 1 .. 4 : es = Buf(v, e, o) /\ ds = Buf(u, 8 - e, r) /\ q = Append(r, Byte(e, u, v))
      BY <1>1, Zenon DEF Waits
    <2>2. PICK o, r :
             \/ es = Buf(v, 0, o) /\ ds = Buf(u, 0, r) /\ q = r
             \/ \E e \in 1 .. 4 : es = Buf(v, e, o) /\ ds = Buf(u, 8 - e, r) /\ q = Append(r, Byte(e, u, v))
      BY <2>1, Zenon
    <2>3. CASE es = Buf(v, 0, o) /\ ds = Buf(u, 0, r) /\ q = r
      BY <2>3, FromNone, Zenon
    <2>4. CASE \E e \in 1 .. 4 : es = Buf(v, e, o) /\ ds = Buf(u, 8 - e, r) /\ q = Append(r, Byte(e, u, v))
      <3>1. PICK e \in 1 .. 4 : es = Buf(v, e, o) /\ ds = Buf(u, 8 - e, r) /\ q = Append(r, Byte(e, u, v))
        BY <2>4, Zenon
      <3>2. (e = 1 /\ 8 - e = 7) \/ (e = 2 /\ 8 - e = 6) \/ (e = 3 /\ 8 - e = 5) \/ (e = 4 /\ 8 - e = 4)
        OBVIOUS
      <3>3. CASE e = 1 /\ 8 - e = 7
        BY <3>1, <3>3, FromOne, Zenon
      <3>4. CASE e = 2 /\ 8 - e = 6
        BY <3>1, <3>4, FromTwo, Zenon
      <3>5. CASE e = 3 /\ 8 - e = 5
        BY <3>1, <3>5, FromThree, Zenon
      <3>6. CASE e = 4 /\ 8 - e = 4
        BY <3>1, <3>6, FromFour, Zenon
      <3> QED
        BY <3>2, <3>3, <3>4, <3>5, <3>6
    <2> QED
      BY <2>2, <2>3, <2>4, Zenon
  <1>4. ASSUME NEW p \in Seq(0 .. 31), NEW l \in 0 .. 31
        PROVE  Append(p, l) \in Seq(0 .. 31) /\ FoldOf("decode", Append(p, l)) = DecodeLetter(FoldOf("decode", p), l)
    <2>1. FoldOf("decode", Append(p, l)) = Take("decode", FoldOf("decode", p), l)
      BY FoldOfMore
    <2> QED
      BY <2>1 DEF Take
  <1>5. PICK l \in 0 .. 31 :
           \/ /\ fs.out = Append(s, l)
              /\ Waits(Append(q, b), fs, DecodeLetter(ds, l))
           \/ \E k \in 0 .. 31 :
                 /\ fs.out = Append(Append(s, l), k)
                 /\ Waits(Append(q, b), fs, DecodeLetter(DecodeLetter(ds, l), k))
    BY <1>1, <1>2, <1>3, Zenon DEF Follows
  <1>6. Append(s, l) \in Seq(0 .. 31) /\ FoldOf("decode", Append(s, l)) = DecodeLetter(ds, l)
    BY <1>1, <1>4, Zenon
  <1>7. CASE fs.out = Append(s, l) /\ Waits(Append(q, b), fs, DecodeLetter(ds, l))
    BY <1>2, <1>6, <1>7, Zenon DEF Tied
  <1>8. CASE \E k \in 0 .. 31 :
                 /\ fs.out = Append(Append(s, l), k)
                 /\ Waits(Append(q, b), fs, DecodeLetter(DecodeLetter(ds, l), k))
    <2>1. PICK k \in 0 .. 31 :
                 /\ fs.out = Append(Append(s, l), k)
                 /\ Waits(Append(q, b), fs, DecodeLetter(DecodeLetter(ds, l), k))
      BY <1>8, Zenon
    <2>2. /\ Append(Append(s, l), k) \in Seq(0 .. 31)
          /\ FoldOf("decode", Append(Append(s, l), k)) = DecodeLetter(DecodeLetter(ds, l), k)
      BY <1>4, <1>6, Zenon
    <2> QED
      BY <1>2, <2>1, <2>2, Zenon DEF Tied
  <1> QED
    BY <1>5, <1>7, <1>8, Zenon

LEMMA TiedAtStart == Tied(<< >>, Blank)
  <1>1. Blank = Buf(0, 0, << >>) /\ Blank.out = << >> /\ << >> \in Seq(0 .. 31) /\ 0 \in Nat
    BY DEF Blank, Buf
  <1>2. FoldOf("decode", << >>) = Blank
    BY FoldOfNothing
  <1>3. Waits(<< >>, Blank, Blank)
    BY <1>1, Zenon DEF Waits
  <1> QED
    BY <1>1, <1>2, <1>3, Zenon DEF Tied

LEMMA AllTied == \A q \in Seq(0 .. 255) : Tied(q, FoldOf("encode", q))
  <1>1. PICK T : T = {n \in Nat : \E q \in Seq(0 .. 255) : Len(q) = n /\ ~Tied(q, FoldOf("encode", q))}
    OBVIOUS
  <1>2. SUFFICES ASSUME T # {} PROVE FALSE
    BY <1>1
  <1>3. PICK k \in T : \A j \in T : k <= j
    <2>1. T \in SUBSET Nat
      BY <1>1
    <2> QED
      BY ONLY <1>2, <2>1, Smallest
  <1>4. PICK q \in Seq(0 .. 255) : Len(q) = k /\ ~Tied(q, FoldOf("encode", q))
    BY <1>1, <1>3
  <1>5. q # << >>
    <2>1. FoldOf("encode", << >>) = Blank
      BY FoldOfNothing
    <2> QED
      BY <1>4, <2>1, TiedAtStart, Zenon
  <1>6. PICK s \in Seq(0 .. 255), x \in 0 .. 255 : q = Append(s, x)
    BY <1>5, SequenceEmptyOrAppend
  <1>7. Len(s) \in Nat /\ Len(s) < k
    BY <1>4, <1>6
  <1>8. Tied(s, FoldOf("encode", s))
    <2>1. Len(s) \notin T
      BY <1>1, <1>3, <1>7
    <2> QED
      BY <1>1, <1>7, <2>1
  <1>9. FoldOf("encode", q) = EncodeByte(FoldOf("encode", s), x)
    BY FoldOfMore, <1>6 DEF Take
  <1>10. Tied(Append(s, x), EncodeByte(FoldOf("encode", s), x))
    BY <1>8, TiedMore, Zenon
  <1> QED
    BY <1>4, <1>6, <1>9, <1>10, Zenon

\* The letter that the waiting bits are filled up to gives the last byte.
Closes(es, ds, q) == \E l \in 0 .. 31 : PadEnd(es) = Append(es.out, l) /\ DecodeLetter(ds, l).out = q

LEMMA Filled ==
  ASSUME NEW v \in Nat, NEW n \in 1 .. 4, NEW o, NEW p, p = (v * Pow2(5 - n)) % Pow2(WordBits)
  PROVE  PadEnd(Buf(v, n, o)) = Append(o, p % 32)
  <1>1. PICK st : st = Buf(v, n, o)
    OBVIOUS
  <1>2. st.val = v /\ st.bits = n /\ st.out = o
    BY <1>1 DEF Buf
  <1>3. n > 0
    OBVIOUS
  <1>4. Shl(v, 5 - n) = p
    BY DEF Shl
  <1>5. st.bits > 0 /\ Shl(st.val, 5 - st.bits) = p
    BY <1>2, <1>3, <1>4
  <1>6. PadEnd(st) = Append(st.out, p % 32)
    BY <1>5 DEF PadEnd
  <1> QED
    BY <1>1, <1>2, <1>6, Zenon

LEMMA PadOne ==
  ASSUME NEW v \in Nat, NEW u \in Nat, NEW o, NEW r
  PROVE  Closes(Buf(v, 1, o), Buf(u, 7, r), Append(r, Byte(1, u, v)))
  <1>1. PICK l \in 0 .. 31 : l = (v % 2) * 16
    BY SMTT(30)
  <1>2. PICK x : x = DecWord(u, l) /\ LetterIn(x, u, l)
    BY LetterGoesIn
  <1>3. PICK z \in Nat : z = 16 * v
    OBVIOUS
  <1>4. PICK p \in Nat, t \in Int : p = z % Pow2(WordBits) /\ p = z + 4096 * t
    <2>1. z % Pow2(WordBits) \in Nat /\ \E t \in Int : z % Pow2(WordBits) = z + 4096 * t
      BY InWord
    <2> QED
      BY <2>1
  <1>5. PadEnd(Buf(v, 1, o)) = Append(o, l)
    <2>1. 1 \in 1 .. 4 /\ 5 - 1 = 4 /\ v * Pow2(5 - 1) = z
      BY <1>3, Powers
    <2>2. PadEnd(Buf(v, 1, o)) = Append(o, p % 32)
      BY <1>4, <2>1, SMT, Filled
    <2>3. p % 32 = (v % 2) * 16
      BY <1>3, <1>4, SMTT(30)
    <2> QED
      BY <1>1, <2>2, <2>3
  <1>6. DecodeLetter(Buf(u, 7, r), l) = Buf(x, 4, Append(r, Byte(1, u, v)))
    <2>1. Shr(x, 4) % 256 = (u % 128) * 2 + (l \div 16)
      BY <1>2 DEF LetterIn
    <2>2. l \div 16 = v % 2
      BY <1>1, SMTT(30)
    <2>3. Byte(1, u, v) = (u % 128) * 2 + (v % 2)
      BY ByteIs
    <2>4. Shr(x, 4) % 256 = Byte(1, u, v)
      BY <2>1, <2>2, <2>3
    <2>5. DecodeLetter(Buf(u, 7, r), l) = Buf(DecWord(u, l), 4, Append(r, Shr(DecWord(u, l), 4) % 256))
      BY DecodeOne
    <2> QED
      BY <1>2, <2>4, <2>5
  <1>7. /\ Buf(v, 1, o).out = o
        /\ Buf(x, 4, Append(r, Byte(1, u, v))).out = Append(r, Byte(1, u, v))
    BY DEF Buf
  <1> QED
    BY <1>5, <1>6, <1>7, Zenon DEF Closes

LEMMA PadTwo ==
  ASSUME NEW v \in Nat, NEW u \in Nat, NEW o, NEW r
  PROVE  Closes(Buf(v, 2, o), Buf(u, 6, r), Append(r, Byte(2, u, v)))
  <1>1. PICK l \in 0 .. 31 : l = (v % 4) * 8
    BY SMTT(30)
  <1>2. PICK x : x = DecWord(u, l) /\ LetterIn(x, u, l)
    BY LetterGoesIn
  <1>3. PICK z \in Nat : z = 8 * v
    OBVIOUS
  <1>4. PICK p \in Nat, t \in Int : p = z % Pow2(WordBits) /\ p = z + 4096 * t
    <2>1. z % Pow2(WordBits) \in Nat /\ \E t \in Int : z % Pow2(WordBits) = z + 4096 * t
      BY InWord
    <2> QED
      BY <2>1
  <1>5. PadEnd(Buf(v, 2, o)) = Append(o, l)
    <2>1. 2 \in 1 .. 4 /\ 5 - 2 = 3 /\ v * Pow2(5 - 2) = z
      BY <1>3, Powers
    <2>2. PadEnd(Buf(v, 2, o)) = Append(o, p % 32)
      BY <1>4, <2>1, SMT, Filled
    <2>3. p % 32 = (v % 4) * 8
      BY <1>3, <1>4, SMTT(30)
    <2> QED
      BY <1>1, <2>2, <2>3
  <1>6. DecodeLetter(Buf(u, 6, r), l) = Buf(x, 3, Append(r, Byte(2, u, v)))
    <2>1. Shr(x, 3) % 256 = (u % 64) * 4 + (l \div 8)
      BY <1>2 DEF LetterIn
    <2>2. l \div 8 = v % 4
      BY <1>1, SMTT(30)
    <2>3. Byte(2, u, v) = (u % 64) * 4 + (v % 4)
      BY ByteIs
    <2>4. Shr(x, 3) % 256 = Byte(2, u, v)
      BY <2>1, <2>2, <2>3
    <2>5. DecodeLetter(Buf(u, 6, r), l) = Buf(DecWord(u, l), 3, Append(r, Shr(DecWord(u, l), 3) % 256))
      BY DecodeOne
    <2> QED
      BY <1>2, <2>4, <2>5
  <1>7. /\ Buf(v, 2, o).out = o
        /\ Buf(x, 3, Append(r, Byte(2, u, v))).out = Append(r, Byte(2, u, v))
    BY DEF Buf
  <1> QED
    BY <1>5, <1>6, <1>7, Zenon DEF Closes

LEMMA PadThree ==
  ASSUME NEW v \in Nat, NEW u \in Nat, NEW o, NEW r
  PROVE  Closes(Buf(v, 3, o), Buf(u, 5, r), Append(r, Byte(3, u, v)))
  <1>1. PICK l \in 0 .. 31 : l = (v % 8) * 4
    BY SMTT(30)
  <1>2. PICK x : x = DecWord(u, l) /\ LetterIn(x, u, l)
    BY LetterGoesIn
  <1>3. PICK z \in Nat : z = 4 * v
    OBVIOUS
  <1>4. PICK p \in Nat, t \in Int : p = z % Pow2(WordBits) /\ p = z + 4096 * t
    <2>1. z % Pow2(WordBits) \in Nat /\ \E t \in Int : z % Pow2(WordBits) = z + 4096 * t
      BY InWord
    <2> QED
      BY <2>1
  <1>5. PadEnd(Buf(v, 3, o)) = Append(o, l)
    <2>1. 3 \in 1 .. 4 /\ 5 - 3 = 2 /\ v * Pow2(5 - 3) = z
      BY <1>3, Powers
    <2>2. PadEnd(Buf(v, 3, o)) = Append(o, p % 32)
      BY <1>4, <2>1, SMT, Filled
    <2>3. p % 32 = (v % 8) * 4
      BY <1>3, <1>4, SMTT(30)
    <2> QED
      BY <1>1, <2>2, <2>3
  <1>6. DecodeLetter(Buf(u, 5, r), l) = Buf(x, 2, Append(r, Byte(3, u, v)))
    <2>1. Shr(x, 2) % 256 = (u % 32) * 8 + (l \div 4)
      BY <1>2 DEF LetterIn
    <2>2. l \div 4 = v % 8
      BY <1>1, SMTT(30)
    <2>3. Byte(3, u, v) = (u % 32) * 8 + (v % 8)
      BY ByteIs
    <2>4. Shr(x, 2) % 256 = Byte(3, u, v)
      BY <2>1, <2>2, <2>3
    <2>5. DecodeLetter(Buf(u, 5, r), l) = Buf(DecWord(u, l), 2, Append(r, Shr(DecWord(u, l), 2) % 256))
      BY DecodeOne
    <2> QED
      BY <1>2, <2>4, <2>5
  <1>7. /\ Buf(v, 3, o).out = o
        /\ Buf(x, 2, Append(r, Byte(3, u, v))).out = Append(r, Byte(3, u, v))
    BY DEF Buf
  <1> QED
    BY <1>5, <1>6, <1>7, Zenon DEF Closes

LEMMA PadFour ==
  ASSUME NEW v \in Nat, NEW u \in Nat, NEW o, NEW r
  PROVE  Closes(Buf(v, 4, o), Buf(u, 4, r), Append(r, Byte(4, u, v)))
  <1>1. PICK l \in 0 .. 31 : l = (v % 16) * 2
    BY SMTT(30)
  <1>2. PICK x : x = DecWord(u, l) /\ LetterIn(x, u, l)
    BY LetterGoesIn
  <1>3. PICK z \in Nat : z = 2 * v
    OBVIOUS
  <1>4. PICK p \in Nat, t \in Int : p = z % Pow2(WordBits) /\ p = z + 4096 * t
    <2>1. z % Pow2(WordBits) \in Nat /\ \E t \in Int : z % Pow2(WordBits) = z + 4096 * t
      BY InWord
    <2> QED
      BY <2>1
  <1>5. PadEnd(Buf(v, 4, o)) = Append(o, l)
    <2>1. 4 \in 1 .. 4 /\ 5 - 4 = 1 /\ v * Pow2(5 - 4) = z
      BY <1>3, Powers
    <2>2. PadEnd(Buf(v, 4, o)) = Append(o, p % 32)
      BY <1>4, <2>1, SMT, Filled
    <2>3. p % 32 = (v % 16) * 2
      BY <1>3, <1>4, SMTT(30)
    <2> QED
      BY <1>1, <2>2, <2>3
  <1>6. DecodeLetter(Buf(u, 4, r), l) = Buf(x, 1, Append(r, Byte(4, u, v)))
    <2>1. Shr(x, 1) % 256 = (u % 16) * 16 + (l \div 2)
      BY <1>2 DEF LetterIn
    <2>2. l \div 2 = v % 16
      BY <1>1, SMTT(30)
    <2>3. Byte(4, u, v) = (u % 16) * 16 + (v % 16)
      BY ByteIs
    <2>4. Shr(x, 1) % 256 = Byte(4, u, v)
      BY <2>1, <2>2, <2>3
    <2>5. DecodeLetter(Buf(u, 4, r), l) = Buf(DecWord(u, l), 1, Append(r, Shr(DecWord(u, l), 1) % 256))
      BY DecodeOne
    <2> QED
      BY <1>2, <2>4, <2>5
  <1>7. /\ Buf(v, 4, o).out = o
        /\ Buf(x, 1, Append(r, Byte(4, u, v))).out = Append(r, Byte(4, u, v))
    BY DEF Buf
  <1> QED
    BY <1>5, <1>6, <1>7, Zenon DEF Closes

\* So the text of a secret decodes to the secret, whatever its length and its bytes.
LEMMA RoundTrip ==
  ASSUME NEW q \in Seq(0 .. 255)
  PROVE  base32Decode(base32Encode(q)) = q
  <1>1. PICK es, ds : es = FoldOf("encode", q) /\ ds = FoldOf("decode", es.out)
    OBVIOUS
  <1>2. es.out \in Seq(0 .. 31) /\ Waits(q, es, ds) /\ base32Encode(q) = PadEnd(es)
    <2>1. Tied(q, es)
      BY <1>1, AllTied
    <2>2. base32Encode(q) = PadEnd(FoldOf("encode", q))
      BY EncodeIs
    <2> QED
      BY <1>1, <2>1, <2>2, Zenon DEF Tied
  <1>3. PICK v \in Nat, u \in Nat : \E o, r :
           \/ es = Buf(v, 0, o) /\ ds = Buf(u, 0, r) /\ q = r
           \/ \E e \in 1 .. 4 : es = Buf(v, e, o) /\ ds = Buf(u, 8 - e, r) /\ q = Append(r, Byte(e, u, v))
    BY <1>2, Zenon DEF Waits
  <1>4. PICK o, r :
           \/ es = Buf(v, 0, o) /\ ds = Buf(u, 0, r) /\ q = r
           \/ \E e \in 1 .. 4 : es = Buf(v, e, o) /\ ds = Buf(u, 8 - e, r) /\ q = Append(r, Byte(e, u, v))
    BY <1>3, Zenon
  <1>5. CASE es = Buf(v, 0, o) /\ ds = Buf(u, 0, r) /\ q = r
    <2>1. es.bits = 0 /\ ds.out = r
      BY <1>5 DEF Buf
    <2>2. PadEnd(es) = es.out
      <3>1. ~(es.bits > 0)
        BY <2>1
      <3> QED
        BY <3>1 DEF PadEnd
    <2>3. base32Decode(es.out) = ds.out
      BY <1>1, <1>2, DecodeIs, Zenon
    <2> QED
      BY <1>2, <1>5, <2>1, <2>2, <2>3, Zenon
  <1>6. CASE \E e \in 1 .. 4 : es = Buf(v, e, o) /\ ds = Buf(u, 8 - e, r) /\ q = Append(r, Byte(e, u, v))
    <2>1. PICK e \in 1 .. 4 : es = Buf(v, e, o) /\ ds = Buf(u, 8 - e, r) /\ q = Append(r, Byte(e, u, v))
      BY <1>6, Zenon
    <2>2. (e = 1 /\ 8 - e = 7) \/ (e = 2 /\ 8 - e = 6) \/ (e = 3 /\ 8 - e = 5) \/ (e = 4 /\ 8 - e = 4)
      OBVIOUS
    <2>3. Closes(es, ds, q)
      BY <2>1, <2>2, PadOne, PadTwo, PadThree, PadFour, Zenon
    <2>4. PICK l \in 0 .. 31 : PadEnd(es) = Append(es.out, l) /\ DecodeLetter(ds, l).out = q
      BY <2>3, Zenon DEF Closes
    <2>5. PICK s \in Seq(0 .. 31) : s = es.out
      BY <1>2
    <2>6. Append(s, l) \in Seq(0 .. 31) /\ FoldOf("decode", Append(s, l)) = DecodeLetter(ds, l)
      <3>1. FoldOf("decode", Append(s, l)) = Take("decode", FoldOf("decode", s), l)
        BY FoldOfMore
      <3> QED
        BY <1>1, <2>5, <3>1 DEF Take
    <2>7. base32Decode(Append(s, l)) = FoldOf("decode", Append(s, l)).out
      BY <2>6, DecodeIs
    <2> QED
      BY <1>2, <2>4, <2>5, <2>6, <2>7, Zenon
  <1> QED
    BY <1>4, <1>5, <1>6, Zenon

--------------------------------------------------------------------------------
(* Codes of the second factor                                              *)

TotpInv ==
    /\ totpClock \in Int /\ code \in Int /\ (verdict.at # 0 => code # 0)
    /\ CodesLastAStep
    /\ secretBytes \in Seq(0 .. 255) /\ SecretRoundTrips

\* It holds at the start.
LEMMA TotpInitially == TotpInit => TotpInv
  <1> SUFFICES ASSUME TotpInit PROVE TotpInv
    OBVIOUS
  <1>1. secretBytes \in Seq(0 .. 255)
    <2>1. PICK n \in 1 .. MaxSecretLen : secretBytes \in [1 .. n -> SecretBytes]
      BY DEF TotpInit
    <2>2. n \in Nat /\ SecretBytes \subseteq 0 .. 255
      BY TotpAssumption DEF TotpAssumption
    <2>3. secretBytes \in [1 .. n -> 0 .. 255]
      BY <2>1, <2>2
    <2> QED
      BY <2>2, <2>3
  <1> QED
    BY <1>1 DEF TotpInit, TotpInv, CodesLastAStep, SecretRoundTrips

\* The step of a time: the last multiple of its length.
LEMMA StepOf ==
  ASSUME NEW t \in Int, NEW w \in {-1, 0, 1}
  PROVE  /\ totpCode(t) \in Int /\ StepSeconds * totpCode(t) <= t
         /\ t < StepSeconds * totpCode(t) + StepSeconds
         /\ totpCode(t + w * StepSeconds) = totpCode(t) + w
  <1>1. StepSeconds \in Int /\ StepSeconds > 0
    BY TotpAssumption DEF TotpAssumption
  <1>2. PICK s : s = StepSeconds
    OBVIOUS
  <1>3. s \in Int /\ s > 0
    BY <1>1, <1>2
  <1>4. ASSUME NEW x \in Int
        PROVE  x \div s \in Int /\ s * (x \div s) <= x /\ x < s * (x \div s) + s
    BY <1>3, <1>4, SMTT(30)
  <1>5. PICK q, u, y : q = t \div s /\ y = t + w * s /\ u = y \div s
    OBVIOUS
  <1>6. y \in Int /\ y - t = w * s /\ (w = 0 => y = t) /\ (w = 1 => y = t + s) /\ (w = -1 => y = t - s)
    BY <1>3, <1>5
  <1>7. /\ q \in Int /\ s * q <= t /\ t < s * q + s
        /\ u \in Int /\ s * u <= y /\ y < s * u + s
    BY <1>4, <1>5, <1>6
  <1>8. u = q + w
    <2>1. ASSUME NEW d \in Int, d >= 1, NEW a \in Int, NEW b \in Int, a = b + d
          PROVE  s * a >= s * b + s
      <3>1. PICK k \in Nat : d = k + 1
        <4>1. d - 1 \in Nat /\ d = (d - 1) + 1
          BY <2>1
        <4> QED
          BY <4>1
      <3>2. s * k \in Int /\ s * k >= 0 /\ s * a = (s * b + s * k) + s
        BY <1>3, <2>1, <3>1, SMTT(30)
      <3>3. s * b \in Int /\ s * a \in Int
        BY <1>3
      <3> QED
        BY <1>3, <3>2, <3>3
    <2>2. PICK v \in Int : v = q + w
      BY <1>7
    <2>3. s * v = s * q + w * s /\ s * v \in Int /\ s * q \in Int /\ s * u \in Int
      <3>1. s * q \in Int /\ s * u \in Int /\ s * v \in Int
        BY <1>3, <1>7
      <3>2. CASE w = 0
        BY <1>3, <1>7, <2>2, <3>1, <3>2
      <3>3. CASE w = 1
        BY <1>3, <1>7, <2>2, <3>1, <3>3, SMTT(30)
      <3>4. CASE w = -1
        BY <1>3, <1>7, <2>2, <3>1, <3>4, SMTT(30)
      <3> QED
        BY <3>1, <3>2, <3>3, <3>4
    <2>4. s * v <= y /\ y < s * v + s
      BY <1>3, <1>6, <1>7, <2>3
    <2>5. ASSUME u - v >= 1 PROVE FALSE
      <3>1. s * u >= s * v + s
        <4>1. u - v \in Int /\ u = v + (u - v)
          BY <1>7
        <4> QED
          BY <1>7, <2>1, <2>5, <4>1
      <3> QED
        BY <1>3, <1>6, <1>7, <2>3, <2>4, <3>1
    <2>6. ASSUME v - u >= 1 PROVE FALSE
      <3>1. s * v >= s * u + s
        <4>1. v - u \in Int /\ v = u + (v - u)
          BY <1>7
        <4> QED
          BY <1>7, <2>1, <2>6, <4>1
      <3> QED
        BY <1>3, <1>6, <1>7, <2>3, <2>4, <3>1
    <2> QED
      BY <1>7, <2>2, <2>5, <2>6
  <1> QED
    BY <1>2, <1>5, <1>7, <1>8 DEF totpCode

\* Times a step apart are in the same or in adjoining steps, times two steps apart are not.
LEMMA StepsApart ==
  ASSUME NEW x \in Int, NEW y \in Int
  PROVE  /\ y - x <= StepSeconds => totpCode(y) - totpCode(x) <= 1
         /\ y - x >= 2 * StepSeconds => totpCode(y) - totpCode(x) >= 2
  <1>1. PICK s, a, b : s = StepSeconds /\ a = totpCode(x) /\ b = totpCode(y)
    OBVIOUS
  <1>2. /\ a \in Int /\ s * a <= x /\ x < s * a + s
        /\ b \in Int /\ s * b <= y /\ y < s * b + s
    <2>1. 0 \in {-1, 0, 1}
      OBVIOUS
    <2> QED
      BY <1>1, <2>1, StepOf
  <1>3. s \in Int /\ s > 0
    BY <1>1, TotpAssumption DEF TotpAssumption
  <1>4. s * a \in Int /\ s * b \in Int
    BY <1>2, <1>3
  <1>5. ASSUME y - x <= s, b - a >= 2 PROVE FALSE
    <2>1. PICK k \in Nat : b = (a + 2) + k
      <3>1. b - (a + 2) \in Nat /\ b = (a + 2) + (b - (a + 2))
        BY <1>2, <1>5
      <3> QED
        BY <3>1
    <2>2. s * k \in Int /\ s * k >= 0 /\ s * b = (s * a + 2 * s) + s * k
      BY <1>2, <1>3, <2>1, SMTT(30)
    <2> QED
      BY <1>2, <1>3, <1>4, <1>5, <2>2
  <1>6. ASSUME y - x >= 2 * s, b - a <= 1 PROVE FALSE
    <2>1. PICK k \in Nat : a + 1 = b + k
      <3>1. (a + 1) - b \in Nat /\ a + 1 = b + ((a + 1) - b)
        BY <1>2, <1>6
      <3> QED
        BY <3>1
    <2>2. s * k \in Int /\ s * k >= 0 /\ s * a + s = s * b + s * k
      BY <1>2, <1>3, <2>1, SMTT(30)
    <2> QED
      BY <1>2, <1>3, <1>4, <1>6, <2>2
  <1> QED
    BY <1>1, <1>2, <1>5, <1>6

\* What is shown decodes to the secret, which no step changes.
LEMMA SecretStays ==
  TotpInv /\ [TotpNext]_totpVars => (secretBytes \in Seq(0 .. 255) /\ SecretRoundTrips)'
  <1> SUFFICES ASSUME TotpInv, [TotpNext]_totpVars
               PROVE  (secretBytes \in Seq(0 .. 255) /\ SecretRoundTrips)'
    OBVIOUS
  <1>1. CASE setupSecret
    BY <1>1, RoundTrip DEF setupSecret, TotpInv, SecretRoundTrips
  <1>2. CASE UNCHANGED <<secretBytes, shown>>
    BY <1>2 DEF TotpInv, SecretRoundTrips
  <1> QED
    BY <1>1, <1>2 DEF TotpNext, TotpTick, ReadCode, VerifyCode, totpVars

\* Every step of the second factor keeps the invariant.
LEMMA TotpInvStep == TotpInv /\ [TotpNext]_totpVars => TotpInv'
  <1> SUFFICES ASSUME TotpInv, [TotpNext]_totpVars PROVE TotpInv'
    OBVIOUS
  <1>0. (secretBytes \in Seq(0 .. 255) /\ SecretRoundTrips)'
    BY SecretStays
  <1>1. CASE setupSecret
    BY <1>0, <1>1 DEF setupSecret, TotpInv, CodesLastAStep
  <1>2. CASE TotpTick
    BY <1>0, <1>2 DEF TotpTick, TotpInv, CodesLastAStep
  <1>3. CASE ReadCode
    BY TotpAssumption, <1>3, <1>0 DEF TotpAssumption, ReadCode, TotpInv, CodesLastAStep
  <1>4. CASE VerifyCode
    <2>1. /\ totpClock \in Int /\ code \in Int /\ code # 0 /\ UNCHANGED <<totpClock, code>>
          /\ verdict' = [ok |-> verifyTotpToken(totpCode(code)), at |-> totpClock]
      BY <1>4 DEF VerifyCode, TotpInv
    <2>2. PICK t, c, S : t = totpClock /\ c = code /\ S = StepSeconds
      OBVIOUS
    <2>3. S \in Int /\ S > 0 /\ t \in Int /\ c \in Int
      BY <2>1, <2>2, TotpAssumption DEF TotpAssumption
    <2>4. verdict'.at = t /\ (verdict'.ok <=> verifyTotpToken(totpCode(c)))
      BY <2>1, <2>2
    <2>5. totpCode(t) \in Int /\ totpCode(c) \in Int
      <3>1. 0 \in {-1, 0, 1}
        OBVIOUS
      <3> QED
        BY <2>3, <3>1, StepOf
    <2>6. verifyTotpToken(totpCode(c)) <=> \E w \in {-1, 0, 1} : totpCode(t) + w = totpCode(c)
      BY <2>2, <2>3, StepOf DEF verifyTotpToken
    <2>7. ASSUME t - c <= S, c - t <= S PROVE verdict'.ok
      <3>1. totpCode(t) - totpCode(c) <= 1 /\ totpCode(c) - totpCode(t) <= 1
        BY <2>2, <2>3, <2>7, StepsApart
      <3>2. PICK d : d = totpCode(c) - totpCode(t)
        OBVIOUS
      <3>3. d \in {-1, 0, 1} /\ totpCode(t) + d = totpCode(c)
        BY <2>5, <3>1, <3>2
      <3> QED
        BY <2>4, <2>6, <3>3
    <2>8. ASSUME t - c >= 2 * S \/ c - t >= 2 * S PROVE ~verdict'.ok
      BY <2>2, <2>3, <2>8, StepsApart, <2>5, <2>4, <2>6
    <2>9. CodesLastAStep'
      BY <2>1, <2>2, <2>4, <2>7, <2>8 DEF CodesLastAStep
    <2> QED
      BY <1>0, <2>1, <2>9 DEF TotpInv
  <1>5. CASE UNCHANGED totpVars
    BY <1>0, <1>5 DEF totpVars, TotpInv, CodesLastAStep
  <1> QED
    BY <1>1, <1>2, <1>3, <1>4, <1>5 DEF TotpNext

--------------------------------------------------------------------------------
(* Together                                                                *)

\* A step of an export moves the day or nothing of the reports.
LEMMA ExportBesideReports == ExportNext => [AnalyticsNext]_analyticsVars
  <1> SUFFICES ASSUME ExportNext PROVE [AnalyticsNext]_analyticsVars
    OBVIOUS
  <1>1. CASE ExportDay
    BY <1>1 DEF ExportDay, AnalyticsNext
  <1>2. ASSUME NEW e \in Exports, ExportStep(e) PROVE today' = today
    BY <1>2, ZenonT(30) DEF ExportStep, requestExport, AddExportJob, StartExport, ReadVolume, ReadSettlements, SaveReady,
                MailLink, ExportThrows, SaveFailed, ExportDies, ExportDiesMailed
  <1> QED
    BY <1>1, <1>2 DEF ExportNext, analyticsVars

\* A step of the services is a step of one component and a stutter of the others.
LEMMA Steps ==
  ASSUME [Next]_vars
  PROVE  /\ [SyncNext]_syncVars /\ [AccountNext]_accountVars /\ [CacheNext]_cacheVars
         /\ [SessionNext]_sessionVars /\ [GroupsNext]_groupVars /\ [RateNext]_rateVars
         /\ [AlertNext]_alertVars /\ [BackupNext]_backupVars /\ [FeedNext]_feedVars
         /\ ExportSide /\ [AnalyticsNext]_analyticsVars /\ [SignupNext]_signupVars
         /\ [TotpNext]_totpVars
  <1> USE DEF vars
  <1>1. /\ [SyncNext]_syncVars /\ [AccountNext]_accountVars /\ [CacheNext]_cacheVars
        /\ [SessionNext]_sessionVars /\ [GroupsNext]_groupVars /\ [RateNext]_rateVars
        /\ [AlertNext]_alertVars /\ [BackupNext]_backupVars /\ [FeedNext]_feedVars
        /\ [SignupNext]_signupVars /\ [TotpNext]_totpVars
    BY DEF Next
  <1>2. \/ ExportNext \/ UNCHANGED exportVars
        \/ AnalyticsNext /\ UNCHANGED <<exportRow, exportJob, links, lastToken>>
    BY DEF Next
  <1>3. ASSUME AnalyticsNext, UNCHANGED <<exportRow, exportJob, links, lastToken>>
        PROVE  ExportIdle
    <2>1. NewDay \/ UNCHANGED today
      BY <1>3 DEF AnalyticsNext, refreshMaterializedViews, StartRanged, StartCurrent, StartReport, ReadPart,
                  Answer, PaymentEnds, SettlementCompletes
    <2> QED
      BY <1>3, <2>1 DEF NewDay, ExportIdle
  <1>4. AnalyticsNext \/ ExportNext \/ UNCHANGED analyticsVars
    BY DEF Next
  <1> QED
    BY <1>1, <1>2, <1>3, <1>4, ExportBesideReports DEF ExportSide

Inv ==
    /\ AccountInv /\ GroupInv /\ CacheInv /\ SessionInv /\ RateInv /\ AlertInv
    /\ BackupInv /\ SyncInv /\ FeedInv /\ ExportInv
    /\ ReportInv /\ PartsInv /\ SignupInv /\ TotpInv

\* Every component keeps its invariant, whichever of them runs.
LEMMA Invariant == Spec => []Inv
  <1>1. Init => Inv
    BY AccountInitially, GroupsInitially, CacheInitially, SessionInitially, RateInitially,
       AlertInitially, BackupInitially, SyncInitially, FeedInitially, ExportInitially,
       ReportInitially, PartsInitially, SignupInitially, TotpInitially
    DEF Init, Inv, ExportInit
  <1>2. Inv /\ [Next]_vars => Inv'
    BY Steps, AccountInvStep, GroupInvStep, CacheInvStep, SessionInvStep, RateInvStep,
       AlertInvStep, BackupInvStep, SyncInvStep, FeedInvStep, ExportInvStep,
       ReportInvStep, PartsInvStep, SignupInvStep, TotpInvStep
    DEF Inv
  <1> QED
    BY <1>1, <1>2, PTL DEF Spec

\* The parts of a report add up to its total but for the rows that changed while it was
\* read, periods that are compared adjoin and are equally long, a change has the sign of
\* its percentage, both sections of an export cover the same days unless midnight fell
\* between them, and no signup is missing from its day.
THEOREM ThmFiguresAgree == Spec => []FiguresAgree
  <1>1. ReportInv => PeriodsAdjoin
    BY DEF ReportInv, PeriodsFit, PeriodsAdjoin
  <1>2. SignupInv => SignupsShown
    BY DEF SignupInv
  <1>3. Inv => FiguresAgree
    BY <1>1, <1>2, PartsAddUp, ChangeExact, SectionsKept DEF Inv, FiguresAgree
  <1> QED
    BY <1>3, Invariant, PTL

\* A volume report counts every row of its range exactly once, in the bucket of its day.
THEOREM ThmVolumeIsComplete == Spec => VolumeIsComplete
  <1>1. Inv /\ [Next]_vars => [VolumeStep]_analyticsVars
    BY Steps, VolumeCounted DEF Inv
  <1>2. Spec => [][VolumeStep]_analyticsVars
    BY <1>1, Invariant, PTL DEF Spec
  <1> QED
    BY <1>2, PTL DEF VolumeIsComplete, VolumeStep

\* A cached fee answers at most one read and one lifetime after it was changed, a revoked
\* session for its cached lifetime only; a sliding window admits no more than its limit
\* and one request for each overlapping client; notifications of one alert are a cooldown apart.
THEOREM ThmStaleWithinBounds == Spec => []StaleWithinBounds
  <1>1. Inv => StaleWithinBounds
    BY CacheKept, SessionKept, RateKept, AlertKept DEF Inv, StaleWithinBounds
  <1> QED
    BY <1>1, Invariant, PTL

\* Every finished change of a fee is in its history, a bulk change hides no status it has
\* changed, the link an export mailed last serves its file for a day, a
\* walk to the end of the feed missed nothing that was not purged, and a backup run that ended
\* was done or raised an alert: whichever write of these failed in between.
THEOREM ThmRecordsComplete == Spec => []RecordsComplete
  <1>1. Inv => RecordsComplete
    BY CacheKept, AccountKept, ExportKept, FeedKept, BackupKept DEF Inv, RecordsComplete
  <1> QED
    BY <1>1, Invariant, PTL

\* Between two polls every row shows the status that the last event read for its payment
\* gives it, unless a failing save, a page limit or confirmPayment is known to have come between.
THEOREM ThmRowsFollowChain == Spec => []RowsFollowChain
  <1>1. Inv => RowsFollowChain
    BY SyncKept DEF Inv
  <1> QED
    BY <1>1, Invariant, PTL

\* Since the last start pollEscrowEvents applies the events of a payment in the order of the
\* log, and confirms no short deposit as long as balances can be read.
THEOREM ThmPollsApplySafely == Spec => PollsApplySafely
  <1>1. Inv /\ [Next]_vars => [OrderStep /\ ShortStep]_syncVars
    BY Steps, SyncApplies DEF Inv
  <1>2. [OrderStep /\ ShortStep]_syncVars => [OrderStep]_syncVars /\ [ShortStep]_syncVars
    OBVIOUS
  <1>3. Spec => [][OrderStep]_syncVars /\ [][ShortStep]_syncVars
    BY <1>1, <1>2, Invariant, PTL DEF Spec
  <1> QED
    BY <1>3, PTL DEF PollsApplySafely, AppliedInOrder, ShortNeverConfirmed, OrderStep, ShortStep

\* A limit is run over by what overlapped or died only: a join finds a place beside the
\* members it did not overlap, a raise is silent in the cooldown of one that told, is still
\* to tell or died between its save and its notification; pruning keeps the newest backup.
THEOREM ThmLimitsHold == Spec => LimitsHold
  <1>1. Inv /\ [Next]_vars =>
           [CapacityStep]_groupVars /\ [SilenceStep]_alertVars /\ [NewestStep]_backupVars
    BY Steps, GroupsFit, AlertSilent, NewestStays DEF Inv
  <1>2. Spec => [][CapacityStep]_groupVars /\ [][SilenceStep]_alertVars /\ [][NewestStep]_backupVars
    BY <1>1, Invariant, PTL DEF Spec
  <1> QED
    BY <1>2, PTL DEF LimitsHold, CapacityKept, SilenceIsRecent, NewestBackupKept,
                    CapacityStep, SilenceStep, NewestStep

\* The text a secret is shown in decodes to the bytes drawn, whatever their number, and the
\* code of a moment is accepted when it is typed up to a step before or after it and refused
\* from two steps on: base32Encode and base32Decode on every secret, verifyTotpToken at any
\* two times.
THEOREM ThmSecondFactorWorks == Spec => []SecondFactorWorks
  <1>1. Inv => SecondFactorWorks
    BY DEF Inv, TotpInv, SecondFactorWorks
  <1> QED
    BY <1>1, Invariant, PTL
================================================================================
