---------------------------- MODULE ContractProofs -----------------------------
(***************************************************************************)
(* Theorems about the administration contracts, for any accounts, delays,  *)
(* parameters, admins, thresholds and bounds, and about payment_escrow     *)
(* composed with merchant_registry, for any merchants and payments.        *)
(***************************************************************************)
EXTENDS Governance, EscrowWithRegistry, FiniteSetTheorems, FunctionTheorems, TLAPS

--------------------------------------------------------------------------------
(* admin_timelock                                                          *)

TimelockType ==
    /\ ledger \in Nat
    /\ changeCounter \in Nat
    /\ changes \in [1 .. changeCounter -> Change]
    /\ delayOf \in [1 .. changeCounter -> Delays]
    /\ events \subseteq [id : 1 .. changeCounter, at : Nat]

\* The stored deadline is the saturated sum of the delay; every event is that of
\* an applied change, comes after its deadline, and is the only one of it.
TimelockHistory ==
    /\ \A c \in 1 .. changeCounter :
          changes[c].execute_after = SatAdd(changes[c].scheduled_at, delayOf[c])
    /\ \A e \in events :
          /\ changes[e.id].status = "Applied"
          /\ e.at >= changes[e.id].execute_after
    /\ \A e, f \in events : e.id = f.id => e = f

TimelockInv == TimelockType /\ TimelockHistory

\* saturating_add yields a number of the type.
LEMMA SatAddNat == \A a, b \in Nat : SatAdd(a, b) \in Nat
  BY LedgerAssumption DEF SatAdd, LedgerAssumption

\* The constructor leaves no changes and no events.
LEMMA TimelockInitially == GovernanceInit => TimelockInv
  <1> SUFFICES ASSUME GovernanceInit PROVE TimelockInv
    OBVIOUS
  <1>1. changeCounter = 0 /\ ledger = 1 /\ events = {} /\ changes = << >> /\ delayOf = << >>
    BY DEF GovernanceInit, LedgerInit, TimelockInit
  <1>2. 1 .. 0 = {}
    OBVIOUS
  <1>3. changes \in [1 .. 0 -> Change] /\ delayOf \in [1 .. 0 -> Delays]
    BY <1>1, <1>2
  <1> QED
    BY <1>1, <1>2, <1>3 DEF TimelockInv, TimelockType, TimelockHistory

\* Scheduling adds a pending change after all others and rewrites none.
LEMMA ScheduleStep ==
  ASSUME TimelockInv,
         NEW caller, NEW p \in Params, NEW v \in Values, NEW d \in Delays,
         schedule_change(caller, p, v, d), UNCHANGED ledger
  PROVE  TimelockInv' /\ \A c \in 1 .. MaxChanges : ChangeStep(c)
  <1> DEFINE n == changeCounter + 1
             new == [param |-> p, value |-> v, scheduled_at |-> ledger,
                     execute_after |-> SatAdd(ledger, d), status |-> "Pending"]
  <1>1. /\ changeCounter \in Nat /\ ledger \in Nat /\ d \in Nat
        /\ changes \in [1 .. changeCounter -> Change]
        /\ delayOf \in [1 .. changeCounter -> Delays]
    BY TimelockAssumption DEF TimelockInv, TimelockType, TimelockAssumption
  <1>2. new \in Change
    BY <1>1, SatAddNat DEF Change
  <1>3. /\ changeCounter' = n /\ events' = events
        /\ changes' = [c \in 1 .. n |-> IF c = n THEN new ELSE changes[c]]
        /\ delayOf' = [c \in 1 .. n |-> IF c = n THEN d ELSE delayOf[c]]
    BY DEF schedule_change
  <1> HIDE DEF new
  <1>4. \A c \in 1 .. n : c # n => c \in 1 .. changeCounter
    BY <1>1
  <1>5. n \in Nat /\ 1 .. changeCounter \subseteq 1 .. n /\ n \notin 1 .. changeCounter
    BY <1>1
  <1>6. changes' \in [1 .. n -> Change] /\ delayOf' \in [1 .. n -> Delays]
    BY <1>1, <1>2, <1>3, <1>4
  <1>7. \A c \in 1 .. changeCounter : changes'[c] = changes[c] /\ delayOf'[c] = delayOf[c]
    BY <1>3, <1>5
  <1>8. changes'[n] = new /\ delayOf'[n] = d
    BY <1>3, <1>5, <1>1
  <1>9. TimelockType'
    BY <1>1, <1>3, <1>5, <1>6 DEF TimelockInv, TimelockType
  <1>10. \A c \in 1 .. n : changes'[c].execute_after = SatAdd(changes'[c].scheduled_at, delayOf'[c])
    <2> SUFFICES ASSUME NEW c \in 1 .. n
                 PROVE  changes'[c].execute_after = SatAdd(changes'[c].scheduled_at, delayOf'[c])
      OBVIOUS
    <2>1. CASE c = n
      BY <2>1, <1>8 DEF new
    <2>2. CASE c # n
      BY <2>2, <1>4, <1>7 DEF TimelockInv, TimelockHistory
    <2> QED
      BY <2>1, <2>2
  <1>11. \A e \in events : changes'[e.id] = changes[e.id]
    BY <1>7 DEF TimelockInv, TimelockType
  <1>12. TimelockHistory'
    BY <1>3, <1>10, <1>11 DEF TimelockInv, TimelockHistory, SatAdd
  <1>13. \A c \in 1 .. MaxChanges : ChangeStep(c)
    BY <1>1, <1>5, <1>6, <1>7 DEF ChangeStep
  <1> QED
    BY <1>9, <1>12, <1>13 DEF TimelockInv

\* What applying and cancelling share: one pending change gets its last status.
LEMMA FinishStep ==
  ASSUME TimelockInv, NEW c, NEW s \in {"Applied", "Cancelled"},
         ChangePending(c),
         changes' = [changes EXCEPT ![c].status = s],
         UNCHANGED <<ledger, changeCounter, delayOf>>
  PROVE  /\ c \in 1 .. changeCounter
         /\ changes' \in [1 .. changeCounter -> Change]
         /\ \A x \in 1 .. changeCounter :
               /\ changes'[x].execute_after = SatAdd(changes'[x].scheduled_at, delayOf[x])
               /\ changes'[x].execute_after = changes[x].execute_after
               /\ x # c => changes'[x] = changes[x]
         /\ changes'[c].status = s
         /\ \A e \in events : e.id # c
         /\ \A x \in 1 .. MaxChanges : ChangeStep(x)
  <1>1. c \in 1 .. changeCounter /\ changes[c].status = "Pending"
    BY DEF ChangePending, TimelockInv, TimelockType
  <1>2. changes \in [1 .. changeCounter -> Change]
    BY DEF TimelockInv, TimelockType
  <1>3. changes' = [changes EXCEPT ![c] = [changes[c] EXCEPT !.status = s]]
    OBVIOUS
  <1>4. /\ [changes[c] EXCEPT !.status = s] \in Change
        /\ \A f \in {"param", "value", "scheduled_at", "execute_after"} :
               [changes[c] EXCEPT !.status = s][f] = changes[c][f]
        /\ [changes[c] EXCEPT !.status = s].status = s
    BY <1>1, <1>2 DEF Change
  <1>5. /\ changes' \in [1 .. changeCounter -> Change]
        /\ changes'[c] = [changes[c] EXCEPT !.status = s]
        /\ \A x \in 1 .. changeCounter : x # c => changes'[x] = changes[x]
    BY <1>1, <1>2, <1>3, <1>4
  <1>6. \A x \in 1 .. changeCounter :
           \A f \in {"param", "value", "scheduled_at", "execute_after"} :
               changes'[x][f] = changes[x][f]
    BY <1>4, <1>5
  <1>7. \A x \in 1 .. changeCounter :
           /\ changes'[x].scheduled_at = changes[x].scheduled_at
           /\ changes'[x].execute_after = changes[x].execute_after
    BY <1>6
  <1>8. \A x \in 1 .. changeCounter :
           changes'[x].execute_after = SatAdd(changes'[x].scheduled_at, delayOf[x])
    BY <1>7 DEF TimelockInv, TimelockHistory
  <1>9. \A e \in events : e.id # c
    BY <1>1 DEF TimelockInv, TimelockHistory
  <1>10. \A x \in 1 .. MaxChanges : ChangeStep(x)
    BY <1>1, <1>2, <1>5, <1>6 DEF ChangeStep
  <1> QED
    BY <1>1, <1>4, <1>5, <1>7, <1>8, <1>9, <1>10

\* Applying adds the one event of a change whose deadline has come.
LEMMA ApplyStep ==
  ASSUME TimelockInv, NEW caller, NEW c, apply_change(caller, c), UNCHANGED ledger
  PROVE  TimelockInv' /\ \A x \in 1 .. MaxChanges : ChangeStep(x)
  <1>1. /\ ChangePending(c) /\ ledger >= changes[c].execute_after
        /\ changes' = [changes EXCEPT ![c].status = "Applied"]
        /\ events' = events \cup {[id |-> c, at |-> ledger]}
        /\ UNCHANGED <<ledger, changeCounter, delayOf>>
    BY DEF apply_change
  <1>2. /\ c \in 1 .. changeCounter
        /\ changes' \in [1 .. changeCounter -> Change]
        /\ \A x \in 1 .. changeCounter :
              /\ changes'[x].execute_after = SatAdd(changes'[x].scheduled_at, delayOf[x])
              /\ changes'[x].execute_after = changes[x].execute_after
              /\ x # c => changes'[x] = changes[x]
        /\ changes'[c].status = "Applied"
        /\ \A e \in events : e.id # c
        /\ \A x \in 1 .. MaxChanges : ChangeStep(x)
    BY <1>1, FinishStep
  <1>3. TimelockType'
    BY <1>1, <1>2 DEF TimelockInv, TimelockType
  <1>4. \A e \in events' : changes'[e.id].status = "Applied" /\ e.at >= changes'[e.id].execute_after
    <2> SUFFICES ASSUME NEW e \in events'
                 PROVE  changes'[e.id].status = "Applied" /\ e.at >= changes'[e.id].execute_after
      OBVIOUS
    <2>1. CASE e \in events
      BY <2>1, <1>2 DEF TimelockInv, TimelockType, TimelockHistory
    <2>2. CASE e = [id |-> c, at |-> ledger]
      BY <2>2, <1>1, <1>2
    <2> QED
      BY <2>1, <2>2, <1>1
  <1>5. \A e, f \in events' : e.id = f.id => e = f
    BY <1>1, <1>2 DEF TimelockInv, TimelockHistory
  <1>6. TimelockHistory'
    BY <1>1, <1>2, <1>4, <1>5 DEF TimelockHistory, SatAdd
  <1> QED
    BY <1>2, <1>3, <1>6 DEF TimelockInv

\* Cancelling touches no event.
LEMMA CancelStep ==
  ASSUME TimelockInv, NEW caller, NEW c, cancel_change(caller, c), UNCHANGED ledger
  PROVE  TimelockInv' /\ \A x \in 1 .. MaxChanges : ChangeStep(x)
  <1>1. /\ ChangePending(c)
        /\ changes' = [changes EXCEPT ![c].status = "Cancelled"]
        /\ events' = events
        /\ UNCHANGED <<ledger, changeCounter, delayOf>>
    BY DEF cancel_change
  <1>2. /\ changes' \in [1 .. changeCounter -> Change]
        /\ \A x \in 1 .. changeCounter :
              /\ changes'[x].execute_after = SatAdd(changes'[x].scheduled_at, delayOf[x])
              /\ x # c => changes'[x] = changes[x]
        /\ \A e \in events : e.id # c
        /\ \A x \in 1 .. MaxChanges : ChangeStep(x)
    BY <1>1, FinishStep
  <1>3. TimelockType'
    BY <1>1, <1>2 DEF TimelockInv, TimelockType
  <1>4. \A e \in events : changes'[e.id] = changes[e.id]
    BY <1>2 DEF TimelockInv, TimelockType
  <1>5. TimelockHistory'
    BY <1>1, <1>2, <1>4 DEF TimelockInv, TimelockHistory, SatAdd
  <1> QED
    BY <1>2, <1>3, <1>5 DEF TimelockInv

\* Every step of the system keeps the timelock's invariant and its changes.
LEMMA TimelockStep ==
  ASSUME TimelockInv, [GovernanceNext]_governanceVars
  PROVE  TimelockInv' /\ [\A c \in 1 .. MaxChanges : ChangeStep(c)]_timelockVars
  <1>1. CASE TimelockCall
    <2>1. UNCHANGED ledger /\ TimelockNext
      BY <1>1 DEF TimelockCall
    <2>2. PICK caller \in Accounts :
             \/ \E p \in Params, v \in Values, d \in Delays : schedule_change(caller, p, v, d)
             \/ \E c \in 1 .. MaxChanges : apply_change(caller, c) \/ cancel_change(caller, c)
      BY <2>1 DEF TimelockNext
    <2> QED
      BY <2>1, <2>2, ScheduleStep, ApplyStep, CancelStep
  <1>2. CASE UNCHANGED timelockVars /\ (UNCHANGED ledger \/ ledger' = ledger + 1)
    BY <1>2 DEF TimelockInv, TimelockType, TimelockHistory, timelockVars, SatAdd
  <1> QED
    BY <1>1, <1>2 DEF GovernanceNext, MultisigCall, RbacCall, LedgerStep, LedgerCloses,
                      governanceVars

\* The invariant holds throughout.
LEMMA TimelockInvariant == GovernanceSpec => []TimelockInv
  BY TimelockInitially, TimelockStep, PTL DEF GovernanceSpec

\* A change takes effect at most once, never after it was cancelled and never
\* before the (saturated) delay of schedule_change is over.
THEOREM ChangesApplyOnce == GovernanceSpec => []AppliedOnceAfterDelay
  <1>1. TimelockInv => AppliedOnceAfterDelay
    <2> SUFFICES ASSUME TimelockInv PROVE AppliedOnceAfterDelay
      OBVIOUS
    <2>1. \A e \in events : e.id \in DOMAIN changes /\ e.id \in 1 .. changeCounter
      BY DEF TimelockInv, TimelockType
    <2> QED
      BY <2>1 DEF TimelockInv, TimelockHistory, AppliedOnceAfterDelay
  <1> QED
    BY <1>1, TimelockInvariant, PTL

\* No call of any contract rewrites a scheduled change or reopens a finished one.
THEOREM ScheduledChangesKept == GovernanceSpec => ChangesKept
  BY TimelockInvariant, TimelockStep, PTL DEF GovernanceSpec, ChangesKept

--------------------------------------------------------------------------------
(* multisig_admin                                                          *)

Proposal == [proposer : MultisigAdmins, operation : Operations,
             approvals : Seq(MultisigAdmins), created_at : Nat, expires_at : Nat,
             executed : BOOLEAN]

Distinct(approvals) ==
    \A a, b \in 1 .. Len(approvals) : approvals[a] = approvals[b] => a = b

MultisigType ==
    /\ ledger \in Nat
    /\ next_id \in Nat
    /\ proposals \in [0 .. (next_id - 1) -> Proposal]
    /\ DOMAIN executedAt \subseteq 0 .. (next_id - 1)

\* No admin is twice among the approvals, and a proposal is executed, with a
\* recorded time before its expiry, as soon as there are Threshold of them.
GoodProposal(i) ==
    /\ Distinct(proposals[i].approvals)
    /\ proposals[i].executed <=> Len(proposals[i].approvals) >= Threshold
    /\ i \in DOMAIN executedAt <=> proposals[i].executed
    /\ proposals[i].executed => executedAt[i] <= proposals[i].expires_at

MultisigInv == MultisigType /\ \A i \in 0 .. (next_id - 1) : GoodProposal(i)

\* A list of approvals without repetition has as many entries as admins stand
\* behind it.
LEMMA ApproversCounted ==
  ASSUME NEW approvals \in Seq(MultisigAdmins), Distinct(approvals)
  PROVE  Cardinality({a \in MultisigAdmins : has_approved(approvals, a)}) = Len(approvals)
  <1> DEFINE behind == {a \in MultisigAdmins : has_approved(approvals, a)}
             n == Len(approvals)
  <1>1. n \in Nat /\ DOMAIN approvals = 1 .. n /\ approvals \in [1 .. n -> MultisigAdmins]
    OBVIOUS
  <1>2. \A k \in 1 .. n : approvals[k] \in behind
    BY <1>1 DEF has_approved
  <1>3. approvals \in [1 .. n -> behind]
    BY <1>1, <1>2
  <1>4. \A a, b \in 1 .. n : approvals[a] = approvals[b] => a = b
    BY DEF Distinct
  <1>5. \A t \in behind : \E k \in 1 .. n : approvals[k] = t
    BY <1>1 DEF has_approved
  <1> HIDE DEF behind, n
  <1>6. approvals \in Bijection(1 .. n, behind)
    BY <1>3, <1>4, <1>5, Fun_IsBij
  <1>7. ExistsBijection(1 .. n, behind)
    BY <1>6 DEF ExistsBijection
  <1>8. Cardinality(behind) = n
    BY <1>1, <1>7, FS_CountingElements
  <1> QED
    BY <1>8 DEF behind, n

\* The constructor leaves no proposals.
LEMMA MultisigInitially == GovernanceInit => MultisigInv
  <1> SUFFICES ASSUME GovernanceInit PROVE MultisigInv
    OBVIOUS
  <1>1. /\ next_id = 0 /\ ledger = 1
        /\ proposals = [i \in {} |-> 0] /\ executedAt = [i \in {} |-> 0]
    BY DEF GovernanceInit, LedgerInit, MultisigInit
  <1>2. 0 .. (0 - 1) = {}
    OBVIOUS
  <1> QED
    BY <1>1, <1>2 DEF MultisigInv, MultisigType

\* Storing a proposal with distinct approvals and not yet executed: maybe_execute makes it a good one and leaves the others alone.
LEMMA StoreStep ==
  ASSUME MultisigInv, NEW i \in 0 .. next_id, NEW p \in Proposal,
         ~p.executed, Distinct(p.approvals), StoreProposal(i, p), UNCHANGED ledger,
         i \in 0 .. (next_id - 1) => ~proposals[i].executed,
         next_id' \in Nat, 0 .. (next_id' - 1) = 0 .. (next_id - 1) \cup {i}
  PROVE  /\ MultisigInv'
         /\ proposals'[i] = maybe_execute(p)
         /\ \A j \in 0 .. (next_id - 1) : j # i => proposals'[j] = proposals[j]
  <1> DEFINE D == 0 .. (next_id - 1)
             stored == maybe_execute(p)
  <1>1. /\ ledger <= p.expires_at
        /\ proposals' = [j \in D \cup {i} |-> IF j = i THEN stored ELSE proposals[j]]
        /\ executedAt' = IF stored.executed
                         THEN [j \in DOMAIN executedAt \cup {i} |->
                                  IF j = i THEN ledger ELSE executedAt[j]]
                         ELSE executedAt
    BY DEF StoreProposal, MultisigInv, MultisigType
  <1>2. /\ stored \in Proposal
        /\ stored.approvals = p.approvals /\ stored.expires_at = p.expires_at
        /\ stored.executed <=> Len(p.approvals) >= Threshold
    BY DEF maybe_execute, Proposal
  <1>3. proposals \in [D -> Proposal] /\ ledger \in Nat /\ DOMAIN executedAt \subseteq D
    BY DEF MultisigInv, MultisigType
  <1> HIDE DEF stored, D
  <1>4. /\ proposals' \in [D \cup {i} -> Proposal]
        /\ proposals'[i] = stored
        /\ \A j \in D : j # i => proposals'[j] = proposals[j]
    BY <1>1, <1>2, <1>3
  <1>5. /\ DOMAIN executedAt' \subseteq D \cup {i}
        /\ i \in D => i \notin DOMAIN executedAt
        /\ i \notin D => i \notin DOMAIN executedAt
    BY <1>1, <1>3 DEF MultisigInv, GoodProposal, D
  <1>6. GoodProposal(i)'
    BY <1>1, <1>2, <1>4, <1>5 DEF GoodProposal, Distinct
  <1>7. \A j \in D : j # i => GoodProposal(j)'
    <2> SUFFICES ASSUME NEW j \in D, j # i PROVE GoodProposal(j)'
      OBVIOUS
    <2>1. GoodProposal(j)
      BY DEF MultisigInv, D
    <2>2. (j \in DOMAIN executedAt') = (j \in DOMAIN executedAt)
      BY <1>1
    <2>3. j \in DOMAIN executedAt => executedAt'[j] = executedAt[j]
      BY <1>1
    <2> QED
      BY <2>1, <2>2, <2>3, <1>4 DEF GoodProposal, Distinct
  <1>8. MultisigType'
    BY <1>3, <1>4, <1>5 DEF MultisigType, D
  <1> QED
    BY <1>4, <1>6, <1>7, <1>8 DEF MultisigInv, D, stored

\* A new proposal gets a new id and the approval of its proposer.
LEMMA ProposeStep ==
  ASSUME MultisigInv, NEW caller, NEW op \in Operations, propose(caller, op),
         UNCHANGED ledger
  PROVE  MultisigInv' /\ \A i \in 0 .. MaxProposals : ProposalStep(i)
  <1> DEFINE p == [proposer |-> caller, operation |-> op, approvals |-> <<caller>>,
                   created_at |-> ledger, expires_at |-> SatAdd(ledger, ExpirySeconds),
                   executed |-> FALSE]
  <1>1. /\ caller \in MultisigAdmins /\ next_id' = next_id + 1
        /\ StoreProposal(next_id, p)
    BY DEF propose, require_multisig_admin
  <1>2. /\ next_id \in Nat /\ ledger \in Nat /\ ExpirySeconds \in Nat
        /\ proposals \in [0 .. (next_id - 1) -> Proposal]
    BY MultisigAssumption DEF MultisigInv, MultisigType, MultisigAssumption
  <1>3. <<caller>> \in Seq(MultisigAdmins) /\ Distinct(<<caller>>)
    BY <1>1 DEF Distinct
  <1>4. p \in Proposal /\ ~p.executed /\ Distinct(p.approvals)
    BY <1>1, <1>2, <1>3, SatAddNat DEF Proposal
  <1>5. /\ next_id' \in Nat /\ next_id \notin 0 .. (next_id - 1)
        /\ next_id \in 0 .. next_id
        /\ 0 .. (next_id' - 1) = 0 .. (next_id - 1) \cup {next_id}
    BY <1>1, <1>2
  <1> HIDE DEF p
  <1>6. /\ MultisigInv'
        /\ \A j \in 0 .. (next_id - 1) : j # next_id => proposals'[j] = proposals[j]
    BY <1>1, <1>4, <1>5, StoreStep
  <1>7. DOMAIN proposals' = 0 .. (next_id' - 1)
    BY <1>6 DEF MultisigInv, MultisigType
  <1>8. \A i \in 0 .. MaxProposals : ProposalStep(i)
    BY <1>2, <1>5, <1>6, <1>7 DEF ProposalStep
  <1> QED
    BY <1>6, <1>8

\* An approval is by an admin not yet on the list, before the expiry, and goes to
\* a proposal not yet executed.
LEMMA ApproveStep ==
  ASSUME MultisigInv, NEW caller, NEW i, approve(caller, i), UNCHANGED ledger
  PROVE  MultisigInv' /\ \A j \in 0 .. MaxProposals : ProposalStep(j)
  <1> DEFINE p == [proposals[i] EXCEPT !.approvals = Append(@, caller)]
             old == proposals[i].approvals
  <1>1. /\ caller \in MultisigAdmins /\ i \in DOMAIN proposals
        /\ ledger <= proposals[i].expires_at /\ ~proposals[i].executed
        /\ ~has_approved(old, caller)
        /\ StoreProposal(i, p) /\ next_id' = next_id
    BY DEF approve, require_multisig_admin
  <1>2. /\ next_id \in Nat /\ ledger \in Nat
        /\ proposals \in [0 .. (next_id - 1) -> Proposal]
        /\ i \in 0 .. (next_id - 1) /\ Distinct(old)
    BY <1>1 DEF MultisigInv, MultisigType, GoodProposal
  <1>3. proposals[i] \in Proposal /\ old \in Seq(MultisigAdmins)
    BY <1>2 DEF Proposal
  <1>4. Append(old, caller) \in Seq(MultisigAdmins) /\ Distinct(Append(old, caller))
    <2>1. Append(old, caller) \in Seq(MultisigAdmins)
      BY <1>1, <1>3
    <2>2. /\ Len(Append(old, caller)) = Len(old) + 1 /\ Len(old) \in Nat
          /\ DOMAIN old = 1 .. Len(old)
          /\ \A k \in 1 .. Len(old) : Append(old, caller)[k] = old[k]
          /\ Append(old, caller)[Len(old) + 1] = caller
      BY <1>1, <1>3
    <2>3. \A k \in 1 .. Len(old) : old[k] # caller
      BY <1>1, <2>2 DEF has_approved
    <2> QED
      BY <2>1, <2>2, <2>3, <1>2 DEF Distinct
  <1>5. /\ p \in Proposal /\ ~p.executed /\ Distinct(p.approvals)
        /\ \A f \in {"proposer", "operation", "created_at", "expires_at"} :
               maybe_execute(p)[f] = proposals[i][f]
    BY <1>1, <1>3, <1>4 DEF Proposal, maybe_execute
  <1>6. /\ next_id' \in Nat /\ i \in 0 .. next_id
        /\ 0 .. (next_id' - 1) = 0 .. (next_id - 1) \cup {i}
    BY <1>1, <1>2
  <1> HIDE DEF p
  <1>7. /\ MultisigInv'
        /\ proposals'[i] = maybe_execute(p)
        /\ \A j \in 0 .. (next_id - 1) : j # i => proposals'[j] = proposals[j]
    BY <1>1, <1>5, <1>6, StoreStep
  <1>8. DOMAIN proposals' = 0 .. (next_id - 1)
    BY <1>1, <1>7 DEF MultisigInv, MultisigType
  <1>9. \A j \in 0 .. MaxProposals : ProposalStep(j)
    <2>1. ~(proposals[i].executed \/ ledger > proposals[i].expires_at)
      BY <1>1, <1>2, <1>3 DEF Proposal
    <2>2. ProposalStep(i)
      BY <2>1, <1>2, <1>5, <1>7, <1>8 DEF ProposalStep
    <2>3. \A j : j # i => ProposalStep(j)
      BY <1>2, <1>7, <1>8 DEF ProposalStep
    <2> QED
      BY <2>2, <2>3
  <1> QED
    BY <1>7, <1>9

\* Every step of the system keeps the multisig's invariant and its proposals.
LEMMA MultisigStep ==
  ASSUME MultisigInv, [GovernanceNext]_governanceVars
  PROVE  MultisigInv' /\ [\A i \in 0 .. MaxProposals : ProposalStep(i)]_multisigVars
  <1>1. CASE MultisigCall
    <2>1. UNCHANGED ledger /\ MultisigNext
      BY <1>1 DEF MultisigCall
    <2>2. PICK caller \in Accounts :
             \/ \E op \in Operations : propose(caller, op)
             \/ \E i \in 0 .. MaxProposals : approve(caller, i)
      BY <2>1 DEF MultisigNext
    <2> QED
      BY <2>1, <2>2, ProposeStep, ApproveStep
  <1>2. CASE UNCHANGED multisigVars /\ (UNCHANGED ledger \/ ledger' = ledger + 1)
    <2>1. next_id' = next_id /\ proposals' = proposals /\ executedAt' = executedAt
      BY <1>2 DEF multisigVars
    <2>2. MultisigType'
      BY <1>2, <2>1 DEF MultisigInv, MultisigType
    <2>3. \A i \in 0 .. (next_id - 1) : GoodProposal(i)'
      BY <2>1 DEF MultisigInv, GoodProposal, Distinct
    <2> QED
      BY <1>2, <2>1, <2>2, <2>3 DEF MultisigInv
  <1> QED
    BY <1>1, <1>2 DEF GovernanceNext, TimelockCall, RbacCall, LedgerStep, LedgerCloses,
                      governanceVars

\* The invariant holds throughout.
LEMMA MultisigInvariant == GovernanceSpec => []MultisigInv
  BY MultisigInitially, MultisigStep, PTL DEF GovernanceSpec

\* A proposal is executed exactly when Threshold different admins stand behind
\* it, and not after expires_at.
THEOREM ExecutedByThreshold == GovernanceSpec => []ExecutedByTwo
  <1>1. MultisigInv => ExecutedByTwo
    <2> SUFFICES ASSUME MultisigInv, NEW i \in DOMAIN proposals
                 PROVE  /\ proposals[i].executed <=>
                              Cardinality({a \in MultisigAdmins :
                                              has_approved(proposals[i].approvals, a)})
                                  >= Threshold
                        /\ i \in DOMAIN executedAt <=> proposals[i].executed
                        /\ proposals[i].executed => executedAt[i] <= proposals[i].expires_at
      BY DEF ExecutedByTwo
    <2>1. i \in 0 .. (next_id - 1) /\ proposals[i] \in Proposal /\ GoodProposal(i)
      BY DEF MultisigInv, MultisigType
    <2>2. proposals[i].approvals \in Seq(MultisigAdmins) /\ Distinct(proposals[i].approvals)
      BY <2>1 DEF Proposal, GoodProposal
    <2> QED
      BY <2>1, <2>2, ApproversCounted DEF GoodProposal
  <1> QED
    BY <1>1, MultisigInvariant, PTL

\* No call of any contract touches an executed or an expired proposal, or what a
\* proposal is about.
THEOREM ProposalsStayAsMade == GovernanceSpec => ProposalsKept
  BY MultisigInvariant, MultisigStep, PTL DEF GovernanceSpec, ProposalsKept

\* Both together: finished decisions are not touched by any call (apply_change,
\* cancel_change, approve and the rest).
THEOREM DecisionsStay == GovernanceSpec => DecisionsKept
  BY ScheduledChangesKept, ProposalsStayAsMade, PTL DEF DecisionsKept

--------------------------------------------------------------------------------
(* rbac_access, and the types of all three                                 *)

RbacType == role \in [Accounts -> Roles \cup {NoRole}]

\* Only a SuperAdmin passes the check of grant_role and revoke_role.
LEMMA SuperPasses ==
  ASSUME RbacType, NEW caller \in Accounts, require_role(caller, "SuperAdmin")
  PROVE  role[caller] = "SuperAdmin"
  <1>1. role[caller] \in Roles
    BY DEF RbacType, require_role
  <1>2. role_rank("SuperAdmin") = 4
    BY DEF role_rank
  <1>3. role_rank(role[caller]) >= 4
    BY <1>2 DEF require_role
  <1>4. \A r \in Roles : r # "SuperAdmin" => ~(role_rank(r) >= 4)
    BY DEF Roles, role_rank
  <1> QED
    BY <1>1, <1>3, <1>4

\* A step changes one role at most, on behalf of a SuperAdmin.
LEMMA RbacStep ==
  ASSUME RbacType, [GovernanceNext]_governanceVars
  PROVE  RbacType' /\ [role' # role =>
                          /\ Supers # {}
                          /\ Supers' = {} => Cardinality(Supers) = 1]_role
  <1>1. CASE RbacCall
    <2>1. PICK caller \in Accounts, account \in Accounts, r \in Roles \cup {NoRole} :
             /\ require_role(caller, "SuperAdmin")
             /\ role' = [role EXCEPT ![account] = r]
      <3>1. PICK c \in Accounts : \/ \E a \in Accounts, r \in Roles : grant_role(c, a, r)
                                 \/ \E a \in Accounts : revoke_role(c, a)
        BY <1>1 DEF RbacCall, RbacNext
      <3>2. CASE \E a \in Accounts, r \in Roles : grant_role(c, a, r)
        BY <3>2 DEF grant_role
      <3>3. CASE \E a \in Accounts : revoke_role(c, a)
        BY <3>3 DEF revoke_role
      <3> QED
        BY <3>1, <3>2, <3>3
    <2>2. RbacType'
      BY <2>1 DEF RbacType
    <2>3. role[caller] = "SuperAdmin" /\ caller \in Supers
      BY <2>1, SuperPasses DEF Supers
    <2>4. \A a \in Accounts : a # account => role'[a] = role[a]
      BY <2>1 DEF RbacType
    <2>5. ASSUME Supers' = {} PROVE Supers = {caller}
      BY <2>3, <2>4, <2>5 DEF Supers
    <2>6. Supers' = {} => Cardinality(Supers) = 1
      BY <2>5, FS_Singleton
    <2> QED
      BY <2>2, <2>3, <2>6
  <1>2. CASE UNCHANGED role
    BY <1>2 DEF RbacType
  <1> QED
    BY <1>1, <1>2 DEF GovernanceNext, TimelockCall, MultisigCall, LedgerStep, governanceVars

\* Every role is one of the four or none.
LEMMA RbacInvariant == GovernanceSpec => []RbacType
  <1>1. GovernanceInit => RbacType
    BY DEF GovernanceInit, RbacInit, RbacType, Roles
  <1> QED
    BY <1>1, RbacStep, PTL DEF GovernanceSpec

\* Nobody but a SuperAdmin changes a role, and the last one loses it only by its
\* own call.
THEOREM OnlySupersDecide == GovernanceSpec => SupersDecide
  BY RbacInvariant, RbacStep, PTL DEF GovernanceSpec, SupersDecide

\* Every storage entry of the three contracts keeps its type.
THEOREM GovernanceTypeCorrect == GovernanceSpec => []GovernanceTypeOK
  <1>1. TimelockInv /\ MultisigInv /\ RbacType => GovernanceTypeOK
    <2> SUFFICES ASSUME TimelockInv, MultisigInv, RbacType PROVE GovernanceTypeOK
      OBVIOUS
    <2>1. /\ ledger \in Nat /\ changeCounter \in Nat
          /\ DOMAIN changes = 1 .. changeCounter /\ DOMAIN delayOf = 1 .. changeCounter
          /\ \A c \in DOMAIN changes : changes[c] \in Change /\ delayOf[c] \in Delays
          /\ \A e \in events : e.at \in Nat
      BY DEF TimelockInv, TimelockType
    <2>2. /\ next_id \in Nat
          /\ DOMAIN proposals = 0 .. (next_id - 1)
          /\ \A i \in DOMAIN proposals : proposals[i] \in Proposal
      BY DEF MultisigInv, MultisigType
    <2>3. \A i \in DOMAIN proposals : /\ proposals[i].approvals \in Seq(MultisigAdmins)
                                       /\ proposals[i].executed \in BOOLEAN
      BY <2>2 DEF Proposal
    <2> QED
      BY <2>1, <2>2, <2>3 DEF GovernanceTypeOK, RbacType
  <1> QED
    BY <1>1, TimelockInvariant, MultisigInvariant, RbacInvariant, PTL

--------------------------------------------------------------------------------
(* merchant_registry and payment_escrow                                     *)

\* The registry keeps a record of every merchant.
RegistryType == record \in [Merchants -> MerchantRecord]

\* A call on the registry keeps the type of its records, and changes its answer
\* on one merchant or on none.
LEMMA RegistryAnswers ==
  ASSUME RegistryType, RegistryNext
  PROVE  /\ RegistryType'
         /\ \/ UNCHANGED ActiveMerchants
            \/ \E m \in Merchants :
                  ActiveMerchants' \in {ActiveMerchants \cup {m}, ActiveMerchants \ {m}}
  <1>1. SUFFICES ASSUME NEW m \in Merchants,
                        \E r \in MerchantRecord : record' = [record EXCEPT ![m] = r]
                 PROVE  /\ RegistryType'
                        /\ ActiveMerchants' \in {ActiveMerchants \cup {m}, ActiveMerchants \ {m}}
    <2>1. CASE UNCHANGED record
      BY <2>1 DEF RegistryType, ActiveMerchants, is_merchant_active, Registered
    <2>2. ASSUME NEW m \in Merchants,
                 \E r \in MerchantRecord : record' = [record EXCEPT ![m] = r]
          PROVE  RegistryType' /\ (UNCHANGED ActiveMerchants \/ \E n \in Merchants : ActiveMerchants' \in {ActiveMerchants \cup {n}, ActiveMerchants \ {n}})
      BY <1>1, <2>2
    <2>3. ASSUME NEW caller \in RegistryAdmins, NEW m \in Merchants,
                 \/ register_merchant(caller, m)
                 \/ suspend_merchant(caller, m)
                 \/ reactivate_merchant(caller, m)
                 \/ \E v \in BOOLEAN : set_kyc_status(caller, m, v)
          PROVE  \E r \in MerchantRecord : record' = [record EXCEPT ![m] = r]
      <3>1. record[m] \in MerchantRecord
        BY DEF RegistryType
      <3>2. CASE register_merchant(caller, m)
        BY <3>2 DEF register_merchant, MerchantRecord, MerchantStatuses
      <3>3. CASE suspend_merchant(caller, m)
        <4>1. [record[m] EXCEPT !.status = "Suspended"] \in MerchantRecord
          BY <3>1 DEF MerchantRecord, MerchantStatuses
        <4> QED
          BY <3>3, <4>1 DEF suspend_merchant
      <3>4. CASE reactivate_merchant(caller, m)
        <4>1. [record[m] EXCEPT !.status = "Active"] \in MerchantRecord
          BY <3>1 DEF MerchantRecord, MerchantStatuses
        <4> QED
          BY <3>4, <4>1 DEF reactivate_merchant
      <3>5. ASSUME NEW v \in BOOLEAN, set_kyc_status(caller, m, v)
            PROVE  \E r \in MerchantRecord : record' = [record EXCEPT ![m] = r]
        <4>1. [record[m] EXCEPT !.kyc_verified = v] \in MerchantRecord
          BY <3>1 DEF MerchantRecord
        <4> QED
          BY <3>5, <4>1 DEF set_kyc_status
      <3> QED
        BY <2>3, <3>2, <3>3, <3>4, <3>5
    <2> QED
      BY <2>1, <2>2, <2>3 DEF RegistryNext, transfer_admin
  <1>2. PICK r \in MerchantRecord : record' = [record EXCEPT ![m] = r]
    BY <1>1
  <1>3. RegistryType'
    BY <1>2 DEF RegistryType
  <1>4. record'[m] = r /\ \A n \in Merchants \ {m} : record'[n] = record[n]
    BY <1>2 DEF RegistryType
  <1>5. \A n \in Merchants \ {m} : n \in ActiveMerchants' <=> n \in ActiveMerchants
    BY <1>4 DEF ActiveMerchants, is_merchant_active, Registered
  <1>6. ActiveMerchants \subseteq Merchants /\ ActiveMerchants' \subseteq Merchants
    BY DEF ActiveMerchants
  <1> QED
    BY <1>3, <1>5, <1>6

\* A step of the composed contracts is a step of PaymentEscrow or a stutter.
LEMMA SystemSteps ==
  ASSUME RegistryType, [SystemNext]_allVars
  PROVE  RegistryType' /\ [Escrow!Next]_(Escrow!vars)
  <1>1. CASE EscrowCall
    <2>1. UNCHANGED record
      BY <1>1 DEF EscrowCall, registryVars
    <2> QED
      BY <1>1, <2>1 DEF EscrowCall, RegistryType, Escrow!Next
  <1>2. CASE RegistryCall
    <2>1. UNCHANGED escrowVars /\ RegistryNext
      BY <1>2 DEF RegistryCall
    <2>2. CASE UNCHANGED ActiveMerchants
      BY <2>1, <2>2, RegistryAnswers DEF escrowVars, Escrow!vars
    <2>3. CASE \E m \in Merchants :
                  ActiveMerchants' \in {ActiveMerchants \cup {m}, ActiveMerchants \ {m}}
      <3>1. Escrow!RegistryChanges
        BY <2>1, <2>3 DEF Escrow!RegistryChanges, escrowVars, Escrow!money, Escrow!drainVars
      <3> QED
        BY <2>1, <3>1, RegistryAnswers DEF Escrow!Next
    <2> QED
      BY <2>1, <2>2, <2>3, RegistryAnswers
  <1>3. CASE UNCHANGED allVars
    <2>1. UNCHANGED record /\ UNCHANGED escrowVars
      BY <1>3 DEF allVars, registryVars
    <2>2. UNCHANGED ActiveMerchants
      BY <2>1 DEF ActiveMerchants, is_merchant_active, Registered
    <2> QED
      BY <2>1, <2>2 DEF RegistryType, escrowVars, Escrow!vars
  <1> QED
    BY <1>1, <1>2, <1>3 DEF SystemNext

\* The composed contracts start as PaymentEscrow does.
LEMMA SystemInitially == SystemInit => RegistryType /\ Escrow!Init
  <1>1. NotRegistered \in MerchantRecord
    BY DEF NotRegistered, MerchantRecord, MerchantStatuses
  <1> QED
    BY <1>1 DEF SystemInit, RegistryInit, RegistryType

\* The registry's records keep their type.
LEMMA RegistryTyped == System => []RegistryType
  BY SystemInitially, SystemSteps, PTL DEF System

\* Asking the real registry is one way in which the answers PaymentEscrow gets may
\* change: the composed contracts implement PaymentEscrow, for any merchants,
\* payments, admins and orders of the calls on the two.
THEOREM RegistryRefines == System => EscrowImplemented
  <1>1. System => Escrow!Spec
    BY SystemInitially, SystemSteps, RegistryTyped, PTL DEF System, Escrow!Spec
  <1> QED
    BY <1>1 DEF EscrowImplemented


\* Ledgers are numbers, and what is stored under an id is a payment or nothing.
ClaimType ==
    /\ seq \in Nat
    /\ payments \in [PaymentIds -> Escrow!Payment \cup {NoPayment}]

\* Two ways to store r for payment p: a first deposit, accepted by the registry if
\* one is configured, and a record of the payment that owes no more than before.
Deposited(p, r) == ~Escrow!Exists(p) /\ (registryOn => r.merchant \in ActiveMerchants)
OwesNoMore(p, r) ==
    /\ Escrow!Exists(p)
    /\ r.merchant = payments[p].merchant
    /\ r.amount = payments[p].amount
    /\ r.released_amount >= payments[p].released_amount

\* A step that rewrites the record of p in one of the two ways, and no other.
Rewritten(p) ==
    \E r \in Escrow!Payment :
        /\ payments' = [payments EXCEPT ![p] = r]
        /\ Deposited(p, r) \/ OwesNoMore(p, r)

\* A payout leaves a payment that owes less.
LEMMA PayoutRewrites ==
  ASSUME ClaimType, NEW p \in PaymentIds, NEW party, NEW k \in Int,
         NEW status \in Escrow!Statuses,
         Escrow!Exists(p), Escrow!transfer_from_contract(p, party, k, status)
  PROVE  Rewritten(p)
  <1>1. payments[p] \in Escrow!Payment
    BY DEF ClaimType, Escrow!Exists
  <1>2. k > 0 /\ payments' = [payments EXCEPT ![p] = Escrow!Released(payments[p], k, status)]
    BY DEF Escrow!transfer_from_contract
  <1>3. PICK r : r = Escrow!Released(payments[p], k, status)
    OBVIOUS
  <1>4. PICK s : s = [payments[p] EXCEPT !.released_amount = payments[p].released_amount + k]
    OBVIOUS
  <1>5. /\ s \in Escrow!Payment
        /\ s.merchant = payments[p].merchant
        /\ s.amount = payments[p].amount
        /\ s.released_amount >= payments[p].released_amount
    BY <1>1, <1>2, <1>4 DEF Escrow!Payment
  <1>6. r = [s EXCEPT !.status = status]
    BY <1>1, <1>3, <1>4 DEF Escrow!Released, Escrow!Payment
  <1>7. /\ r \in Escrow!Payment
        /\ r.merchant = s.merchant
        /\ r.amount = s.amount
        /\ r.released_amount = s.released_amount
    BY <1>5, <1>6 DEF Escrow!Payment
  <1> QED
    BY <1>2, <1>3, <1>5, <1>7 DEF Rewritten, OwesNoMore

\* What remains of a payment is a number.
LEMMA RemainingInt ==
  ASSUME ClaimType, NEW p \in PaymentIds, Escrow!Exists(p)
  PROVE  payments[p] \in Escrow!Payment /\ Escrow!remaining_amount(p) \in Int
  <1>1. payments[p] \in Escrow!Payment
    BY DEF ClaimType, Escrow!Exists
  <1> QED
    BY <1>1 DEF Escrow!remaining_amount, Escrow!Payment

\* A call on payment p rewrites the record of p alone, and closes no ledger.
LEMMA CallRewrites ==
  ASSUME ClaimType, NEW p \in PaymentIds, Escrow!PaymentStep(p)
  PROVE  Rewritten(p) /\ UNCHANGED seq
  <1>0. {"Released", "Expired", "Pending", "Disputed"} \subseteq Escrow!Statuses
    BY DEF Escrow!Statuses
  <1>1. ASSUME NEW c \in Customers, NEW m \in Merchants, NEW k \in Amounts,
               NEW t \in Ttls, NEW a \in Escrow!Assets,
               Escrow!deposit(c, p, m, k, t, a)
        PROVE  Rewritten(p) /\ UNCHANGED seq
    <2>1. k \in Nat \ {0} /\ t \in Nat /\ seq \in Nat
      BY <1>1, EscrowAssumption DEF Escrow!ContractAssumption, Escrow!deposit, ClaimType
    <2>2. PICK e, w : /\ e = Escrow!SaturatingAdd(seq, t)
                      /\ w = Escrow!SaturatingAdd(seq, MaxDisputeWindow)
      OBVIOUS
    <2>3. e \in Nat /\ w \in Nat
      BY <2>1, <2>2, EscrowAssumption DEF Escrow!ContractAssumption, Escrow!SaturatingAdd
    <2>4. PICK r : r = [amount |-> k, released_amount |-> 0,
                        merchant |-> m, customer |-> c,
                        status |-> "Pending", expiry |-> e,
                        dispute_window_end |-> IF e < w THEN e ELSE w,
                        asset_type |-> a]
      OBVIOUS
    <2>5. /\ payments' = [payments EXCEPT ![p] = r]
          /\ ~Escrow!Exists(p)
          /\ registryOn => m \in ActiveMerchants
          /\ UNCHANGED seq
      BY <1>1, <2>2, <2>4, ZenonT(30) DEF Escrow!deposit
    <2>6. r \in Escrow!Payment
      BY <1>0, <2>1, <2>3, <2>4 DEF Escrow!Payment
    <2>7. r.merchant = m
      BY <2>4
    <2> QED
      BY <2>5, <2>6, <2>7 DEF Rewritten, Deposited
  <1>2. ASSUME NEW party, NEW k \in Int, NEW status \in Escrow!Statuses,
               Escrow!Exists(p), Escrow!transfer_from_contract(p, party, k, status)
        PROVE  Rewritten(p) /\ UNCHANGED seq
    BY <1>2, PayoutRewrites DEF Escrow!transfer_from_contract
  <1>3. ASSUME NEW caller, Escrow!release(caller, p)
        PROVE  Rewritten(p) /\ UNCHANGED seq
    <2>1. Escrow!Exists(p)
      BY <1>3 DEF Escrow!release, Escrow!require_releasable, Escrow!Is
    <2> QED
      BY <1>0, <1>2, <1>3, <2>1, RemainingInt DEF Escrow!release
  <1>4. ASSUME NEW caller, Escrow!dispute(caller, p)
        PROVE  Rewritten(p) /\ UNCHANGED seq
    <2>1. Escrow!Exists(p) /\ UNCHANGED seq
          /\ payments' = [payments EXCEPT ![p].status = "Disputed"]
      BY <1>4 DEF Escrow!dispute, Escrow!Is
    <2>2. payments[p] \in Escrow!Payment
      BY <2>1, RemainingInt
    <2>3. PICK r : r = [payments[p] EXCEPT !.status = "Disputed"]
      OBVIOUS
    <2>4. /\ r \in Escrow!Payment
          /\ r.merchant = payments[p].merchant
          /\ r.amount = payments[p].amount
          /\ r.released_amount = payments[p].released_amount
          /\ r.released_amount \in Nat
      BY <1>0, <2>2, <2>3 DEF Escrow!Payment
    <2>5. payments' = [payments EXCEPT ![p] = r]
      BY <2>1, <2>3
    <2>6. OwesNoMore(p, r)
      BY <2>1, <2>4 DEF OwesNoMore
    <2> QED
      BY <2>1, <2>4, <2>5, <2>6, Zenon DEF Rewritten
  <1>5. ASSUME NEW caller, NEW k \in Amounts, Escrow!release_partial(caller, p, k)
        PROVE  Rewritten(p) /\ UNCHANGED seq
    <2>1. Escrow!Exists(p)
      BY <1>5 DEF Escrow!release_partial, Escrow!require_releasable, Escrow!Is
    <2>2. k \in Int
      BY EscrowAssumption DEF Escrow!ContractAssumption
    <2>3. PICK s \in Escrow!Statuses : Escrow!transfer_from_contract(p, "merchant", k, s)
      BY <1>0, <1>5 DEF Escrow!release_partial
    <2> QED
      BY <1>2, <2>1, <2>2, <2>3
  <1>6. ASSUME NEW caller, NEW winner, Escrow!resolve_dispute(caller, p, winner)
        PROVE  Rewritten(p) /\ UNCHANGED seq
    <2>1. Escrow!Exists(p)
      BY <1>6 DEF Escrow!resolve_dispute, Escrow!Is
    <2>2. \E party, s : /\ s \in Escrow!Statuses
                        /\ Escrow!transfer_from_contract(p, party, Escrow!remaining_amount(p), s)
      BY <1>0, <1>6 DEF Escrow!resolve_dispute
    <2> QED
      BY <1>2, <2>1, <2>2, RemainingInt
  <1>7. CASE Escrow!expire(p) \/ Escrow!refund(p)
    <2>1. Escrow!Exists(p)
      BY <1>7 DEF Escrow!expire, Escrow!refund, Escrow!require_expirable, Escrow!Is
    <2>2. Escrow!transfer_from_contract(p, "customer", Escrow!remaining_amount(p), "Expired")
      BY <1>7 DEF Escrow!expire, Escrow!refund
    <2> QED
      BY <1>0, <1>2, <2>1, <2>2, RemainingInt
  <1> QED
    BY <1>1, <1>3, <1>4, <1>5, <1>6, <1>7, ZenonT(30) DEF Escrow!PaymentStep

\* Every step of the system rewrites one payment or none.
LEMMA SystemRewrites ==
  ASSUME ClaimType, [SystemNext]_allVars
  PROVE  /\ seq' \in Nat
         /\ UNCHANGED payments \/ \E p \in PaymentIds : Rewritten(p)
  <1>1. ASSUME NEW p \in PaymentIds, Escrow!PaymentStep(p)
        PROVE  seq' \in Nat /\ Rewritten(p)
    BY <1>1, CallRewrites DEF ClaimType
  <1>2. ASSUME NEW s1, NEW s2, Escrow!emergency_drain(s1, s2)
        PROVE  UNCHANGED <<seq, payments>>
    BY <1>2 DEF Escrow!emergency_drain
  <1>3. ASSUME NEW caller, Escrow!upgrade(caller) \/ \E on \in BOOLEAN : Escrow!set_registry(caller, on)
        PROVE  UNCHANGED <<seq, payments>>
    BY <1>3 DEF Escrow!upgrade, Escrow!set_registry, Escrow!money
  <1>4. CASE Escrow!CloseLedger
    BY <1>4 DEF Escrow!CloseLedger, Escrow!money, ClaimType
  <1>5. CASE UNCHANGED escrowVars
    BY <1>5 DEF escrowVars, ClaimType
  <1> QED
    BY <1>1, <1>2, <1>3, <1>4, <1>5, ZenonT(30)
    DEF SystemNext, EscrowCall, RegistryCall, Escrow!ContractStep, allVars, ClaimType

\* Every step keeps the type.
LEMMA ClaimTyped == System => []ClaimType
  <1>1. SystemInit => ClaimType
    BY DEF SystemInit, Escrow!Init, ClaimType
  <1>2. ClaimType /\ [SystemNext]_allVars => ClaimType'
    <2> SUFFICES ASSUME ClaimType, [SystemNext]_allVars PROVE ClaimType'
      OBVIOUS
    <2>1. payments' \in [PaymentIds -> Escrow!Payment \cup {NoPayment}]
      BY SystemRewrites DEF ClaimType, Rewritten
    <2> QED
      BY <2>1, SystemRewrites DEF ClaimType
  <1> QED
    BY <1>1, <1>2, PTL DEF System

\* While a registry is configured, no call of any contract lets the escrow owe more
\* to a merchant that is not active, however often it was suspended and
\* reactivated between its deposits.
THEOREM InactiveGainNothing == System => NoClaimsWhileInactive
  <1>1. ASSUME ClaimType, [SystemNext]_allVars,
               NEW m \in Merchants, NEW p \in PaymentIds,
               registryOn, record[m].status # "Active"
        PROVE  Owed(p, m)' <= Owed(p, m)
    <2>0. payments \in [PaymentIds -> Escrow!Payment \cup {NoPayment}]
      BY <1>1 DEF ClaimType
    <2>1. Owed(p, m) \in Int
      BY <1>1, RemainingInt DEF Owed
    <2>2. CASE payments'[p] = payments[p]
      BY <2>1, <2>2 DEF Owed, Escrow!Exists, Escrow!remaining_amount
    <2>3. ASSUME NEW r \in Escrow!Payment, payments'[p] = r,
                 Deposited(p, r) \/ OwesNoMore(p, r)
          PROVE  Owed(p, m)' <= Owed(p, m)
      <3>1. CASE Deposited(p, r)
        <4>1. r.merchant # m
          BY <1>1, <3>1 DEF Deposited, ActiveMerchants, is_merchant_active
        <4>2. Owed(p, m)' = 0 /\ Owed(p, m) = 0
          BY <2>3, <3>1, <4>1 DEF Owed, Deposited, Escrow!Exists
        <4> QED
          BY <4>2
      <3>2. CASE OwesNoMore(p, r)
        <4>1. payments[p] \in Escrow!Payment /\ Escrow!Exists(p)
          BY <1>1, <3>2, RemainingInt DEF OwesNoMore
        <4>2. r # NoPayment
          BY EscrowAssumption DEF Escrow!ContractAssumption
        <4>3. /\ r.amount \in Int /\ r.released_amount \in Int
              /\ payments[p].amount \in Int /\ payments[p].released_amount \in Int
          BY <4>1 DEF Escrow!Payment
        <4> QED
          BY <2>3, <3>2, <4>1, <4>2, <4>3
          DEF OwesNoMore, Owed, Escrow!Exists, Escrow!remaining_amount
      <3> QED
        BY <2>3, <3>1, <3>2
    <2>4. ASSUME NEW q \in PaymentIds, Rewritten(q)
          PROVE  Owed(p, m)' <= Owed(p, m)
      <3>1. PICK r \in Escrow!Payment : /\ payments' = [payments EXCEPT ![q] = r]
                                        /\ Deposited(q, r) \/ OwesNoMore(q, r)
        BY <2>4 DEF Rewritten
      <3>2. CASE q = p
        <4>1. payments'[p] = r
          BY <2>0, <3>1, <3>2
        <4> QED
          BY <2>3, <3>1, <3>2, <4>1
      <3>3. CASE q # p
        <4>1. payments'[p] = payments[p]
          BY <2>0, <3>1, <3>3
        <4> QED
          BY <2>2, <4>1
      <3> QED
        BY <3>2, <3>3
    <2> QED
      BY <1>1, <2>2, <2>4, SystemRewrites
  <1>2. ClaimType /\ [SystemNext]_allVars =>
          [\A m \in Merchants, p \in PaymentIds :
              registryOn /\ record[m].status # "Active" => Owed(p, m)' <= Owed(p, m)]_allVars
    BY <1>1
  <1> QED
    BY <1>2, ClaimTyped, PTL DEF System, NoClaimsWhileInactive
================================================================================
