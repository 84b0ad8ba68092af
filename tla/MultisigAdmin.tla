----------------------------- MODULE MultisigAdmin -----------------------------
(***************************************************************************)
(* The contract multisig_admin (dabdub_contracts/contracts/multisig_admin/ *)
(* src/lib.rs): three admins, any of whom proposes an operation; it is     *)
(* executed in the call that brings the second approval.                   *)
(***************************************************************************)
EXTENDS SorobanLedger, Sequences, FiniteSets

CONSTANTS
    MultisigAdmins,   \* DataKey::Admins
    Threshold,        \* THRESHOLD
    ExpirySeconds,    \* EXPIRY_SECONDS, in ledger time
    Operations,       \* operations proposed; the empty one is refused
    EmptyOperation,
    MaxProposals      \* bound on the number of proposals

ASSUME MultisigAssumption ==
    /\ IsFiniteSet(MultisigAdmins) /\ Cardinality(MultisigAdmins) = 3
    /\ Threshold \in Nat /\ ExpirySeconds \in Nat /\ MaxProposals \in Nat

VARIABLES
    next_id,     \* DataKey::NextProposalId
    proposals,   \* DataKey::Proposal(id), a function on 0 .. next_id - 1
    executedAt   \* history: when each executed proposal was executed

multisigVars == <<next_id, proposals, executedAt>>

MultisigInit ==
    /\ next_id = 0
    /\ proposals = [i \in {} |-> 0]
    /\ executedAt = [i \in {} |-> 0]

require_multisig_admin(caller) == caller \in MultisigAdmins
has_approved(approvals, caller) == \E i \in DOMAIN approvals : approvals[i] = caller

\* The proposal after maybe_execute, whose expiry check is in StoreProposal.
maybe_execute(proposal) ==
    IF Len(proposal.approvals) >= Threshold
    THEN [proposal EXCEPT !.executed = TRUE] ELSE proposal

\* Store proposal i as it is after maybe_execute.
StoreProposal(i, proposal) ==
    LET stored == maybe_execute(proposal)
    IN  /\ proposal.executed \/ ledger <= proposal.expires_at
        /\ proposals' = [j \in DOMAIN proposals \cup {i} |->
                            IF j = i THEN stored ELSE proposals[j]]
        /\ executedAt' = IF stored.executed
                         THEN [j \in DOMAIN executedAt \cup {i} |->
                                  IF j = i THEN ledger ELSE executedAt[j]]
                         ELSE executedAt

propose(caller, operation) ==
    /\ require_multisig_admin(caller)
    /\ operation # EmptyOperation
    /\ next_id < MaxProposals
    /\ next_id' = next_id + 1
    /\ StoreProposal(next_id,
           [proposer |-> caller, operation |-> operation, approvals |-> <<caller>>,
            created_at |-> ledger, expires_at |-> SatAdd(ledger, ExpirySeconds),
            executed |-> FALSE])

\* Mutant: neither the proposer nor an earlier approver is recognised.
approve_again(caller, i) ==
    /\ require_multisig_admin(caller) /\ i \in DOMAIN proposals
    /\ ledger <= proposals[i].expires_at /\ ~proposals[i].executed
    /\ StoreProposal(i, [proposals[i] EXCEPT !.approvals = Append(@, caller)])
    /\ UNCHANGED next_id

approve(caller, i) ==
    /\ require_multisig_admin(caller)
    /\ i \in DOMAIN proposals
    /\ ledger <= proposals[i].expires_at
    /\ ~proposals[i].executed
    /\ caller # proposals[i].proposer
    /\ ~has_approved(proposals[i].approvals, caller)
    /\ StoreProposal(i, [proposals[i] EXCEPT !.approvals = Append(@, caller)])
    /\ UNCHANGED next_id

MultisigNext ==
    \E caller \in Accounts :
        \/ \E op \in Operations : propose(caller, op)
        \/ \E i \in 0 .. MaxProposals : approve(caller, i)

--------------------------------------------------------------------------------
\* A proposal is executed exactly when Threshold different admins stand behind
\* it, and only before it expires: no admin counts twice, and no approval is
\* taken without the execution it completes.
ExecutedByTwo ==
    \A i \in DOMAIN proposals :
        LET behind == {a \in MultisigAdmins : has_approved(proposals[i].approvals, a)}
        IN  /\ proposals[i].executed <=> Cardinality(behind) >= Threshold
            /\ i \in DOMAIN executedAt <=> proposals[i].executed
            /\ proposals[i].executed => executedAt[i] <= proposals[i].expires_at

\* An executed proposal is never touched again and an expired one never
\* executed later; an approval adds one name and changes nothing else.
ProposalStep(i) ==
    i \in DOMAIN proposals =>
        /\ i \in DOMAIN proposals'
        /\ \A f \in {"proposer", "operation", "created_at", "expires_at"} :
               proposals'[i][f] = proposals[i][f]
        /\ proposals[i].executed \/ ledger > proposals[i].expires_at
               => proposals'[i] = proposals[i]
ProposalsKept == [][\A i \in 0 .. MaxProposals : ProposalStep(i)]_multisigVars
================================================================================
