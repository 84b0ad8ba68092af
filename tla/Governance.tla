------------------------------- MODULE Governance -------------------------------
(***************************************************************************)
(* The three administration contracts on one ledger: admin_timelock,       *)
(* multisig_admin and rbac_access.  They do not call each other; an        *)
(* address may be an admin of several of them.                             *)
(***************************************************************************)
EXTENDS AdminTimelock, MultisigAdmin, RbacAccess, TLC

governanceVars == <<ledger, timelockVars, multisigVars, role>>

GovernanceInit == LedgerInit /\ TimelockInit /\ MultisigInit /\ RbacInit

TimelockCall == TimelockNext /\ UNCHANGED <<ledger, multisigVars, role>>
MultisigCall == MultisigNext /\ UNCHANGED <<ledger, timelockVars, role>>
RbacCall == RbacNext /\ UNCHANGED <<ledger, timelockVars, multisigVars>>
LedgerStep == LedgerCloses /\ UNCHANGED <<timelockVars, multisigVars, role>>

GovernanceNext == TimelockCall \/ MultisigCall \/ RbacCall \/ LedgerStep

GovernanceSpec == GovernanceInit /\ [][GovernanceNext]_governanceVars

\* For model checking: the multisig admins that no other constant names.
Symmetry == Permutations(MultisigAdmins \ {TimelockAdmin, FirstSuperAdmin})

--------------------------------------------------------------------------------
\* Every variable has the type its storage entry has.
GovernanceTypeOK ==
    /\ ledger \in Nat
    /\ changeCounter \in Nat
    /\ DOMAIN changes = 1 .. changeCounter /\ DOMAIN delayOf = 1 .. changeCounter
    /\ \A c \in DOMAIN changes : changes[c] \in Change /\ delayOf[c] \in Delays
    /\ \A e \in events : e.at \in Nat
    /\ next_id \in Nat
    /\ DOMAIN proposals = 0 .. (next_id - 1)
    /\ \A i \in DOMAIN proposals :
          /\ proposals[i].approvals \in Seq(MultisigAdmins)
          /\ proposals[i].executed \in BOOLEAN
    /\ role \in [Accounts -> Roles \cup {NoRole}]

\* What was decided stays decided: no call of any contract rewrites a scheduled change
\* or a proposal, or touches one that is finished.
DecisionsKept == ChangesKept /\ ProposalsKept
================================================================================
