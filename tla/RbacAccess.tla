------------------------------- MODULE RbacAccess -------------------------------
(***************************************************************************)
(* The contract rbac_access (dabdub_contracts/contracts/rbac_access/src/   *)
(* lib.rs): one role per account, granted and revoked by SuperAdmins.  The  *)
(* execute_..._task calls only check the caller's role and change nothing. *)
(***************************************************************************)
EXTENDS SorobanLedger, FiniteSets

CONSTANTS
    FirstSuperAdmin,  \* the constructor's argument
    NoRole            \* no DataKey::Role entry

VARIABLE role         \* DataKey::Role(account)

Roles == {"ReadOnly", "ComplianceAdmin", "OperationsAdmin", "SuperAdmin"}

ASSUME RbacAssumption == FirstSuperAdmin \in Accounts /\ NoRole \notin Roles

role_rank(r) == CASE r = "ReadOnly" -> 1
                  [] r = "ComplianceAdmin" -> 2
                  [] r = "OperationsAdmin" -> 3
                  [] r = "SuperAdmin" -> 4

\* Mutant: an account with any role passes.
require_any_role(caller, minimum) == role[caller] # NoRole

require_role(caller, minimum) ==
    /\ role[caller] # NoRole
    /\ role_rank(role[caller]) >= role_rank(minimum)

RbacInit ==
    role = [a \in Accounts |-> IF a = FirstSuperAdmin THEN "SuperAdmin" ELSE NoRole]

grant_role(caller, account, r) ==
    /\ require_role(caller, "SuperAdmin")
    /\ role' = [role EXCEPT ![account] = r]

revoke_role(caller, account) ==
    /\ require_role(caller, "SuperAdmin")
    /\ role[account] # NoRole
    /\ role' = [role EXCEPT ![account] = NoRole]

RbacNext ==
    \E caller \in Accounts :
        \/ \E a \in Accounts, r \in Roles : grant_role(caller, a, r)
        \/ \E a \in Accounts : revoke_role(caller, a)

--------------------------------------------------------------------------------
Supers == {a \in Accounts : role[a] = "SuperAdmin"}

\* Roles change only while there is a SuperAdmin, and the last one loses the
\* role only by its own call: nobody below, and no other SuperAdmin, can lock
\* the contract.  (Once it is locked, it is so for ever.)
SupersDecide ==
    [][role' # role =>
          /\ Supers # {}
          /\ Supers' = {} => Cardinality(Supers) = 1]_role
================================================================================
