---------------------------- MODULE MerchantRegistry ----------------------------
(***************************************************************************)
(* The Soroban contract merchant_registry (dabdub_contracts/contracts/     *)
(* merchant_registry/src/lib.rs): the admin registers merchants, suspends  *)
(* and reactivates them and records their KYC status.  MerchantStatus also *)
(* has Terminated, which no operation of the contract sets.                *)
(***************************************************************************)
CONSTANTS
    Merchants,       \* addresses that may be registered
    RegistryAdmins   \* addresses the admin role may pass between

VARIABLES
    record,          \* DataKey::Merchant(address)
    registryAdmin    \* DataKey::Admin

registryVars == <<record, registryAdmin>>

NotRegistered == [status |-> "None", kyc_verified |-> FALSE]
MerchantStatuses == {"None", "Active", "Suspended", "Terminated"}
MerchantRecord == [status : MerchantStatuses, kyc_verified : BOOLEAN]

RegistryInit ==
    /\ record = [m \in Merchants |-> NotRegistered]
    /\ registryAdmin \in RegistryAdmins

registry_require_admin(caller) == caller = registryAdmin
Registered(m) == record[m].status # "None"

register_merchant(caller, m) ==
    /\ registry_require_admin(caller)
    /\ ~Registered(m)
    /\ record' = [record EXCEPT ![m] = [status |-> "Active", kyc_verified |-> FALSE]]
    /\ UNCHANGED registryAdmin

\* Mutant: the status is stored under a key that lacks the merchant's address.
suspend_every_merchant(caller, m) ==
    /\ registry_require_admin(caller) /\ Registered(m)
    /\ record' = [x \in Merchants |->
           IF Registered(x) THEN [record[x] EXCEPT !.status = "Suspended"] ELSE record[x]]
    /\ UNCHANGED registryAdmin

suspend_merchant(caller, m) ==
    /\ registry_require_admin(caller)
    /\ Registered(m)
    /\ record[m].status \notin {"Suspended", "Terminated"}
    /\ record' = [record EXCEPT ![m].status = "Suspended"]
    /\ UNCHANGED registryAdmin

reactivate_merchant(caller, m) ==
    /\ registry_require_admin(caller)
    /\ Registered(m)
    /\ record[m].status \notin {"Active", "Terminated"}
    /\ record' = [record EXCEPT ![m].status = "Active"]
    /\ UNCHANGED registryAdmin

set_kyc_status(caller, m, verified) ==
    /\ registry_require_admin(caller)
    /\ Registered(m)
    /\ record' = [record EXCEPT ![m].kyc_verified = verified]
    /\ UNCHANGED registryAdmin

transfer_admin(caller, new_admin) ==
    /\ registry_require_admin(caller)
    /\ registryAdmin' = new_admin
    /\ UNCHANGED record

\* Mutant: every registered merchant counts as active.
is_merchant_registered(m) == Registered(m)

is_merchant_active(m) == Registered(m) /\ record[m].status = "Active"
is_kyc_verified(m) == Registered(m) /\ record[m].kyc_verified

ActiveMerchants == {m \in Merchants : is_merchant_active(m)}

RegistryNext ==
    \E caller \in RegistryAdmins :
        \/ \E m \in Merchants : \/ register_merchant(caller, m)
                                \/ suspend_merchant(caller, m)
                                \/ reactivate_merchant(caller, m)
                                \/ \E v \in BOOLEAN : set_kyc_status(caller, m, v)
        \/ \E a \in RegistryAdmins : transfer_admin(caller, a)
================================================================================
