--------------------------- MODULE EscrowWithRegistry ---------------------------
(***************************************************************************)
(* payment_escrow configured with merchant_registry: deposit calls the     *)
(* registry (is_approved in the escrow's client trait; the registry offers *)
(* that answer as is_merchant_active) inside the same transaction, while   *)
(* the two contracts are otherwise called independently.                   *)
(***************************************************************************)
EXTENDS Integers, MerchantRegistry

CONSTANTS
    PaymentIds, Customers, Admin, Signers, NoPayment, Amounts, Ttls, MaxTtl,
    MaxDisputeWindow, Cooldown, MaxU32, LastDeposit, LastLedger, MaxVersion

VARIABLES
    seq, payments, balance, treasury, paid, registryOn, lastDrain, drains, version

Escrow == INSTANCE PaymentEscrow WITH approved <- ActiveMerchants, MaxLedger <- LastLedger

\* What the escrow's constructor insists on.
ASSUME EscrowAssumption == Escrow!ContractAssumption

escrowVars == <<seq, payments, balance, treasury, paid, registryOn, lastDrain,
                drains, version>>
allVars == <<escrowVars, registryVars>>

SystemInit == RegistryInit /\ Escrow!Init

\* A call on the escrow; the registry's storage does not change.
EscrowCall == UNCHANGED registryVars /\ Escrow!ContractStep

\* A call on the registry; the escrow's storage does not change.
RegistryCall == UNCHANGED escrowVars /\ RegistryNext

SystemNext == EscrowCall \/ RegistryCall

System == SystemInit /\ [][SystemNext]_allVars

\* As in PaymentEscrow: ledgers close and expired payments are sent back.
EscrowLedgerCloses == UNCHANGED registryVars /\ Escrow!CloseLedger
SendBack(p) == UNCHANGED registryVars /\ (Escrow!expire(p) \/ Escrow!refund(p))
FairSystem ==
    /\ System
    /\ WF_allVars(EscrowLedgerCloses)
    /\ \A p \in PaymentIds : WF_allVars(SendBack(p))

--------------------------------------------------------------------------------
\* The escrow that asks the real registry behaves as PaymentEscrow does with a
\* registry that may change any merchant's answer at any time, so what is shown
\* of PaymentEscrow holds of the composed contracts.
EscrowImplemented == Escrow!Spec

\* A pending payment leaves the escrow, whatever becomes of its merchant's
\* record and of the registry setting in the meantime, unless a dispute or an
\* emergency drain holds it up.
EventuallyLeaves == Escrow!EventuallyLeaves

\* "After suspension, the Escrow contract will reject new deposits for this
\* merchant": while a registry is configured, what the escrow owes to a
\* merchant that is not active never grows, whatever happened to the merchant's
\* record between its deposits.
Owed(p, m) ==
    IF Escrow!Exists(p) /\ payments[p].merchant = m
    THEN Escrow!remaining_amount(p) ELSE 0
NoClaimsWhileInactive ==
    [][\A m \in Merchants, p \in PaymentIds :
           registryOn /\ record[m].status # "Active" => Owed(p, m)' <= Owed(p, m)]_allVars
================================================================================
